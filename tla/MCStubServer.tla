----------------------------- MODULE MCStubServer -----------------------------
(***************************************************************************)
(* Three keys: the first has a list of one or two answers, the second a    *)
(* list, a single answer of the older format or nothing, the third only a  *)
(* fallback rule.                                                          *)
(***************************************************************************)
EXTENDS StubServer, TLC

MCKeys == {"alpha", "beta", "gamma"}
MCAnswers == {"a", "b"}
MCFallback == [key \in MCKeys |-> IF key = "gamma" THEN "rule" ELSE NoFallback]

List(answers) == [list |-> TRUE, answers |-> answers]
Single(answer) == [list |-> FALSE, answers |-> <<answer>>]

MCStubs ==
    {"alpha" :> List(s) : s \in {<<"a">>, <<"a", "b">>, <<"b", "b">>}}
    \cup {("alpha" :> List(<<"a", "b">>)) @@ ("beta" :> e)
            : e \in {List(<<"b">>), List(<<"b", "a">>), Single("a")}}
===============================================================================
