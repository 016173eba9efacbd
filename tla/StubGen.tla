-------------------------------- MODULE StubGen --------------------------------
(***************************************************************************)
(* flightlog/mcp/stubgen.py: the stub generated from a transcript.         *)
(*                                                                         *)
(* A stub maps a key, the method and the canonicalized params of a call,   *)
(* to the list of the answers recorded for it.  A JSON-RPC id is the pair  *)
(* <<form, text>>: 1 is <<"int", "1">> and "1" is <<"str", "1">>.          *)
(***************************************************************************)
EXTENDS JsonRpc, SequencesExt

NoParams == "{}"

(* str(message.request_id) *)
IdText(id) == id[2]

Key(message) ==
    [method |-> message.method,
     params |-> IF message.params = None THEN NoParams ELSE message.params]

IsRequest(message)  == message.kind = "request" /\ message.id # None /\ message.method # None
IsResponse(message) == message.kind = "response" /\ message.id # None

EmptyStub == <<>>

AnswersFor(methods, key) == IF key \in DOMAIN methods THEN methods[key] ELSE <<>>

(* Mutant of AddAnswer: one answer a key, as in the older format. *)
KeepLastAnswer(methods, key, answer) ==
    [k \in DOMAIN methods \cup {key} |-> IF k = key THEN <<answer>> ELSE methods[k]]

AddAnswer(methods, key, answer) ==
    [k \in DOMAIN methods \cup {key} |->
        IF k = key THEN Append(AnswersFor(methods, key), answer) ELSE methods[k]]

Await(pending, text, key) ==
    [t \in DOMAIN pending \cup {text} |-> IF t = text THEN key ELSE pending[t]]

(* Mutants of StubStep: an answered request stays pending, and a response  *)
(* goes to any pending request.                                            *)
StubStepKeepsPending(acc, message) ==
    LET text == IdText(message.id)
    IN  CASE IsRequest(message) ->
                [acc EXCEPT !.pending = Await(@, text, Key(message))]
          [] IsResponse(message) /\ text \in DOMAIN acc.pending ->
                [acc EXCEPT !.methods = AddAnswer(@, acc.pending[text], message.answer)]
          [] OTHER -> acc

StubStepAnyPending(acc, message) ==
    LET any == CHOOSE t \in DOMAIN acc.pending : TRUE
    IN  CASE IsRequest(message) ->
                [acc EXCEPT !.pending = Await(@, IdText(message.id), Key(message))]
          [] IsResponse(message) /\ DOMAIN acc.pending # {} ->
                [pending |-> Restrict(acc.pending, DOMAIN acc.pending \ {any}),
                 methods |-> AddAnswer(acc.methods, acc.pending[any], message.answer)]
          [] OTHER -> acc

(* One pass of the loop of generate_stub.  A request takes the place of a  *)
(* pending one with the same id text, whichever side it came from; a       *)
(* response without a pending request is skipped.                          *)
StubStep(acc, message) ==
    LET text == IdText(message.id)
    IN  CASE IsRequest(message) ->
                [acc EXCEPT !.pending = Await(@, text, Key(message))]
          [] IsResponse(message) /\ text \in DOMAIN acc.pending ->
                [pending |-> Restrict(acc.pending, DOMAIN acc.pending \ {text}),
                 methods |-> AddAnswer(acc.methods, acc.pending[text], message.answer)]
          [] OTHER -> acc

(* The loop after each number of messages.                                 *)
StubAfter(messages) ==
    LET after[n \in 0..Len(messages)] ==
            IF n = 0 THEN [pending |-> <<>>, methods |-> EmptyStub]
                     ELSE StubStep(after[n - 1], messages[n])
    IN  after

GenerateStub(messages) == StubAfter(messages)[Len(messages)].methods

(* The n-th of a set of positions.                                         *)
Nth(S, n) == CHOOSE x \in S : Cardinality({y \in S : y <= x}) = n

(***************************************************************************)
(* What the pass amounts to, said without it: message j answers message i  *)
(* when i is the last request with its id text before j, and no response   *)
(* has used it up in between.                                              *)
(***************************************************************************)
SameId(m, n) == m.id # None /\ n.id # None /\ IdText(m.id) = IdText(n.id)

Answers(messages, i, j) ==
    /\ i < j /\ IsRequest(messages[i]) /\ IsResponse(messages[j])
    /\ SameId(messages[i], messages[j])
    /\ \A k \in (i + 1)..(j - 1) :
          (IsRequest(messages[k]) \/ IsResponse(messages[k])) =>
              ~SameId(messages[k], messages[j])

(* The positions of the responses recorded for a key.                      *)
AnswerPositions(messages, key) ==
    {j \in DOMAIN messages :
        \E i \in DOMAIN messages : Answers(messages, i, j) /\ Key(messages[i]) = key}

(* A stub with these answers for each key, in transcript order.            *)
IsPairing(methods, messages) ==
    \A key \in DOMAIN methods \cup {Key(messages[i]) : i \in DOMAIN messages} :
        LET positions == AnswerPositions(messages, key)
            answers == AnswersFor(methods, key)
        IN  /\ key \in DOMAIN methods <=> positions # {}
            /\ Len(answers) = Cardinality(positions)
            /\ \A j \in positions :
                  answers[Cardinality({i \in positions : i <= j})] = messages[j].answer
===============================================================================
