------------------------------ MODULE StubServer ------------------------------
(***************************************************************************)
(* flightlog/mcp/stub_server.py: serve_stub answers the requests on its    *)
(* stdin from a stub.  Calls of one key get its recorded answers in order; *)
(* then the last one again, or an error in strict mode.                    *)
(*                                                                         *)
(* A stub entry is a list of answers, or (files of the older format) a     *)
(* single answer that every call gets.                                     *)
(***************************************************************************)
EXTENDS Naturals, Sequences, FiniteSets

CONSTANTS
    Keys,          \* method and params of a call
    Answer,        \* recorded results and errors
    Fallback,      \* Fallback[key]: the response of the first fallback rule
                   \* that matches, or
    NoFallback,    \* this, when no rule does
    Stubs,         \* the stub files that may be loaded
    MaxCalls       \* bound: lines served

(* A stub entry.  generate_stub never writes an empty list. *)
Entry == [list : BOOLEAN, answers : Seq(Answer) \ {<<>>}]

ASSUME StubServerAssumption ==
    /\ MaxCalls \in Nat
    /\ DOMAIN Fallback = Keys
    /\ \A s \in Stubs : /\ s = [key \in DOMAIN s |-> s[key]]
                       /\ DOMAIN s \subseteq Keys
                       /\ \A key \in DOMAIN s : s[key] \in Entry

VARIABLES
    stub,       \* the loaded stub: a function from some keys to entries
    strict,     \* --strict
    counters,   \* how often a key was answered from its list
    replies     \* what was written to stdout, in order

serverVars == <<stub, strict, counters, replies>>

(* A reply: the key that was asked, what it got, and for an answer from a  *)
(* list, which one.                                                        *)
Reply(key, outcome, value, nth) ==
    [key |-> key, outcome |-> outcome, value |-> value, nth |-> nth]

Load(loaded, strictMode) ==
    /\ stub = loaded /\ strict = strictMode
    /\ counters = [key \in Keys |-> 0]
    /\ replies = <<>>

HasList(key) == key \in DOMAIN stub /\ stub[key].list

Length(key) == Len(stub[key].answers)

(* _response_for_request, by the branch taken. *)
Answered(key) ==
    /\ HasList(key)
    /\ counters[key] < Length(key)
    /\ replies' = Append(replies,
          Reply(key, "recorded", stub[key].answers[counters[key] + 1], counters[key] + 1))
    /\ counters' = [counters EXCEPT ![key] = @ + 1]

Exhausted(key) ==
    /\ HasList(key) /\ strict
    /\ counters[key] >= Length(key)
    /\ replies' = Append(replies, Reply(key, "exhausted", NoFallback, counters[key]))
    /\ UNCHANGED counters

(* Mutant of LastAgain: the sequence starts again. *)
FirstAgain(key) ==
    /\ HasList(key) /\ ~strict
    /\ counters[key] >= Length(key)
    /\ replies' = Append(replies, Reply(key, "recorded", stub[key].answers[1], 1))
    /\ counters' = [counters EXCEPT ![key] = @ + 1]

LastAgain(key) ==
    /\ HasList(key) /\ ~strict
    /\ counters[key] >= Length(key)
    /\ replies' = Append(replies,
          Reply(key, "recorded", stub[key].answers[Length(key)], Length(key)))
    /\ counters' = [counters EXCEPT ![key] = @ + 1]

SingleAnswer(key) ==
    /\ key \in DOMAIN stub /\ ~stub[key].list
    /\ replies' = Append(replies, Reply(key, "single", stub[key].answers[1], 0))
    /\ UNCHANGED counters

NoMapping(key) ==
    /\ key \notin DOMAIN stub
    /\ replies' = Append(replies,
          IF Fallback[key] # NoFallback
            THEN Reply(key, "fallback", Fallback[key], 0)
            ELSE Reply(key, "unknown", NoFallback, 0))
    /\ UNCHANGED counters

Serve(key) ==
    /\ Len(replies) < MaxCalls
    /\ \/ Answered(key) \/ Exhausted(key) \/ LastAgain(key)
       \/ SingleAnswer(key) \/ NoMapping(key)
    /\ UNCHANGED <<stub, strict>>

(* A line that is no JSON object, or names no method, is skipped: the loop *)
(* goes on and nothing is written.                                         *)
SkipLine == UNCHANGED serverVars

Init == \E loaded \in Stubs, strictMode \in BOOLEAN : Load(loaded, strictMode)

Next == (\E key \in Keys : Serve(key)) \/ SkipLine

Spec == Init /\ [][Next]_serverVars

-------------------------------------------------------------------------------
(* Properties.                                                             *)

Outcomes == {"recorded", "exhausted", "single", "fallback", "unknown"}

(* Types; a stub never changes once it is loaded (its type is Stubs').     *)
TypeOK ==
    /\ stub \in Stubs /\ strict \in BOOLEAN
    /\ counters \in [Keys -> Nat]
    /\ \A i \in DOMAIN replies :
          /\ replies[i].key \in Keys /\ replies[i].outcome \in Outcomes
          /\ replies[i].nth \in Nat

(* The refinement: the answers a key has left are the ones its counter has *)
(* not passed.                                                             *)
Given(key) == IF counters[key] < Length(key) THEN counters[key] ELSE Length(key)

Left(key) ==
    IF HasList(key) THEN SubSeq(stub[key].answers, Given(key) + 1, Length(key)) ELSE <<>>

LastGiven(key) ==
    IF HasList(key) /\ Given(key) > 0 THEN <<stub[key].answers[Given(key)]>> ELSE <<>>

Said(reply) ==
    IF reply.outcome = "recorded"
      THEN <<reply.key, "recorded", reply.value>>
      ELSE <<reply.key, reply.outcome>>

R == INSTANCE Recording WITH
        RecordingKeys <- Keys, RecordedAnswers <- Answer, isStrict <- strict,
        left <- [key \in Keys |-> Left(key)],
        last <- [key \in Keys |-> LastGiven(key)],
        said <- [i \in DOMAIN replies |-> Said(replies[i])]

(* The stub server implements the recording it was generated from.         *)
ServesTheRecording == R!RecordingSpec
===============================================================================
