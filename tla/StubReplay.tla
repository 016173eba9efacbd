------------------------------ MODULE StubReplay ------------------------------
(***************************************************************************)
(* From a session to its replay: an MCP client and server talk through the *)
(* stdio wrapper, which keeps a transcript in the orders StdioWrap leaves  *)
(* open; `mcp stub generate` makes a stub of it; `mcp stub serve` answers  *)
(* from the stub.                                                          *)
(*                                                                         *)
(* Both peers make requests (MCP servers ask their clients too), number    *)
(* them themselves, and answer in any order or not at all.                 *)
(***************************************************************************)
EXTENDS StubGen, StubServer

CONSTANTS
    ClientCalls,     \* what the client may ask: a set of keys
    ServerCalls,     \* what the server may ask
    ServerIds,       \* the ids the server gives its requests
    MaxClientCalls,  \* bound: requests of the client in the session
    MaxServerCalls   \* bound: requests of the server

(* None is no id, no answer and no part of a call.                         *)
ASSUME SessionAssumption ==
    /\ None \notin {"int", "str"} \X (Nat \cup ServerIds)
    /\ None \notin Direction \X (Nat \cup ServerIds)
    /\ ClientCalls \cup ServerCalls \subseteq Keys
    /\ \A key \in ClientCalls \cup ServerCalls :
          /\ key = [method |-> key.method, params |-> key.params]
          /\ None \notin {key.method, key.params}

VARIABLES
    phase,        \* "record" or "serve"
    session,      \* the messages passed on, in the order they were passed on
    transcript    \* the positions of those captured, in the order of capture

vars == <<serverVars, phase, session, transcript>>

Request(d, key, id) ==
    McpMessage(d, [method |-> key.method, id |-> id, params |-> key.params, answer |-> None])

(* Every answer is told from every other: it names the side that gave it   *)
(* and the request it is for.                                              *)
Response(d, id) ==
    McpMessage(d, [method |-> None, id |-> id, params |-> None, answer |-> <<d, id[2]>>])

From(d) == {i \in DOMAIN session : session[i].direction = d}

RequestsOf(d) == {i \in From(d) : session[i].kind = "request"}

Unanswered(d) ==
    {i \in RequestsOf(d) :
        \A j \in From(Opposite(d)) :
            session[j].kind = "response" => session[j].id # session[i].id}

Captured == {transcript[i] : i \in DOMAIN transcript}

(* The wrapper passes a line on only when its thread has captured the      *)
(* previous one of that direction: so it does by StdioWrap's               *)
(* ImplementsTap, here with one message on each line.                      *)
PassOn(message) ==
    /\ phase = "record"
    /\ From(message.direction) \subseteq Captured
    /\ session' = Append(session, message)
    /\ UNCHANGED <<serverVars, phase, transcript>>

ClientRequests ==
    \E key \in ClientCalls :
        /\ Cardinality(RequestsOf(C2S)) < MaxClientCalls
        /\ PassOn(Request(C2S, key, <<"int", Cardinality(RequestsOf(C2S)) + 1>>))

ServerRequests ==
    \E key \in ServerCalls, n \in ServerIds :
        /\ Cardinality(RequestsOf(S2C)) < MaxServerCalls
        /\ PassOn(Request(S2C, key, <<"str", n>>))

ServerResponds == \E i \in Unanswered(C2S) : PassOn(Response(S2C, session[i].id))
ClientResponds == \E i \in Unanswered(S2C) : PassOn(Response(C2S, session[i].id))

Capture(d) ==
    /\ phase = "record"
    /\ \E i \in From(d) \ Captured :
          transcript' = Append(transcript, i)
    /\ UNCHANGED <<serverVars, phase, session>>

TranscriptMessages == [i \in DOMAIN transcript |-> session[transcript[i]]]

ListEntries(methods) ==
    [key \in DOMAIN methods |-> [list |-> TRUE, answers |-> methods[key]]]

(* generate_stub_from_transcript, write_stub, then serve_stub loads it.    *)
GenerateAndLoad ==
    /\ phase = "record"
    /\ phase' = "serve"
    /\ stub' = ListEntries(GenerateStub(TranscriptMessages))
    /\ strict' \in BOOLEAN
    /\ UNCHANGED <<counters, replies, session, transcript>>

ServeCall == phase = "serve" /\ (\E key \in ClientCalls : Serve(key))
             /\ UNCHANGED <<phase, session, transcript>>

ReplayInit ==
    /\ Load(EmptyStub, FALSE)
    /\ phase = "record" /\ session = <<>> /\ transcript = <<>>

ReplayNext ==
    \/ ClientRequests \/ ServerRequests \/ ServerResponds \/ ClientResponds
    \/ \E d \in Direction : Capture(d)
    \/ GenerateAndLoad \/ ServeCall

ReplaySpec == ReplayInit /\ [][ReplayNext]_vars

-------------------------------------------------------------------------------
(* Properties.                                                             *)

(* generate_stub makes of a transcript what the pairing of requests and    *)
(* responses says: for every key, the answers of its answered calls in the *)
(* order of the responses, and no entry for a key without one.             *)
StubIsPairing == IsPairing(GenerateStub(TranscriptMessages), TranscriptMessages)

(* The calls of the client for a key, and the one whose answer a reply is. *)
CallsOf(key) ==
    {i \in RequestsOf(C2S) : Key(session[i]) = key}

AnsweredBy(i) == <<S2C, session[i].id[2]>>

NoSharedIds ==
    \A i \in RequestsOf(C2S), j \in RequestsOf(S2C) : ~SameId(session[i], session[j])

(* The stub answers a call only with what the server answered to a call of *)
(* the same method and params, unless the server asked for the same (a     *)
(* ping, say: its answers are mixed with those of the client) ...          *)
AnswersMatchCalls ==
    \A r \in DOMAIN replies :
        (replies[r].outcome = "recorded" /\ replies[r].key \notin ServerCalls) =>
            \E i \in CallsOf(replies[r].key) : replies[r].value = AnsweredBy(i)

(* ... provided the two peers use no id text in common.                    *)
AnswersMatchCallsWhenIdsDiffer == NoSharedIds => AnswersMatchCalls

(* The client waits for the answer of a call before it makes the next.     *)
CallsInTurn ==
    \A i, j \in RequestsOf(C2S) :
        i < j => \E k \in (i + 1)..(j - 1) :
                    session[k].direction = S2C /\ session[k].kind = "response"
                    /\ session[k].id = session[i].id

(* Each captured response of the server comes after its captured request.  *)
CapturedAfterRequest ==
    \A b \in DOMAIN transcript :
        LET m == session[transcript[b]]
        IN  (m.direction = S2C /\ m.kind = "response") =>
                \E a \in 1..(b - 1) :
                    transcript[a] \in RequestsOf(C2S) /\ session[transcript[a]].id = m.id

RepliesFor(key) ==
    {r \in DOMAIN replies : replies[r].key = key /\ replies[r].outcome = "recorded"}

(* The n-th call of a key is answered, when the stub is served, with what  *)
(* the server answered to the n-th call of that key in the session (as     *)
(* long as that answer was captured).                                      *)
ReplaysTheSession ==
    \A key \in ClientCalls \ ServerCalls :
        \A n \in 1..Cardinality(CallsOf(key)) :
            LET i == Nth(CallsOf(key), n)
                answered == \E j \in Captured : session[j].direction = S2C
                               /\ session[j].kind = "response" /\ session[j].id = session[i].id
            IN  (Cardinality({r \in DOMAIN replies : replies[r].key = key}) >= n /\ answered) =>
                    /\ Cardinality(RepliesFor(key)) >= n
                    /\ replies[Nth(RepliesFor(key), n)].value = AnsweredBy(i)

(* A client that makes one call at a time gets its session back, if the    *)
(* transcript has every request before its response and no request of the  *)
(* server shares an id.                                                    *)
SequentialSessionReplays ==
    (CallsInTurn /\ NoSharedIds /\ CapturedAfterRequest) => ReplaysTheSession

(* The same for whatever transcript the wrapper may write.                 *)
SequentialSessionAlwaysReplays ==
    (CallsInTurn /\ NoSharedIds) => ReplaysTheSession
===============================================================================
