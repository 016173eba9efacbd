--------------------------- MODULE StubReplay_proofs ---------------------------
(***************************************************************************)
(* For any calls, ids and bounds: the stub of a recorded session answers   *)
(* as the session did.                                                     *)
(*                                                                         *)
(* The invariant has a part for each thing that a reply goes back to: the  *)
(* lines of the session (Told), which of them the transcript has           *)
(* (Recorded) and in which order (InOrder), and what was served of the     *)
(* stub so far (Served).  What the stub is comes from StubGen_proofs.      *)
(***************************************************************************)
EXTENDS StubReplay, StubGen_proofs

(* One line of a direction at most waits for its capture, the last one.    *)
Recorded ==
    /\ session \in Seq(ToSet(session)) /\ transcript \in Seq(Nat)
    /\ \A i \in DOMAIN session : session[i].direction \in Direction
    /\ Captured \subseteq DOMAIN session
    /\ \A d \in Direction : \A i \in From(d) \ Captured, j \in From(d) : j <= i

(* The ids of requests, and the calls each side may make.                  *)
Ids == {"int", "str"} \X (Nat \cup ServerIds)

CallsBy(d) == IF d = C2S THEN ClientCalls ELSE ServerCalls

(* A message of the session is a request for one of the calls of its side, *)
(* or a response to an earlier request of the other side.                  *)
RequestFits(m) ==
    m.kind = "request" /\ IsRequest(m) /\ Key(m) \in CallsBy(m.direction)

ResponseFits(m) ==
    m.kind = "response" /\ IsResponse(m) /\ m.answer = <<m.direction, m.id[2]>>

Told ==
    /\ \A i \in DOMAIN session :
          /\ session[i].direction \in Direction /\ session[i].id \in Ids
          /\ RequestFits(session[i]) \/ ResponseFits(session[i])
          /\ session[i].kind = "response" =>
                \E k \in DOMAIN session :
                    /\ k < i /\ session[k].kind = "request"
                    /\ session[k].direction = Opposite(session[i].direction)
                    /\ session[k].id = session[i].id
    /\ \A i \in RequestsOf(C2S) : session[i].id \in {"int"} \X (1..Cardinality(RequestsOf(C2S)))
    /\ \A i, j \in RequestsOf(C2S) : session[i].id = session[j].id => i = j
    /\ \A i, j \in DOMAIN session :
          (session[i].kind = "response" /\ session[j].kind = "response"
           /\ session[i].direction = session[j].direction /\ session[i].id = session[j].id) => i = j

(* Lines of one direction are captured in the order they were passed on.   *)
InOrder ==
    \A a, b \in DOMAIN transcript :
        (a < b /\ session[transcript[a]].direction = session[transcript[b]].direction) =>
            transcript[a] < transcript[b]

(* Which of the recorded answers of its key a reply is: as many were given *)
(* before it as there are recorded replies for that key, until they are    *)
(* used up.                                                                *)
AnswerNumber(key, r) ==
    IF Rank(RepliesFor(key), r) < Length(key) THEN Rank(RepliesFor(key), r) ELSE Length(key)

ReplyFits(r, key) ==
    /\ replies[r].outcome = "recorded" =>
          key \in DOMAIN stub /\ replies[r].value = stub[key].answers[AnswerNumber(key, r)]
    /\ replies[r].outcome # "recorded" =>
          key \notin DOMAIN stub \/ Length(key) <= Cardinality(RepliesFor(key))

Served ==
    /\ phase \in {"record", "serve"}
    /\ phase = "record" => replies = <<>> /\ counters = [key \in Keys |-> 0]
    /\ phase = "serve" =>
          /\ stub = ListEntries(GenerateStub(TranscriptMessages))
          /\ replies \in Seq(ToSet(replies)) /\ counters \in [Keys -> Nat]
          /\ \A key \in ClientCalls : counters[key] = Cardinality(RepliesFor(key))
          /\ \A r \in DOMAIN replies : replies[r].key \in ClientCalls
          /\ \A key \in ClientCalls : \A r \in DOMAIN replies :
                replies[r].key = key => ReplyFits(r, key)

IInv == Recorded /\ Told /\ InOrder /\ Served

-------------------------------------------------------------------------------
(* What of the session is recorded.                                        *)

(* The lines of a direction are finitely many.                             *)
LEMMA LinesFinite ==
    ASSUME session \in Seq(ToSet(session)), NEW d
    PROVE  /\ Len(session) \in Nat /\ DOMAIN session = 1..Len(session)
           /\ From(d) \subseteq 1..Len(session)
           /\ IsFiniteSet(From(d)) /\ Cardinality(From(d)) \in Nat
           /\ IsFiniteSet(From(d) \cap Captured) /\ Cardinality(From(d) \cap Captured) \in Nat
  <1>1. Len(session) \in Nat /\ DOMAIN session = 1..Len(session)
    OBVIOUS
  <1>2. IsFiniteSet(1..Len(session))
    BY <1>1, FS_Interval
  <1>3. From(d) \subseteq 1..Len(session)
    BY <1>1 DEF From
  <1>4. IsFiniteSet(From(d)) /\ IsFiniteSet(From(d) \cap Captured)
    BY <1>2, <1>3, FS_Subset
  <1> QED
    BY <1>1, <1>3, <1>4, FS_CardinalityType

(* What PassOn appends to the session.                                     *)
LEMMA AppendedLine ==
    ASSUME session \in Seq(ToSet(session)), NEW m, session' = Append(session, m)
    PROVE  /\ session' \in Seq(ToSet(session')) /\ Len(session) \in Nat
           /\ DOMAIN session = 1..Len(session) /\ DOMAIN session' = 1..(Len(session) + 1)
           /\ \A i \in DOMAIN session : session'[i] = session[i]
           /\ session'[Len(session) + 1] = m
  <1>1. session \in Seq(ToSet(session) \cup {m})
    OBVIOUS
  <1>2. /\ session' \in Seq(ToSet(session) \cup {m}) /\ Len(session') = Len(session) + 1
        /\ DOMAIN session' = 1..(Len(session) + 1)
        /\ \A i \in 1..Len(session) : session'[i] = session[i]
        /\ session'[Len(session) + 1] = m
    BY <1>1
  <1>3. session' \in Seq(ToSet(session'))
    <2> DEFINE s == session'
    <2>1. s \in Seq(ToSet(session) \cup {m}) /\ \A i \in 1..Len(s) : s[i] \in ToSet(s)
      BY <1>2 DEF ToSet
    <2> HIDE DEF s
    <2>2. s \in Seq(ToSet(s))
      BY <2>1
    <2> QED
      BY <2>2 DEF s
  <1> QED
    BY <1>2, <1>3

LEMMA InitRecorded == ReplayInit => Recorded
  <1> SUFFICES ASSUME ReplayInit PROVE Recorded
    OBVIOUS
  <1>1. session = <<>> /\ transcript = <<>>
    BY DEF ReplayInit
  <1>2. Captured = {} /\ \A d : From(d) = {}
    BY <1>1 DEF Captured, From
  <1> QED
    BY <1>1, <1>2 DEF Recorded

(* A line is passed on when all earlier ones of its direction are captured. *)
LEMMA PassOnRecorded ==
    ASSUME Recorded, NEW m, m.direction \in Direction, PassOn(m)
    PROVE  Recorded'
  <1> DEFINE d == m.direction
             n == Len(session) + 1
  <1>1. /\ session' = Append(session, m) /\ transcript' = transcript
        /\ From(d) \subseteq Captured
    BY DEF PassOn
  <1>2. /\ session' \in Seq(ToSet(session')) /\ Len(session) \in Nat
        /\ DOMAIN session = 1..Len(session) /\ DOMAIN session' = 1..n
        /\ \A i \in DOMAIN session : session'[i] = session[i]
        /\ session'[n] = m
    BY <1>1, AppendedLine DEF Recorded
  <1>3. Captured' = Captured /\ Captured \subseteq 1..Len(session)
    BY <1>1, <1>2 DEF Captured, Recorded
  <1>4. /\ n \notin From(d) /\ From(d)' = From(d) \cup {n}
        /\ \A e : e # d => From(e)' = From(e)
    BY <1>2 DEF From
  <1>5. Recorded'
    <2>1. \A i \in DOMAIN session' : session'[i].direction \in Direction
      BY <1>2 DEF Recorded
    <2>2. Captured' \subseteq DOMAIN session'
      BY <1>2, <1>3
    <2>3. ASSUME NEW e \in Direction, NEW i \in From(e)' \ Captured', NEW j \in From(e)'
          PROVE  j <= i
      <3>1. CASE e = d
        BY <1>1, <1>2, <1>3, <1>4, <2>3, <3>1 DEF From
      <3>2. CASE e # d
        BY <1>3, <1>4, <2>3, <3>2 DEF Recorded
      <3> QED
        BY <3>1, <3>2
    <2> QED
      BY <1>1, <1>2, <2>1, <2>2, <2>3 DEF Recorded
  <1> QED
    BY <1>5

LEMMA CaptureRecorded ==
    ASSUME Recorded, NEW d \in Direction, Capture(d)
    PROVE  Recorded'
  <1>1. PICK i \in From(d) \ Captured : transcript' = Append(transcript, i)
    BY DEF Capture
  <1>2. session' = session
    BY DEF Capture
  <1> DEFINE t == Len(transcript) + 1
  <1>3. /\ Len(session) \in Nat /\ DOMAIN session = 1..Len(session)
        /\ \A e : From(e)' = From(e) /\ From(e) \subseteq 1..Len(session)
        /\ i \in Nat /\ session[i].direction = d
    BY <1>2, LinesFinite DEF Recorded, From
  <1>4. /\ transcript' \in Seq(Nat) /\ Len(transcript) \in Nat
        /\ DOMAIN transcript = 1..Len(transcript) /\ DOMAIN transcript' = 1..t
        /\ \A k \in DOMAIN transcript : transcript'[k] = transcript[k]
        /\ transcript'[t] = i
    BY <1>1, <1>3 DEF Recorded
  <1>5. Captured' = Captured \cup {i}
    BY <1>4 DEF Captured
  <1>6. Recorded'
    BY <1>2, <1>3, <1>4, <1>5 DEF Recorded
  <1> QED
    BY <1>6

LEMMA StepRecorded == Recorded /\ [ReplayNext]_vars => Recorded'
  <1> SUFFICES ASSUME Recorded, [ReplayNext]_vars
               PROVE  Recorded'
    OBVIOUS
  <1>1. ASSUME NEW m, m.direction \in Direction, PassOn(m) PROVE Recorded'
    BY <1>1, PassOnRecorded
  <1>2. \A d, key, id : Request(d, key, id).direction = d /\ Response(d, id).direction = d
    BY DEF Request, Response, McpMessage
  <1>3. C2S \in Direction /\ S2C \in Direction
    BY DEF Direction
  <1>4. CASE ClientRequests
    <2>1. PICK key : PassOn(Request(C2S, key, <<"int", Cardinality(RequestsOf(C2S)) + 1>>))
      BY <1>4 DEF ClientRequests
    <2> QED
      BY <1>1, <1>2, <1>3, <2>1
  <1>5. CASE ServerRequests
    <2>1. PICK key, n : PassOn(Request(S2C, key, <<"str", n>>))
      BY <1>5 DEF ServerRequests
    <2> QED
      BY <1>1, <1>2, <1>3, <2>1
  <1>6. CASE ServerResponds
    <2>1. PICK i : PassOn(Response(S2C, session[i].id))
      BY <1>6 DEF ServerResponds
    <2> QED
      BY <1>1, <1>2, <1>3, <2>1
  <1>7. CASE ClientResponds
    <2>1. PICK i : PassOn(Response(C2S, session[i].id))
      BY <1>7 DEF ClientResponds
    <2> QED
      BY <1>1, <1>2, <1>3, <2>1
  <1>8. CASE \E d \in Direction : Capture(d)
    BY <1>8, CaptureRecorded
  <1>9. CASE GenerateAndLoad \/ ServeCall \/ UNCHANGED vars
    <2>1. UNCHANGED <<session, transcript>>
      BY <1>9 DEF GenerateAndLoad, ServeCall, vars
    <2> QED
      BY <2>1 DEF Recorded, From, Captured
  <1> QED
    BY <1>4, <1>5, <1>6, <1>7, <1>8, <1>9 DEF ReplayNext

-------------------------------------------------------------------------------
(* The lines of the session, and the order of their capture.               *)

(* Ids and answers are not missing.                                        *)
LEMMA NoneIsNoId ==
    ASSUME NEW id \in Ids, NEW d \in Direction
    PROVE  id # None /\ id[2] \in Nat \cup ServerIds /\ <<d, id[2]>> # None
  BY SessionAssumption DEF Ids

(* What the messages of the session are.                                   *)
LEMMA RequestFacts ==
    ASSUME NEW d \in Direction, NEW key \in CallsBy(d), NEW id \in Ids
    PROVE  /\ Request(d, key, id).direction = d /\ Request(d, key, id).id = id
           /\ RequestFits(Request(d, key, id)) /\ Key(Request(d, key, id)) = key
  <1>1. id # None
    BY NoneIsNoId
  <1>2. key = [method |-> key.method, params |-> key.params]
        /\ key.method # None /\ key.params # None
    BY SessionAssumption DEF CallsBy
  <1> DEFINE m == Request(d, key, id)
  <1>3. m = [direction |-> d, kind |-> "request", method |-> key.method, id |-> id,
             params |-> key.params, answer |-> None]
    BY <1>1, <1>2 DEF Request, McpMessage, Classify
  <1> HIDE DEF m
  <1>4. Key(m) = key
    BY <1>2, <1>3 DEF Key
  <1>5. IsRequest(m)
    BY <1>1, <1>2, <1>3 DEF IsRequest
  <1>6. RequestFits(m)
    BY <1>3, <1>4, <1>5 DEF RequestFits
  <1> QED
    BY <1>3, <1>4, <1>6 DEF m

LEMMA ResponseFacts ==
    ASSUME NEW d \in Direction, NEW id \in Ids
    PROVE  /\ Response(d, id).direction = d /\ Response(d, id).id = id
           /\ ResponseFits(Response(d, id))
  <1>1. id # None /\ <<d, id[2]>> # None
    BY NoneIsNoId
  <1> DEFINE m == Response(d, id)
  <1>2. m = [direction |-> d, kind |-> "response", method |-> None, id |-> id,
             params |-> None, answer |-> <<d, id[2]>>]
    BY <1>1 DEF Response, McpMessage, Classify
  <1> HIDE DEF m
  <1>3. ResponseFits(m)
    BY <1>1, <1>2 DEF ResponseFits, IsResponse
  <1> QED
    BY <1>2, <1>3 DEF m

(* A line more leaves the sets of the lines before it.                     *)
LEMMA LineAdded ==
    ASSUME session \in Seq(ToSet(session)), NEW m, session' = Append(session, m)
    PROVE  /\ Len(session) + 1 \notin DOMAIN session
           /\ DOMAIN session' = DOMAIN session \cup {Len(session) + 1}
           /\ \A i \in DOMAIN session : i < Len(session) + 1 /\ session'[i] = session[i]
           /\ session'[Len(session) + 1] = m
           /\ \A d \in Direction : RequestsOf(d)' =
                 RequestsOf(d) \cup
                    (IF m.direction = d /\ m.kind = "request" THEN {Len(session) + 1} ELSE {})
  <1>1. /\ Len(session) \in Nat /\ DOMAIN session = 1..Len(session)
        /\ DOMAIN session' = 1..(Len(session) + 1)
        /\ \A i \in DOMAIN session : session'[i] = session[i]
        /\ session'[Len(session) + 1] = m
    BY AppendedLine
  <1> DEFINE n == Len(session) + 1
  <1>2. n \notin DOMAIN session /\ DOMAIN session' = DOMAIN session \cup {n}
        /\ \A i \in DOMAIN session : i < n
    BY <1>1
  <1>3. session'[n] = m
    BY <1>1
  <1> HIDE DEF n
  <1>4. \A d \in Direction : RequestsOf(d)' =
           RequestsOf(d) \cup (IF m.direction = d /\ m.kind = "request" THEN {n} ELSE {})
    BY <1>1, <1>2, <1>3 DEF RequestsOf, From
  <1> QED
    BY <1>1, <1>2, <1>3, <1>4 DEF n

(* What a line must be to be told.                                         *)
Tellable(m) ==
    /\ m.direction \in Direction /\ m.id \in Ids
    /\ RequestFits(m) \/ ResponseFits(m)
    /\ (m.kind = "request" /\ m.direction = C2S) =>
          m.id = <<"int", Cardinality(RequestsOf(C2S)) + 1>>
    /\ m.kind = "response" =>
          /\ \E k \in RequestsOf(Opposite(m.direction)) : session[k].id = m.id
          /\ \A j \in From(m.direction) : session[j].kind = "response" => session[j].id # m.id

(* The requests of a side can be counted.                                  *)
LEMMA RequestsFinite ==
    ASSUME session \in Seq(ToSet(session)), NEW d
    PROVE  IsFiniteSet(RequestsOf(d)) /\ Cardinality(RequestsOf(d)) \in Nat
  <1>1. RequestsOf(d) \subseteq From(d) /\ IsFiniteSet(From(d))
    BY LinesFinite DEF RequestsOf
  <1> QED
    BY <1>1, FS_Subset, FS_CardinalityType

(* A line that is told may follow.                                         *)
LEMMA ToldStep ==
    ASSUME Recorded, Told, NEW m, Tellable(m), session' = Append(session, m)
    PROVE  Told'
  <1> DEFINE n == Len(session) + 1
             Q == RequestsOf(C2S)
             c == Cardinality(RequestsOf(C2S))
  <1>1. session \in Seq(ToSet(session))
    BY DEF Recorded
  <1>2. /\ n \notin DOMAIN session /\ DOMAIN session' = DOMAIN session \cup {n}
        /\ \A i \in DOMAIN session : i < n /\ session'[i] = session[i]
        /\ session'[n] = m
        /\ \A d \in Direction : RequestsOf(d)' =
              RequestsOf(d) \cup (IF m.direction = d /\ m.kind = "request" THEN {n} ELSE {})
    BY <1>1, LineAdded
  <1>3. \A d : RequestsOf(d) \subseteq DOMAIN session
    BY DEF RequestsOf, From
  <1>4. C2S \in Direction /\ \A d \in Direction : Opposite(d) \in Direction
    BY DEF Direction, Opposite
  <1>5. c \in Nat /\ IsFiniteSet(Q)
    BY <1>1, RequestsFinite
  <1> HIDE DEF n
  <1>6. ASSUME NEW i \in DOMAIN session'
        PROVE  /\ session'[i].direction \in Direction /\ session'[i].id \in Ids
               /\ RequestFits(session'[i]) \/ ResponseFits(session'[i])
    BY <1>2 DEF Told, Tellable
  <1>7. ASSUME NEW i \in DOMAIN session', session'[i].kind = "response"
        PROVE  \E k \in DOMAIN session' :
                  /\ k < i /\ session'[k].kind = "request"
                  /\ session'[k].direction = Opposite(session'[i].direction)
                  /\ session'[k].id = session'[i].id
    <2>1. CASE i \in DOMAIN session
      BY <1>2, <1>7, <2>1 DEF Told
    <2>2. CASE i = n
      <3>1. PICK k \in RequestsOf(Opposite(m.direction)) : session[k].id = m.id
        BY <1>2, <1>7, <2>2 DEF Tellable
      <3>2. k \in DOMAIN session /\ session[k].kind = "request"
            /\ session[k].direction = Opposite(m.direction)
        BY DEF RequestsOf, From
      <3> QED
        BY <1>2, <2>2, <3>1, <3>2
    <2> QED
      BY <1>2, <2>1, <2>2
  <1>8. /\ \A i \in Q' : session'[i].id \in {"int"} \X (1..Cardinality(Q'))
        /\ \A i, j \in Q' : session'[i].id = session'[j].id => i = j
    <2>1. /\ \A i \in Q : session'[i] = session[i]
          /\ \A i \in Q : session[i].id \in {"int"} \X (1..c)
          /\ \A i, j \in Q : session[i].id = session[j].id => i = j
      BY <1>2, <1>3 DEF Told
    <2>2. CASE m.direction = C2S /\ m.kind = "request"
      <3>1. Q' = Q \cup {n} /\ n \notin Q
        BY <1>2, <1>3, <1>4, <2>2
      <3>2. Cardinality(Q') = c + 1
        BY <1>5, <3>1, FS_AddElement
      <3>3. session'[n].id = <<"int", c + 1>>
        BY <1>2, <2>2 DEF Tellable
      <3> HIDE DEF Q, c
      <3>4. 1..c \subseteq 1..(c + 1) /\ c + 1 \in 1..(c + 1) /\ c + 1 \notin 1..c
        BY <1>5
      <3>5. \A i \in Q : session[i].id # <<"int", c + 1>>
        BY <2>1, <3>4
      <3>6. \A i \in Q' : session'[i].id \in {"int"} \X (1..(c + 1))
        <4>1. \A i \in Q : session'[i].id \in {"int"} \X (1..(c + 1))
          BY <2>1, <3>4
        <4>2. session'[n].id \in {"int"} \X (1..(c + 1))
          BY <3>3, <3>4
        <4> QED
          BY <3>1, <4>1, <4>2
      <3>7. \A i, j \in Q' : session'[i].id = session'[j].id => i = j
        <4>1. \A i \in Q : session'[i].id # session'[n].id
          BY <2>1, <3>3, <3>5
        <4>2. \A i, j \in Q : session'[i].id = session'[j].id => i = j
          BY <2>1
        <4> QED
          BY <3>1, <4>1, <4>2
      <3> QED
        BY <3>2, <3>6, <3>7
    <2>3. CASE ~(m.direction = C2S /\ m.kind = "request")
      <3>1. Q' = Q
        BY <1>2, <1>4, <2>3
      <3> QED
        BY <2>1, <3>1
    <2> QED
      BY <2>2, <2>3
  <1>9. ASSUME NEW i \in DOMAIN session', NEW j \in DOMAIN session',
               session'[i].kind = "response", session'[j].kind = "response",
               session'[i].direction = session'[j].direction,
               session'[i].id = session'[j].id
        PROVE  i = j
    <2>1. ASSUME NEW k \in DOMAIN session, session[k].kind = "response",
                 session[k].direction = m.direction, session[k].id = m.id, m.kind = "response"
          PROVE  FALSE
      BY <2>1 DEF Tellable, From
    <2>2. CASE i \in DOMAIN session /\ j \in DOMAIN session
      BY <1>2, <1>9, <2>2 DEF Told
    <2>3. CASE i = n /\ j \in DOMAIN session
      BY <1>2, <1>9, <2>1, <2>3
    <2>4. CASE i \in DOMAIN session /\ j = n
      BY <1>2, <1>9, <2>1, <2>4
    <2> QED
      BY <1>2, <2>2, <2>3, <2>4
  <1> QED
    BY <1>6, <1>7, <1>8, <1>9 DEF Told

(* Each of the four kinds of lines is told.                                *)
LEMMA PassOnTold ==
    ASSUME Recorded, Told,
           ClientRequests \/ ServerRequests \/ ServerResponds \/ ClientResponds
    PROVE  Told'
  <1>1. ASSUME NEW m, Tellable(m), PassOn(m) PROVE Told'
    BY <1>1, ToldStep DEF PassOn
  <1>2. C2S \in Direction /\ S2C \in Direction /\ C2S # S2C
        /\ Opposite(C2S) = S2C /\ Opposite(S2C) = C2S
    BY DEF Direction, Opposite, C2S, S2C
  <1>3. \A m : (RequestFits(m) => m.kind = "request") /\ (ResponseFits(m) => m.kind = "response")
    BY DEF RequestFits, ResponseFits
  <1>4. Cardinality(RequestsOf(C2S)) + 1 \in Nat
    BY RequestsFinite DEF Recorded
  <1>5. CASE ClientRequests
    <2> DEFINE id == <<"int", Cardinality(RequestsOf(C2S)) + 1>>
    <2>1. PICK key \in ClientCalls : PassOn(Request(C2S, key, id))
      BY <1>5 DEF ClientRequests
    <2>2. id \in Ids
      BY <1>4 DEF Ids
    <2>3. key \in CallsBy(C2S)
      BY DEF CallsBy
    <2> HIDE DEF id
    <2>4. /\ Request(C2S, key, id).direction = C2S /\ Request(C2S, key, id).id = id
          /\ RequestFits(Request(C2S, key, id))
      BY <1>2, <2>2, <2>3, RequestFacts
    <2>5. Tellable(Request(C2S, key, id))
      BY <1>2, <1>3, <2>2, <2>4 DEF Tellable, id
    <2> QED
      BY <1>1, <2>1, <2>5
  <1>6. CASE ServerRequests
    <2>1. PICK key \in ServerCalls, s \in ServerIds : PassOn(Request(S2C, key, <<"str", s>>))
      BY <1>6 DEF ServerRequests
    <2> DEFINE id == <<"str", s>>
    <2>2. id \in Ids
      BY DEF Ids
    <2>3. key \in CallsBy(S2C)
      BY <1>2 DEF CallsBy
    <2> HIDE DEF id
    <2>4. /\ Request(S2C, key, id).direction = S2C /\ Request(S2C, key, id).id = id
          /\ RequestFits(Request(S2C, key, id))
      BY <1>2, <2>2, <2>3, RequestFacts
    <2>5. Tellable(Request(S2C, key, id))
      BY <1>2, <1>3, <2>2, <2>4 DEF Tellable
    <2> QED
      BY <1>1, <2>1, <2>5 DEF id
  <1>7. ASSUME NEW d \in Direction, NEW i \in Unanswered(d), PassOn(Response(Opposite(d), session[i].id))
        PROVE  Told'
    <2> DEFINE o == Opposite(d)
               m == Response(o, session[i].id)
    <2>1. o \in Direction /\ Opposite(o) = d
      BY <1>2 DEF Direction
    <2>2. i \in RequestsOf(d) /\ i \in DOMAIN session
          /\ \A j \in From(o) : session[j].kind = "response" => session[j].id # session[i].id
      BY DEF Unanswered, RequestsOf, From
    <2>3. session[i].id \in Ids
      BY <2>2 DEF Told
    <2>4. m.direction = o /\ m.id = session[i].id /\ ResponseFits(m)
      BY <2>1, <2>3, ResponseFacts
    <2> HIDE DEF m, o
    <2>5. Tellable(m)
      BY <1>3, <2>1, <2>2, <2>3, <2>4 DEF Tellable
    <2> QED
      BY <1>1, <1>7, <2>5 DEF m, o
  <1>8. CASE ServerResponds
    BY <1>2, <1>7, <1>8 DEF ServerResponds
  <1>9. CASE ClientResponds
    BY <1>2, <1>7, <1>9 DEF ClientResponds
  <1> QED
    BY <1>5, <1>6, <1>8, <1>9

(* A line is captured after those of its side that are captured already.   *)
LEMMA CaptureInOrder ==
    ASSUME Recorded, InOrder, NEW d \in Direction, Capture(d)
    PROVE  InOrder'
  <1>1. PICK i \in From(d) \ Captured : transcript' = Append(transcript, i) /\ session' = session
    BY DEF Capture
  <1> DEFINE t == Len(transcript) + 1
  <1>2. /\ transcript \in Seq(Nat) /\ Len(transcript) \in Nat
        /\ DOMAIN transcript = 1..Len(transcript)
        /\ \A j \in From(d) : j <= i
        /\ i \in Nat /\ From(d) \subseteq Nat
        /\ session[i].direction = d
    BY LinesFinite DEF Recorded, From
  <1>3. /\ DOMAIN transcript' = 1..t
        /\ \A k \in DOMAIN transcript : transcript'[k] = transcript[k]
        /\ transcript'[t] = i
    BY <1>1, <1>2
  <1> SUFFICES ASSUME NEW a \in 1..t, NEW b \in 1..t, a < b,
                      session[transcript'[a]].direction = session[transcript'[b]].direction
               PROVE  transcript'[a] < transcript'[b]
    BY <1>1, <1>3 DEF InOrder
  <1>4. a \in DOMAIN transcript
    BY <1>2
  <1>5. CASE b = t
    <2>1. transcript[a] \in Captured /\ transcript[a] \in DOMAIN session
      BY <1>4 DEF Captured, Recorded
    <2>2. transcript[a] \in From(d) /\ transcript[a] # i
      BY <1>1, <1>2, <1>3, <1>4, <1>5, <2>1 DEF From
    <2>3. transcript[a] <= i /\ transcript[a] \in Nat
      BY <1>2, <2>2
    <2> HIDE DEF t
    <2> QED
      BY <1>2, <1>3, <1>4, <1>5, <2>2, <2>3
  <1>6. CASE b # t
    <2>1. b \in DOMAIN transcript
      BY <1>2, <1>6
    <2> QED
      BY <1>3, <1>4, <2>1 DEF InOrder
  <1> QED
    BY <1>5, <1>6

-------------------------------------------------------------------------------
(* What is served.                                                         *)

(* The transcript is a sequence of messages of the session.                *)
LEMMA TranscriptFacts ==
    ASSUME Recorded
    PROVE  /\ IsMessages(TranscriptMessages)
           /\ DOMAIN TranscriptMessages = DOMAIN transcript
           /\ DOMAIN transcript = 1..Len(transcript) /\ Len(transcript) \in Nat
           /\ \A b \in DOMAIN transcript : TranscriptMessages[b] = session[transcript[b]]
                                           /\ transcript[b] \in DOMAIN session
  <1>1. Len(transcript) \in Nat /\ DOMAIN transcript = 1..Len(transcript)
    BY DEF Recorded
  <1>2. \A b \in DOMAIN transcript : transcript[b] \in DOMAIN session
    BY DEF Recorded, Captured
  <1> DEFINE m == TranscriptMessages
  <1>3. m = [i \in 1..Len(transcript) |-> session[transcript[i]]]
    BY <1>1 DEF TranscriptMessages
  <1> HIDE DEF m
  <1>4. Len(m) = Len(transcript) /\ DOMAIN m = 1..Len(transcript)
    BY <1>1, <1>3
  <1>5. IsMessages(m)
    BY <1>1, <1>4 DEF IsMessages
  <1> QED
    BY <1>1, <1>2, <1>3, <1>4, <1>5 DEF m

(* The stub that is served lists the answers of the pairing.               *)
LEMMA LoadedStub ==
    ASSUME Recorded, stub = ListEntries(GenerateStub(TranscriptMessages)), NEW key
    PROVE  /\ key \in DOMAIN stub <=> AnswerPositions(TranscriptMessages, key) # {}
           /\ key \in DOMAIN stub =>
                 /\ stub[key].list
                 /\ Length(key) \in Nat \ {0} /\ Length(key) = Len(stub[key].answers)
                 /\ Ranked(TranscriptMessages, stub[key].answers,
                           AnswerPositions(TranscriptMessages, key))
  <1> DEFINE m == TranscriptMessages
             methods == GenerateStub(m)
             P == AnswerPositions(m, key)
  <1>1. IsMessages(m)
    BY TranscriptFacts
  <1>2. MethodsFit(m, methods, Len(m))
    BY <1>1, GeneratedFits
  <1>3. AnswersUpTo(m, key, Len(m)) = P /\ IsFiniteSet(P) /\ Cardinality(P) \in Nat
    <2> HIDE DEF m
    <2>1. Len(m) \in Nat /\ DOMAIN m = 1..Len(m)
      BY <1>1 DEF IsMessages
    <2>2. AnswersUpTo(m, key, Len(m)) = P
      BY <2>1 DEF AnswersUpTo, AnswerPositions
    <2> QED
      BY <1>1, <2>1, <2>2, PositionsFinite
  <1> HIDE DEF m, methods, P
  <1>4. key \in DOMAIN methods <=> P # {}
    BY <1>2, <1>3 DEF MethodsFit
  <1>5. Ranked(m, AnswersFor(methods, key), P)
    BY <1>2, <1>3 DEF MethodsFit
  <1>6. stub = [k \in DOMAIN methods |-> [list |-> TRUE, answers |-> methods[k]]]
    BY DEF ListEntries, m, methods
  <1>7. ASSUME key \in DOMAIN stub
        PROVE  /\ stub[key].list /\ stub[key].answers = AnswersFor(methods, key)
               /\ Length(key) = Len(stub[key].answers)
    BY <1>6, <1>7 DEF AnswersFor, Length
  <1>8. ASSUME key \in DOMAIN stub
        PROVE  Length(key) \in Nat \ {0}
    <2>1. Length(key) = Cardinality(P)
      BY <1>5, <1>7, <1>8 DEF Ranked
    <2>2. P # {}
      BY <1>4, <1>6, <1>8
    <2>3. Cardinality(P) # 0
      BY <1>3, <2>2, FS_EmptySet
    <2> QED
      BY <1>3, <2>1, <2>3
  <1>9. key \in DOMAIN stub <=> P # {}
    BY <1>4, <1>6
  <1> QED
    BY <1>5, <1>7, <1>8, <1>9 DEF m, P

(* One reply more.                                                         *)
LEMMA AppendedReply ==
    ASSUME replies \in Seq(ToSet(replies)), NEW reply, replies' = Append(replies, reply)
    PROVE  /\ replies' \in Seq(ToSet(replies')) /\ Len(replies) \in Nat
           /\ DOMAIN replies = 1..Len(replies) /\ DOMAIN replies' = 1..(Len(replies) + 1)
           /\ \A i \in DOMAIN replies : replies'[i] = replies[i]
           /\ replies'[Len(replies) + 1] = reply
           /\ \A key : /\ RepliesFor(key) \subseteq 1..Len(replies)
                       /\ RepliesFor(key)' = RepliesFor(key) \cup
                             (IF reply.key = key /\ reply.outcome = "recorded"
                                THEN {Len(replies) + 1} ELSE {})
  <1>1. replies \in Seq(ToSet(replies) \cup {reply})
    OBVIOUS
  <1>2. /\ replies' \in Seq(ToSet(replies) \cup {reply}) /\ Len(replies') = Len(replies) + 1
        /\ DOMAIN replies' = 1..(Len(replies) + 1) /\ DOMAIN replies = 1..Len(replies)
        /\ Len(replies) \in Nat
        /\ \A i \in 1..Len(replies) : replies'[i] = replies[i]
        /\ replies'[Len(replies) + 1] = reply
    BY <1>1
  <1>3. replies' \in Seq(ToSet(replies'))
    <2> DEFINE s == replies'
    <2>1. s \in Seq(ToSet(replies) \cup {reply}) /\ \A i \in 1..Len(s) : s[i] \in ToSet(s)
      BY <1>2 DEF ToSet
    <2> HIDE DEF s
    <2>2. s \in Seq(ToSet(s))
      BY <2>1
    <2> QED
      BY <2>2 DEF s
  <1> DEFINE n == Len(replies) + 1
  <1>4. DOMAIN replies' = DOMAIN replies \cup {n} /\ n \notin DOMAIN replies
        /\ replies'[n] = reply
    BY <1>2
  <1> HIDE DEF n
  <1>5. ASSUME NEW key
        PROVE  /\ RepliesFor(key) \subseteq 1..Len(replies)
               /\ RepliesFor(key)' = RepliesFor(key) \cup
                     (IF reply.key = key /\ reply.outcome = "recorded" THEN {n} ELSE {})
    BY <1>2, <1>4 DEF RepliesFor
  <1> QED
    BY <1>2, <1>3, <1>5 DEF n

(* The reply to a call, whatever it is, is what the stub has for the call, *)
(* if the counter of its key grows with the recorded replies.              *)
LEMMA ReplyAdded ==
    ASSUME Served, phase = "serve", NEW key \in ClientCalls, NEW reply,
           UNCHANGED <<phase, stub, session, transcript>>,
           replies' = Append(replies, reply), reply.key = key,
           counters' = IF reply.outcome = "recorded"
                         THEN [counters EXCEPT ![key] = counters[key] + 1] ELSE counters,
           key \in DOMAIN stub => Length(key) \in Nat,
           reply.outcome = "recorded" =>
              /\ key \in DOMAIN stub
              /\ reply.value = stub[key].answers[IF counters[key] + 1 < Length(key)
                                                   THEN counters[key] + 1 ELSE Length(key)],
           reply.outcome # "recorded" => key \notin DOMAIN stub \/ Length(key) <= counters[key]
    PROVE  Served'
  <1> DEFINE S(k) == RepliesFor(k)
  <1>1. /\ stub = ListEntries(GenerateStub(TranscriptMessages))
        /\ replies \in Seq(ToSet(replies)) /\ counters \in [Keys -> Nat]
        /\ \A k \in ClientCalls : counters[k] = Cardinality(S(k))
        /\ \A r \in DOMAIN replies : replies[r].key \in ClientCalls
        /\ \A k \in ClientCalls : \A r \in DOMAIN replies :
              replies[r].key = k => ReplyFits(r, k)
    BY DEF Served
  <1> PICK n \in Nat : n = Len(replies) + 1
    BY <1>1
  <1>2. /\ replies' \in Seq(ToSet(replies')) /\ Len(replies) \in Nat
        /\ DOMAIN replies = 1..Len(replies) /\ DOMAIN replies' = 1..n
        /\ \A i \in DOMAIN replies : replies'[i] = replies[i]
        /\ replies'[n] = reply
        /\ \A k : /\ S(k) \subseteq 1..Len(replies)
                  /\ RepliesFor(k)' = S(k) \cup
                        (IF reply.key = k /\ reply.outcome = "recorded" THEN {n} ELSE {})
    BY <1>1, AppendedReply
  <1>3. /\ Cardinality(S(key) \cup {n}) = Cardinality(S(key)) + 1
        /\ Rank(S(key) \cup {n}, n) = Cardinality(S(key)) + 1
        /\ \A r \in S(key) : Rank(S(key) \cup {n}, r) = Rank(S(key), r)
    <2>1. S(key) \subseteq 1..Len(replies)
      BY <1>2
    <2> HIDE DEF S
    <2>2. /\ Cardinality(S(key) \cup {Len(replies) + 1}) = Cardinality(S(key)) + 1
          /\ Rank(S(key) \cup {Len(replies) + 1}, Len(replies) + 1) = Cardinality(S(key)) + 1
          /\ \A r \in S(key) : Rank(S(key) \cup {Len(replies) + 1}, r) = Rank(S(key), r)
      BY <1>2, <2>1, RankStep
    <2> QED
      BY <2>2
  <1>4. key \in Keys /\ counters[key] = Cardinality(S(key)) /\ counters[key] \in Nat
    BY <1>1, SessionAssumption
  <1>5. Length(key)' = Length(key) /\ \A k : Length(k)' = Length(k)
    BY DEF Length
  <1> HIDE DEF S
  <1>6. ASSUME NEW k \in ClientCalls
        PROVE  /\ counters'[k] = Cardinality(RepliesFor(k)')
               /\ \A r \in S(k) : Rank(RepliesFor(k)', r) = Rank(S(k), r)
               /\ k # key => RepliesFor(k)' = S(k)
    <2>1. CASE k = key /\ reply.outcome = "recorded"
      BY <1>1, <1>2, <1>3, <1>4, <2>1
    <2>2. CASE k # key \/ reply.outcome # "recorded"
      <3>1. RepliesFor(k)' = S(k)
        BY <1>2, <2>2
      <3>2. counters'[k] = counters[k]
        BY <1>1, <2>2, SessionAssumption
      <3> QED
        BY <1>1, <3>1, <3>2, <2>2
    <2> QED
      BY <2>1, <2>2
  <1>7. counters' \in [Keys -> Nat]
    BY <1>1, <1>4
  <1>8. ASSUME NEW k \in ClientCalls, NEW r \in DOMAIN replies, replies[r].key = k
        PROVE  ReplyFits(r, k)'
    <2>1. replies'[r] = replies[r] /\ ReplyFits(r, k)
      BY <1>1, <1>2, <1>8
    <2>2. ASSUME replies[r].outcome = "recorded"
          PROVE  /\ k \in DOMAIN stub /\ Rank(RepliesFor(k)', r) = Rank(S(k), r)
                 /\ replies[r].value = stub[k].answers[
                       IF Rank(S(k), r) < Length(k) THEN Rank(S(k), r) ELSE Length(k)]
      <3>1. r \in S(k)
        BY <1>8, <2>2 DEF S, RepliesFor
      <3> QED
        BY <1>1, <1>6, <2>1, <2>2, <3>1 DEF ReplyFits, AnswerNumber, S
    <2>3. ASSUME replies[r].outcome # "recorded"
          PROVE  k \notin DOMAIN stub \/ Length(k) <= Cardinality(RepliesFor(k)')
      <3>1. k \notin DOMAIN stub \/ Length(k) <= Cardinality(S(k))
        BY <2>1, <2>3 DEF ReplyFits, S
      <3>2. CASE k # key
        BY <1>6, <2>1, <3>1, <3>2
      <3>3. CASE k = key
        <4>1. counters'[key] = counters[key] \/ counters'[key] = counters[key] + 1
          BY <1>1, <1>4
        <4>2. counters'[key] = Cardinality(RepliesFor(key)')
          BY <1>6
        <4>3. key \in DOMAIN stub => Length(key) \in Nat /\ Length(key) <= counters[key]
          BY <1>4, <3>1, <3>3
        <4> DEFINE c1 == counters'[key]
                   c == counters[key]
        <4>4. key \in DOMAIN stub => Length(key) <= c1
          <5>1. c1 = c \/ c1 = c + 1
            BY <4>1
          <5>2. c \in Nat
            BY <1>4
          <5> HIDE DEF c1, c
          <5> QED
            BY <4>3, <5>1, <5>2 DEF c
        <4> HIDE DEF c
        <4> QED
          BY <3>3, <4>2, <4>4
      <3> QED
        BY <3>2, <3>3
    <2> QED
      BY <1>5, <2>1, <2>2, <2>3 DEF ReplyFits, AnswerNumber
  <1>9. ReplyFits(n, key)'
    <2>1. replies'[n] = reply /\ reply.key = key
      BY <1>2
    <2>2. ASSUME reply.outcome = "recorded"
          PROVE  Rank(RepliesFor(key)', n) = counters[key] + 1
      BY <1>2, <1>3, <1>4, <2>2
    <2>3. ASSUME reply.outcome # "recorded"
          PROVE  Cardinality(RepliesFor(key)') = counters[key]
      BY <1>2, <1>4, <2>3
    <2> QED
      BY <1>5, <2>1, <2>2, <2>3 DEF ReplyFits, AnswerNumber
  <1>10. /\ \A r \in DOMAIN replies' : replies'[r].key \in ClientCalls
         /\ \A k \in ClientCalls : \A r \in DOMAIN replies' :
               replies'[r].key = k => ReplyFits(r, k)'
    <2>1. /\ DOMAIN replies' = DOMAIN replies \cup {n} /\ replies'[n].key = key
          /\ \A r \in DOMAIN replies : replies'[r].key = replies[r].key
      BY <1>2
    <2> QED
      BY <1>1, <1>8, <1>9, <2>1
  <1>11. stub' = ListEntries(GenerateStub(TranscriptMessages'))
    BY <1>1 DEF TranscriptMessages
  <1> QED
    BY <1>2, <1>6, <1>7, <1>10, <1>11 DEF Served

(* Every answer of the server is such a reply.                             *)
LEMMA ServeServed ==
    ASSUME Recorded, Served, ServeCall
    PROVE  Served'
  <1>1. PICK key \in ClientCalls : Serve(key)
    BY DEF ServeCall
  <1>2. phase = "serve" /\ UNCHANGED <<phase, session, transcript, stub>>
    BY <1>1 DEF ServeCall, Serve
  <1>3. stub = ListEntries(GenerateStub(TranscriptMessages)) /\ counters[key] \in Nat
    BY <1>2, SessionAssumption DEF Served
  <1>4. ASSUME key \in DOMAIN stub
        PROVE  stub[key].list /\ Length(key) \in Nat
    BY <1>3, <1>4, LoadedStub
  <1>5. CASE Answered(key)
    <2>1. key \in DOMAIN stub /\ counters[key] < Length(key) /\ Length(key) \in Nat
      BY <1>4, <1>5 DEF Answered, HasList
    <2> DEFINE reply == Reply(key, "recorded", stub[key].answers[counters[key] + 1], counters[key] + 1)
    <2>2. replies' = Append(replies, reply)
          /\ counters' = [counters EXCEPT ![key] = counters[key] + 1]
      BY <1>5 DEF Answered
    <2>3. reply.key = key /\ reply.outcome = "recorded"
          /\ reply.value = stub[key].answers[counters[key] + 1]
      BY DEF Reply
    <2>4. counters[key] + 1 = IF counters[key] + 1 < Length(key)
                                THEN counters[key] + 1 ELSE Length(key)
      BY <1>3, <2>1
    <2> HIDE DEF reply
    <2>5. /\ reply.outcome = "recorded" => reply.value = stub[key].answers[
                IF counters[key] + 1 < Length(key) THEN counters[key] + 1 ELSE Length(key)]
          /\ counters' = IF reply.outcome = "recorded"
                           THEN [counters EXCEPT ![key] = counters[key] + 1] ELSE counters
      BY <2>2, <2>3, <2>4
    <2> QED
      BY <1>2, <2>1, <2>2, <2>3, <2>5, ReplyAdded
  <1>6. CASE LastAgain(key)
    <2>1. key \in DOMAIN stub /\ counters[key] >= Length(key) /\ Length(key) \in Nat
      BY <1>4, <1>6 DEF LastAgain, HasList
    <2> DEFINE reply == Reply(key, "recorded", stub[key].answers[Length(key)], Length(key))
    <2>2. replies' = Append(replies, reply)
          /\ counters' = [counters EXCEPT ![key] = counters[key] + 1]
      BY <1>6 DEF LastAgain
    <2>3. reply.key = key /\ reply.outcome = "recorded"
          /\ reply.value = stub[key].answers[Length(key)]
      BY DEF Reply
    <2>4. Length(key) = IF counters[key] + 1 < Length(key)
                          THEN counters[key] + 1 ELSE Length(key)
      BY <1>3, <2>1
    <2> HIDE DEF reply
    <2>5. /\ reply.outcome = "recorded" => reply.value = stub[key].answers[
                IF counters[key] + 1 < Length(key) THEN counters[key] + 1 ELSE Length(key)]
          /\ counters' = IF reply.outcome = "recorded"
                           THEN [counters EXCEPT ![key] = counters[key] + 1] ELSE counters
      BY <2>2, <2>3, <2>4
    <2> QED
      BY <1>2, <2>1, <2>2, <2>3, <2>5, ReplyAdded
  <1>7. CASE Exhausted(key)
    <2>1. key \in DOMAIN stub /\ Length(key) <= counters[key] /\ Length(key) \in Nat
      BY <1>3, <1>4, <1>7 DEF Exhausted, HasList
    <2> DEFINE reply == Reply(key, "exhausted", NoFallback, counters[key])
    <2>2. replies' = Append(replies, reply) /\ counters' = counters
      BY <1>7 DEF Exhausted
    <2>3. reply.key = key /\ reply.outcome # "recorded"
      BY DEF Reply
    <2> HIDE DEF reply
    <2> QED
      BY <1>2, <2>1, <2>2, <2>3, ReplyAdded
  <1>8. CASE SingleAnswer(key)
    BY <1>4, <1>8 DEF SingleAnswer
  <1>9. CASE NoMapping(key)
    <2>1. key \notin DOMAIN stub /\ counters' = counters
      BY <1>9 DEF NoMapping
    <2>2. PICK reply : /\ replies' = Append(replies, reply)
                       /\ reply.key = key /\ reply.outcome # "recorded"
      <3>1. /\ Reply(key, "fallback", Fallback[key], 0).key = key
            /\ Reply(key, "fallback", Fallback[key], 0).outcome # "recorded"
            /\ Reply(key, "unknown", NoFallback, 0).key = key
            /\ Reply(key, "unknown", NoFallback, 0).outcome # "recorded"
        BY DEF Reply
      <3> QED
        BY <1>9, <3>1 DEF NoMapping
    <2> QED
      BY <1>2, <2>1, <2>2, ReplyAdded
  <1> QED
    BY <1>1, <1>5, <1>6, <1>7, <1>8, <1>9 DEF Serve

(* The stub is loaded with nothing served of it.                           *)
LEMMA LoadServed ==
    ASSUME Served, GenerateAndLoad
    PROVE  Served'
  <1>1. /\ phase = "record" /\ phase' = "serve"
        /\ stub' = ListEntries(GenerateStub(TranscriptMessages))
        /\ UNCHANGED <<counters, replies, session, transcript>>
    BY DEF GenerateAndLoad
  <1>2. replies' = <<>> /\ counters' = [key \in Keys |-> 0]
    BY <1>1 DEF Served
  <1>3. stub' = ListEntries(GenerateStub(TranscriptMessages'))
    BY <1>1 DEF TranscriptMessages
  <1>4. ASSUME NEW key \in ClientCalls
        PROVE  counters'[key] = Cardinality(RepliesFor(key)')
    <2>1. RepliesFor(key)' = {} /\ Cardinality({}) = 0
      BY <1>2, FS_EmptySet DEF RepliesFor
    <2> QED
      BY <1>2, <2>1, SessionAssumption
  <1>5. DOMAIN replies' = {} /\ replies' \in Seq(ToSet(replies'))
    BY <1>2
  <1> QED
    BY <1>1, <1>2, <1>3, <1>4, <1>5 DEF Served

(* The invariant.                                                          *)
LEMMA InitIInv == ReplayInit => IInv
  <1> SUFFICES ASSUME ReplayInit PROVE IInv
    OBVIOUS
  <1>1. Recorded
    BY InitRecorded
  <1>2. /\ phase = "record" /\ session = <<>> /\ transcript = <<>>
        /\ replies = <<>> /\ counters = [key \in Keys |-> 0]
    BY DEF ReplayInit, Load
  <1>3. Told
    BY <1>2 DEF Told, RequestsOf, From
  <1>4. InOrder
    BY <1>2 DEF InOrder
  <1>5. Served
    BY <1>2 DEF Served
  <1> QED
    BY <1>1, <1>3, <1>4, <1>5 DEF IInv

LEMMA NextIInv == IInv /\ [ReplayNext]_vars => IInv'
  <1> SUFFICES ASSUME Recorded, Told, InOrder, Served, [ReplayNext]_vars
               PROVE  IInv'
    BY DEF IInv
  <1>1. Recorded'
    BY StepRecorded
  <1>2. ASSUME UNCHANGED <<session, transcript>>
        PROVE  Told' /\ InOrder'
    BY <1>2 DEF Told, InOrder, RequestsOf, From
  <1>3. ASSUME UNCHANGED serverVars, UNCHANGED phase, phase = "record"
        PROVE  Served'
    BY <1>3 DEF Served, serverVars
  <1>4. CASE ClientRequests \/ ServerRequests \/ ServerResponds \/ ClientResponds
    <2>1. PICK m : PassOn(m)
      BY <1>4 DEF ClientRequests, ServerRequests, ServerResponds, ClientResponds
    <2>2. /\ phase = "record" /\ UNCHANGED <<serverVars, phase, transcript>>
          /\ session' = Append(session, m)
      BY <2>1 DEF PassOn
    <2>3. Told'
      BY <1>4, PassOnTold
    <2>4. InOrder'
      <3>1. \A i \in DOMAIN session : session'[i] = session[i]
        BY <2>2, AppendedLine DEF Recorded
      <3>2. \A a \in DOMAIN transcript : transcript[a] \in DOMAIN session
        BY TranscriptFacts
      <3> QED
        BY <2>2, <3>1, <3>2 DEF InOrder
    <2>5. Served'
      BY <1>3, <2>2
    <2> QED
      BY <1>1, <2>3, <2>4, <2>5 DEF IInv
  <1>5. CASE \E d \in Direction : Capture(d)
    <2>1. PICK d \in Direction : Capture(d)
      BY <1>5
    <2>2. phase = "record" /\ UNCHANGED <<serverVars, phase, session>>
      BY <2>1 DEF Capture
    <2>3. Told'
      BY <2>2 DEF Told, RequestsOf, From
    <2>4. InOrder'
      BY <2>1, CaptureInOrder
    <2>5. Served'
      BY <1>3, <2>2
    <2> QED
      BY <1>1, <2>3, <2>4, <2>5 DEF IInv
  <1>6. CASE GenerateAndLoad
    BY <1>1, <1>2, <1>6, LoadServed DEF GenerateAndLoad, IInv
  <1>7. CASE ServeCall
    BY <1>1, <1>2, <1>7, ServeServed DEF ServeCall, IInv
  <1>8. CASE UNCHANGED vars
    <2>1. UNCHANGED <<serverVars, phase, session, transcript>>
      BY <1>8 DEF vars
    <2>2. Served'
      <3>1. TranscriptMessages' = TranscriptMessages
        BY <2>1 DEF TranscriptMessages
      <3> QED
        BY <2>1, <3>1 DEF Served, serverVars, ReplyFits, AnswerNumber, RepliesFor, Length, Rank
    <2> QED
      BY <1>1, <1>2, <2>1, <2>2 DEF IInv
  <1> QED
    BY <1>4, <1>5, <1>6, <1>7, <1>8 DEF ReplayNext

(* All of it holds throughout: the session, the transcript that the        *)
(* wrapper makes of it, and what the stub server makes of that             *)
(* (mcp/wrap_stdio.py, mcp/stub_server.py).                                *)
THEOREM ReplayInvariant == ReplaySpec => []IInv
  BY InitIInv, NextIInv, PTL DEF ReplaySpec

(* generate_stub makes of whatever transcript the pairing of its requests  *)
(* and responses (mcp/stubgen.py, the loop of generate_stub).              *)
THEOREM StubPairs == ReplaySpec => []StubIsPairing
  <1>1. Recorded => StubIsPairing
    BY TranscriptFacts, GeneratedPairs DEF StubIsPairing
  <1>2. IInv => StubIsPairing
    BY <1>1 DEF IInv
  <1> QED
    BY <1>2, ReplayInvariant, PTL

-------------------------------------------------------------------------------
(* Which call an answer belongs to.                                        *)

(* The server's response to a line, if it is a request of the client.      *)
RespondsTo(y, x) ==
    /\ y \in From(S2C) /\ session[y].kind = "response"
    /\ x \in RequestsOf(C2S) /\ session[y].id = session[x].id

(* The two directions.                                                     *)
LEMMA Sides ==
    /\ C2S # S2C /\ Direction = {C2S, S2C}
    /\ Opposite(C2S) = S2C /\ Opposite(S2C) = C2S
  BY DEF C2S, S2C, Direction, Opposite

(* What a line of the session is.                                          *)
LEMMA LineFacts ==
    ASSUME Told, NEW i \in DOMAIN session
    PROVE  /\ session[i].direction \in Direction /\ session[i].id \in Ids /\ session[i].id # None
           /\ session[i].kind \in {"request", "response"}
           /\ IsRequest(session[i]) <=> session[i].kind = "request"
           /\ IsResponse(session[i]) <=> session[i].kind = "response"
           /\ session[i].kind = "request" => Key(session[i]) \in CallsBy(session[i].direction)
           /\ session[i].kind = "response" =>
                 session[i].answer = <<session[i].direction, session[i].id[2]>>
  <1>1. session[i].id \in Ids /\ session[i].direction \in Direction
        /\ (RequestFits(session[i]) \/ ResponseFits(session[i]))
    BY DEF Told
  <1>2. session[i].id # None
    BY <1>1, NoneIsNoId, Sides
  <1> QED
    BY <1>1, <1>2 DEF RequestFits, ResponseFits, IsRequest, IsResponse

(* The client numbers its requests: text and id say the same.              *)
LEMMA ClientIds ==
    ASSUME Told, NEW x \in RequestsOf(C2S), NEW z \in RequestsOf(C2S),
           IdText(session[x].id) = IdText(session[z].id)
    PROVE  x = z
  <1>1. /\ session[x].id \in {"int"} \X (1..Cardinality(RequestsOf(C2S)))
        /\ session[z].id \in {"int"} \X (1..Cardinality(RequestsOf(C2S)))
    BY DEF Told
  <1>2. session[x].id = session[z].id
    BY <1>1 DEF IdText
  <1> QED
    BY <1>2 DEF Told

(* A line whose id text is that of a request of the client is that request *)
(* or the response to it, if the server shares no id with the client.      *)
LEMMA SharedText ==
    ASSUME Told, NoSharedIds, NEW x \in RequestsOf(C2S), NEW y \in DOMAIN session,
           IdText(session[y].id) = IdText(session[x].id)
    PROVE  y = x \/ RespondsTo(y, x)
  <1>1. x \in DOMAIN session /\ session[x].id # None /\ session[y].id # None
    <2>1. x \in DOMAIN session
      BY DEF RequestsOf, From
    <2> QED
      BY <2>1, LineFacts
  <1>2. ASSUME NEW z \in RequestsOf(S2C) PROVE IdText(session[z].id) # IdText(session[x].id)
    <2>1. z \in DOMAIN session
      BY DEF RequestsOf, From
    <2>2. session[z].id # None
      BY <2>1, LineFacts
    <2> QED
      BY <1>1, <2>2 DEF NoSharedIds, SameId
  <1>3. session[y].direction \in {C2S, S2C} /\ session[y].kind \in {"request", "response"}
    BY LineFacts, Sides
  <1>4. CASE session[y].kind = "request"
    <2>1. y \in RequestsOf(session[y].direction)
      BY <1>4 DEF RequestsOf, From
    <2>2. y \in RequestsOf(C2S)
      BY <1>2, <1>3, <2>1
    <2> QED
      BY <2>2, ClientIds
  <1>5. CASE session[y].kind = "response"
    <2>1. PICK k \in DOMAIN session :
             /\ k < y /\ session[k].kind = "request"
             /\ session[k].direction = Opposite(session[y].direction)
             /\ session[k].id = session[y].id
      BY <1>5 DEF Told
    <2>2. k \in RequestsOf(session[k].direction)
      BY <2>1 DEF RequestsOf, From
    <2>3. session[k].direction = C2S /\ session[y].direction = S2C
      BY <1>2, <1>3, <2>1, <2>2, Sides
    <2>4. k = x
      BY <2>1, <2>2, <2>3, ClientIds
    <2> QED
      BY <1>5, <2>1, <2>3, <2>4 DEF RespondsTo, From
  <1> QED
    BY <1>3, <1>4, <1>5

(* Pairs in the transcript.                                                *)
LEMMA AnsweredCall ==
    ASSUME IInv, NoSharedIds, NEW key \in ClientCalls \ ServerCalls,
           NEW b \in AnswerPositions(TranscriptMessages, key)
    PROVE  \E a \in DOMAIN transcript :
              /\ a < b /\ b \in DOMAIN transcript /\ transcript[a] \in CallsOf(key)
              /\ RespondsTo(transcript[b], transcript[a])
              /\ TranscriptMessages[b].answer = AnsweredBy(transcript[a])
  <1>1. /\ DOMAIN TranscriptMessages = DOMAIN transcript /\ DOMAIN transcript \subseteq Nat
        /\ \A c \in DOMAIN transcript : /\ TranscriptMessages[c] = session[transcript[c]]
                                        /\ transcript[c] \in DOMAIN session
    BY TranscriptFacts DEF IInv
  <1>2. PICK a \in DOMAIN transcript :
           Answers(TranscriptMessages, a, b) /\ Key(TranscriptMessages[a]) = key
    BY <1>1 DEF AnswerPositions
  <1>3. b \in DOMAIN transcript
    BY <1>1 DEF AnswerPositions
  <1> DEFINE x == transcript[a]
             y == transcript[b]
  <1>4. /\ a < b /\ IsRequest(session[x]) /\ IsResponse(session[y])
        /\ SameId(session[x], session[y]) /\ Key(session[x]) = key
        /\ x \in DOMAIN session /\ y \in DOMAIN session
    BY <1>1, <1>2, <1>3 DEF Answers
  <1>5. TranscriptMessages[b] = session[y]
    BY <1>1, <1>3
  <1> HIDE DEF x, y
  <1>6. Told
    BY DEF IInv
  <1>7. /\ session[x].kind = "request" /\ session[y].kind = "response"
        /\ session[x].direction \in {C2S, S2C}
        /\ Key(session[x]) \in CallsBy(session[x].direction)
        /\ session[y].answer = <<session[y].direction, session[y].id[2]>>
    BY <1>4, <1>6, LineFacts, Sides
  <1>8. x \in RequestsOf(C2S) /\ x \in CallsOf(key)
    <2>1. session[x].direction = C2S
      BY <1>4, <1>7, Sides DEF CallsBy
    <2> QED
      BY <1>4, <1>7, <2>1 DEF RequestsOf, From, CallsOf
  <1>9. IdText(session[y].id) = IdText(session[x].id)
    BY <1>4 DEF SameId
  <1>10. RespondsTo(y, x)
    <2>1. x # y
      BY <1>7
    <2> QED
      BY <1>4, <1>6, <1>8, <1>9, <2>1, SharedText
  <1>11. session[y].answer = AnsweredBy(x)
    <2>1. session[y].direction = S2C
      BY <1>10 DEF RespondsTo, From
    <2> QED
      BY <1>7, <1>9, <2>1 DEF AnsweredBy, IdText
  <1> QED
    BY <1>3, <1>4, <1>5, <1>8, <1>10, <1>11 DEF x, y

(* A recorded reply is the answer to a call of the session.                *)
LEMMA IInvAnswersMatch == IInv => AnswersMatchCallsWhenIdsDiffer
  <1> SUFFICES ASSUME IInv, NoSharedIds, NEW r \in DOMAIN replies,
                      replies[r].outcome = "recorded", replies[r].key \notin ServerCalls
               PROVE  \E i \in CallsOf(replies[r].key) : replies[r].value = AnsweredBy(i)
    BY DEF AnswersMatchCallsWhenIdsDiffer, AnswersMatchCalls
  <1> DEFINE key == replies[r].key
  <1>1. phase = "serve"
    BY DEF IInv, Served
  <1>2. /\ stub = ListEntries(GenerateStub(TranscriptMessages))
        /\ replies \in Seq(ToSet(replies)) /\ key \in ClientCalls \ ServerCalls
        /\ ReplyFits(r, key)
    BY <1>1 DEF IInv, Served
  <1> HIDE DEF key
  <1>3. key \in DOMAIN stub /\ replies[r].value = stub[key].answers[AnswerNumber(key, r)]
    BY <1>2 DEF ReplyFits
  <1>4. /\ Length(key) \in Nat \ {0} /\ Length(key) = Len(stub[key].answers)
        /\ Ranked(TranscriptMessages, stub[key].answers, AnswerPositions(TranscriptMessages, key))
    BY <1>2, <1>3, LoadedStub DEF IInv
  <1>5. Rank(RepliesFor(key), r) \in 1..Cardinality(RepliesFor(key))
        /\ Cardinality(RepliesFor(key)) \in Nat
    <2>1. Len(replies) \in Nat /\ DOMAIN replies = 1..Len(replies)
      BY <1>2
    <2>2. RepliesFor(key) \subseteq 1..Len(replies) /\ r \in RepliesFor(key)
      BY <2>1 DEF RepliesFor, key
    <2> QED
      BY <2>1, <2>2, RankFacts
  <1>6. AnswerNumber(key, r) \in 1..Len(stub[key].answers)
    BY <1>4, <1>5 DEF AnswerNumber
  <1>7. PICK b \in AnswerPositions(TranscriptMessages, key) :
           stub[key].answers[AnswerNumber(key, r)] = TranscriptMessages[b].answer
    BY <1>4, <1>6 DEF Ranked
  <1>8. PICK a \in DOMAIN transcript :
           /\ transcript[a] \in CallsOf(key)
           /\ TranscriptMessages[b].answer = AnsweredBy(transcript[a])
    BY <1>2, AnsweredCall
  <1> QED
    BY <1>3, <1>7, <1>8 DEF key

(* The stub answers a call only with what the server answered to a call of *)
(* the same method and params, if the two peers share no id text           *)
(* (mcp/stubgen.py and mcp/stub_server.py, _response_for_request).         *)
THEOREM AnswersMatch == ReplaySpec => []AnswersMatchCallsWhenIdsDiffer
  BY IInvAnswersMatch, ReplayInvariant, PTL

-------------------------------------------------------------------------------
(* One call at a time.                                                     *)

(* Two sets that a function maps one to one have as many members.          *)
LEMMA SameSize ==
    ASSUME NEW X, NEW Y, IsFiniteSet(Y), NEW f \in [Y -> X],
           \A a, b \in Y : f[a] = f[b] => a = b,
           \A x \in X : \E b \in Y : f[b] = x
    PROVE  Cardinality(X) = Cardinality(Y)
  <1>1. f \in Bijection(Y, X)
    BY DEF Bijection, Injection, Surjection, IsInjective
  <1>2. ExistsBijection(Y, X)
    BY <1>1 DEF ExistsBijection
  <1> QED
    BY <1>2, FS_Bijection

(* Positions in the session.                                               *)
LEMMA SessionLength ==
    ASSUME Recorded
    PROVE  Len(session) \in Nat /\ DOMAIN session = 1..Len(session)
  BY DEF Recorded

LEMMA RequestsAreLines ==
    ASSUME NEW d
    PROVE  /\ RequestsOf(d) \subseteq DOMAIN session
           /\ \A key : CallsOf(key) \subseteq RequestsOf(C2S)
  BY DEF RequestsOf, From, CallsOf

(* A response comes after its request, and is the only one.                *)
LEMMA ResponseFollows ==
    ASSUME Told, NEW x, NEW y, RespondsTo(y, x)
    PROVE  x < y /\ y \in DOMAIN session /\ \A z : RespondsTo(z, x) => z = y
  <1>1. /\ y \in DOMAIN session /\ session[y].kind = "response" /\ session[y].direction = S2C
        /\ x \in RequestsOf(C2S) /\ session[y].id = session[x].id
    BY DEF RespondsTo, From
  <1>2. PICK k \in DOMAIN session :
           /\ k < y /\ session[k].kind = "request" /\ session[k].direction = C2S
           /\ session[k].id = session[y].id
    BY <1>1, Sides DEF Told
  <1>3. k \in RequestsOf(C2S)
    BY <1>2 DEF RequestsOf, From
  <1>4. k = x
    BY <1>1, <1>2, <1>3 DEF Told
  <1>5. \A z : RespondsTo(z, x) => z = y
    BY <1>1 DEF Told, RespondsTo, From
  <1> QED
    BY <1>1, <1>2, <1>4, <1>5

(* Of two calls in turn the first is answered before the second is made.   *)
LEMMA AnsweredInTurn ==
    ASSUME IInv, CallsInTurn, NEW x \in RequestsOf(C2S), NEW z \in RequestsOf(C2S), x < z
    PROVE  \E y : RespondsTo(y, x) /\ y < z
  <1>1. PICK k \in (x + 1)..(z - 1) :
           session[k].direction = S2C /\ session[k].kind = "response" /\ session[k].id = session[x].id
    BY DEF CallsInTurn
  <1>2. x \in 1..Len(session) /\ z \in 1..Len(session) /\ Len(session) \in Nat
        /\ DOMAIN session = 1..Len(session)
    BY SessionLength, RequestsAreLines DEF IInv
  <1>3. k \in DOMAIN session /\ k < z
    BY <1>2
  <1> QED
    BY <1>1, <1>3 DEF RespondsTo, From

(* Once an answer is captured, those of the calls before are.              *)
LEMMA EarlierCaptured ==
    ASSUME IInv, CallsInTurn, NEW i \in RequestsOf(C2S), NEW x \in RequestsOf(C2S), x <= i,
           NEW j \in Captured, RespondsTo(j, i)
    PROVE  \E y \in Captured : RespondsTo(y, x)
  <1>1. CASE x = i
    BY <1>1
  <1>2. CASE x # i
    <2>1. x \in Nat /\ i \in Nat /\ DOMAIN session \subseteq Nat
      BY SessionLength, RequestsAreLines DEF IInv
    <2>2. PICK y : RespondsTo(y, x) /\ y < i
      BY <1>2, <2>1, AnsweredInTurn
    <2>3. i < j /\ j \in DOMAIN session /\ y \in DOMAIN session
      BY <2>2, ResponseFollows DEF IInv
    <2>4. y \in From(S2C) /\ j \in From(S2C)
      BY <2>2 DEF RespondsTo
    <2>5. ~(j <= y)
      BY <2>1, <2>2, <2>3
    <2>6. y \in Captured
      BY <2>4, <2>5, Sides DEF IInv, Recorded
    <2> QED
      BY <2>2, <2>6
  <1> QED
    BY <1>1, <1>2

(* Every line is captured once.                                            *)
LEMMA CapturedOnce ==
    ASSUME IInv, NEW a \in DOMAIN transcript, NEW b \in DOMAIN transcript,
           transcript[a] = transcript[b]
    PROVE  a = b
  <1>1. a \in Nat /\ b \in Nat /\ transcript[a] \in Nat
    BY DEF IInv, Recorded
  <1>2. ~(a < b) /\ ~(b < a)
    BY <1>1 DEF IInv, InOrder
  <1> QED
    BY <1>1, <1>2

(* A captured answer of a captured call is one of the stub's.              *)
LEMMA CapturedPair ==
    ASSUME IInv, NoSharedIds, CapturedAfterRequest,
           NEW key, NEW x \in CallsOf(key), NEW b \in DOMAIN transcript,
           RespondsTo(transcript[b], x)
    PROVE  b \in AnswerPositions(TranscriptMessages, key)
  <1> DEFINE m == TranscriptMessages
             y == transcript[b]
  <1>1. /\ DOMAIN m = DOMAIN transcript /\ DOMAIN transcript = 1..Len(transcript)
        /\ Len(transcript) \in Nat
        /\ \A c \in DOMAIN transcript : m[c] = session[transcript[c]] /\ transcript[c] \in DOMAIN session
    BY TranscriptFacts DEF IInv
  <1> HIDE DEF m
  <1>2. /\ y \in DOMAIN session /\ session[y].direction = S2C /\ session[y].kind = "response"
        /\ x \in RequestsOf(C2S) /\ session[y].id = session[x].id /\ Told
    BY DEF RespondsTo, From, IInv
  <1>3. PICK a \in 1..(b - 1) :
           transcript[a] \in RequestsOf(C2S) /\ session[transcript[a]].id = session[y].id
    BY <1>2 DEF CapturedAfterRequest
  <1>4. transcript[a] = x
    BY <1>2, <1>3 DEF Told
  <1>5. a \in DOMAIN transcript /\ a < b
    BY <1>1
  <1>6. /\ x \in DOMAIN session /\ session[x].kind = "request" /\ Key(session[x]) = key
        /\ session[x].id # None /\ session[y].id # None
        /\ IsRequest(session[x]) /\ IsResponse(session[y])
    <2>1. x \in DOMAIN session /\ session[x].kind = "request" /\ Key(session[x]) = key
      BY DEF CallsOf, RequestsOf, From
    <2> QED
      BY <1>2, <2>1, LineFacts
  <1>7. ASSUME NEW c \in (a + 1)..(b - 1), SameId(m[c], m[b])
        PROVE  FALSE
    <2>1. c \in DOMAIN transcript /\ c # a /\ c # b
      BY <1>1, <1>5
    <2>2. IdText(session[transcript[c]].id) = IdText(session[x].id)
      BY <1>1, <1>2, <1>7, <2>1 DEF SameId
    <2>3. transcript[c] = x \/ RespondsTo(transcript[c], x)
      BY <1>1, <1>2, <2>1, <2>2, SharedText
    <2>4. transcript[c] = x \/ transcript[c] = y
      BY <1>2, <2>3, ResponseFollows
    <2> QED
      BY <1>4, <1>5, <2>1, <2>4, CapturedOnce
  <1>8. Answers(m, a, b)
    <2>1. m[a] = session[x] /\ m[b] = session[y]
      BY <1>1, <1>4, <1>5
    <2>2. SameId(m[a], m[b])
      BY <1>2, <1>6, <2>1 DEF SameId
    <2> QED
      BY <1>5, <1>6, <1>7, <2>1, <2>2 DEF Answers
  <1>9. Key(m[a]) = key
    BY <1>1, <1>4, <1>5, <1>6
  <1> QED
    BY <1>1, <1>5, <1>8, <1>9 DEF AnswerPositions, m

(* The answer of a call stands in the stub's list where the call stands    *)
(* among the calls of its key.                                             *)
LEMMA AnswerAtRank ==
    ASSUME IInv, CallsInTurn, NoSharedIds, CapturedAfterRequest,
           NEW key \in ClientCalls \ ServerCalls,
           NEW i \in CallsOf(key), NEW j \in Captured, RespondsTo(j, i)
    PROVE  \E b \in AnswerPositions(TranscriptMessages, key) :
              /\ Rank(AnswerPositions(TranscriptMessages, key), b) = Rank(CallsOf(key), i)
              /\ TranscriptMessages[b].answer = AnsweredBy(i)
  <1> DEFINE P == AnswerPositions(TranscriptMessages, key)
  <1>1. /\ DOMAIN TranscriptMessages = DOMAIN transcript /\ DOMAIN transcript = 1..Len(transcript)
        /\ Len(transcript) \in Nat /\ P \subseteq DOMAIN transcript
    BY TranscriptFacts DEF IInv, AnswerPositions
  <1>2. /\ CallsOf(key) \subseteq RequestsOf(C2S) /\ RequestsOf(C2S) \subseteq DOMAIN session
        /\ DOMAIN session = 1..Len(session) /\ Len(session) \in Nat
    BY RequestsAreLines, SessionLength DEF IInv
  <1>3. ASSUME NEW b \in P
        PROVE  \E x \in CallsOf(key) : /\ RespondsTo(transcript[b], x)
                                        /\ TranscriptMessages[b].answer = AnsweredBy(x)
    BY AnsweredCall
  <1> DEFINE call(b) == CHOOSE x \in CallsOf(key) :
                           /\ RespondsTo(transcript[b], x)
                           /\ TranscriptMessages[b].answer = AnsweredBy(x)
  <1>4. ASSUME NEW b \in P
        PROVE  /\ call(b) \in CallsOf(key) /\ RespondsTo(transcript[b], call(b))
               /\ TranscriptMessages[b].answer = AnsweredBy(call(b))
    BY <1>3
  <1> HIDE DEF call
  <1>5. ASSUME NEW b \in P, NEW x \in CallsOf(key), RespondsTo(transcript[b], x)
        PROVE  call(b) = x
    <2>1. RespondsTo(transcript[b], call(b)) /\ call(b) \in RequestsOf(C2S)
      BY <1>2, <1>4
    <2> QED
      BY <1>5, <2>1 DEF RespondsTo, IInv, Told
  <1>6. ASSUME NEW x \in CallsOf(key), x <= i
        PROVE  \E b \in P : call(b) = x
    <2>1. PICK y \in Captured : RespondsTo(y, x)
      BY <1>2, <1>6, EarlierCaptured
    <2>2. PICK b \in DOMAIN transcript : transcript[b] = y
      BY DEF Captured
    <2>3. b \in P
      BY <2>1, <2>2, CapturedPair
    <2> QED
      BY <1>5, <2>1, <2>2, <2>3
  <1>7. PICK bi \in P : call(bi) = i
    <2>1. i <= i
      BY <1>2
    <2> QED
      BY <1>6, <2>1
  <1>8. ASSUME NEW b \in P, NEW c \in P, call(b) < call(c)
        PROVE  b < c
    <2>1. PICK y : RespondsTo(y, call(b)) /\ y < call(c)
      BY <1>2, <1>4, <1>8, AnsweredInTurn
    <2>2. y = transcript[b]
      BY <1>4, <2>1, ResponseFollows DEF IInv
    <2>3. call(c) < transcript[c]
      BY <1>4, ResponseFollows DEF IInv
    <2>4. transcript[b] \in DOMAIN session /\ transcript[c] \in DOMAIN session
      BY <1>1, TranscriptFacts DEF IInv
    <2>5. call(c) \in Nat /\ transcript[b] \in Nat /\ transcript[c] \in Nat
      BY <1>2, <1>4, <2>4
    <2>6. transcript[b] < transcript[c]
      BY <2>1, <2>2, <2>3, <2>5
    <2>7. session[transcript[b]].direction = session[transcript[c]].direction
      BY <1>4 DEF RespondsTo, From
    <2>8. b \in Nat /\ c \in Nat /\ b \in DOMAIN transcript /\ c \in DOMAIN transcript
      BY <1>1
    <2>9. ~(c < b)
      BY <2>5, <2>6, <2>7, <2>8 DEF IInv, InOrder
    <2>10. b # c
      BY <1>8, <2>5
    <2> QED
      BY <2>8, <2>9, <2>10
  <1>9. ASSUME NEW b \in P PROVE b <= bi <=> call(b) <= i
    <2>1. call(b) \in Nat /\ i \in Nat /\ b \in Nat /\ bi \in Nat
      BY <1>1, <1>2, <1>4
    <2>2. ASSUME call(b) = i PROVE b = bi
      <3>1. RespondsTo(transcript[b], i) /\ RespondsTo(transcript[bi], i)
        BY <1>4, <1>7, <2>2
      <3>2. transcript[b] = transcript[bi]
        BY <3>1, ResponseFollows DEF IInv
      <3> QED
        BY <1>1, <3>2, CapturedOnce
    <2>3. call(b) < i => b < bi
      BY <1>7, <1>8
    <2>4. i < call(b) => bi < b
      BY <1>7, <1>8
    <2> QED
      BY <2>1, <2>2, <2>3, <2>4
  <1> DEFINE X == {x \in CallsOf(key) : x <= i}
             Y == {b \in P : b <= bi}
             f == [b \in Y |-> call(b)]
  <1>10. f \in [Y -> X]
    BY <1>4, <1>9
  <1>11. ASSUME NEW a \in Y, NEW b \in Y, f[a] = f[b] PROVE a = b
    <2>1. a \in P /\ b \in P /\ call(a) = call(b)
      BY <1>11
    <2>2. transcript[a] = transcript[b]
      BY <1>4, <2>1, ResponseFollows DEF IInv
    <2> QED
      BY <1>1, <2>1, <2>2, CapturedOnce
  <1>12. ASSUME NEW x \in X PROVE \E b \in Y : f[b] = x
    BY <1>6, <1>9
  <1>13. IsFiniteSet(Y)
    BY <1>1, RankFacts
  <1>14. Cardinality(X) = Cardinality(Y)
    <2> HIDE DEF X, Y, f
    <2> QED
      BY <1>10, <1>11, <1>12, <1>13, SameSize
  <1>15. Rank(P, bi) = Rank(CallsOf(key), i)
    BY <1>14 DEF Rank
  <1> QED
    BY <1>4, <1>7, <1>15

(* The n-th reply for a key is its n-th answer, as long as there are that  *)
(* many.                                                                   *)
LEMMA NthReply ==
    ASSUME IInv, phase = "serve", NEW key \in ClientCalls, key \in DOMAIN stub,
           NEW n \in 1..Length(key), Cardinality({r \in DOMAIN replies : replies[r].key = key}) >= n
    PROVE  /\ Cardinality(RepliesFor(key)) >= n
           /\ replies[Nth(RepliesFor(key), n)].value = stub[key].answers[n]
  <1> DEFINE Q == RepliesFor(key)
             A == {r \in DOMAIN replies : replies[r].key = key}
  <1>1. /\ stub = ListEntries(GenerateStub(TranscriptMessages))
        /\ replies \in Seq(ToSet(replies))
        /\ \A r \in DOMAIN replies : replies[r].key = key => ReplyFits(r, key)
    BY DEF IInv, Served
  <1>2. Length(key) \in Nat /\ n \in Nat /\ n <= Length(key) /\ n >= 1
    BY <1>1, LoadedStub DEF IInv
  <1>3. Len(replies) \in Nat /\ DOMAIN replies = 1..Len(replies)
        /\ Q \subseteq 1..Len(replies)
    BY <1>1 DEF RepliesFor
  <1>4. Cardinality(Q) \in Nat
    BY <1>3, RankFacts
  <1>5. Cardinality(Q) >= n
    <2>1. CASE A = Q
      BY <2>1
    <2>2. CASE A # Q
      <3>1. PICK r \in A : replies[r].outcome # "recorded"
        BY <2>2 DEF RepliesFor
      <3>2. Length(key) <= Cardinality(Q)
        BY <1>1, <3>1 DEF ReplyFits
      <3> HIDE DEF Q
      <3> QED
        BY <1>2, <1>4, <3>2
    <2> QED
      BY <2>1, <2>2
  <1>6. n \in 1..Cardinality(Q)
    <2> HIDE DEF Q
    <2> QED
      BY <1>2, <1>4, <1>5
  <1> DEFINE r == Nth(Q, n)
  <1>7. r \in Q /\ Rank(Q, r) = n
    BY <1>3, <1>6, NthFacts
  <1> HIDE DEF r
  <1>8. r \in DOMAIN replies /\ replies[r].key = key /\ replies[r].outcome = "recorded"
    BY <1>7 DEF RepliesFor
  <1>9. AnswerNumber(key, r) = n
    BY <1>2, <1>7 DEF AnswerNumber
  <1>10. replies[r].value = stub[key].answers[n]
    BY <1>1, <1>8, <1>9 DEF ReplyFits
  <1> QED
    BY <1>5, <1>10 DEF r

(* The n-th call has the n-th answer, and the n-th reply is that one.      *)
LEMMA IInvSequential == IInv => SequentialSessionReplays
  <1> SUFFICES ASSUME IInv, CallsInTurn, NoSharedIds, CapturedAfterRequest
               PROVE  ReplaysTheSession
    BY DEF SequentialSessionReplays
  <1> SUFFICES ASSUME NEW key \in ClientCalls \ ServerCalls, NEW n \in 1..Cardinality(CallsOf(key)),
                      Cardinality({r \in DOMAIN replies : replies[r].key = key}) >= n,
                      NEW j \in Captured,
                      session[j].direction = S2C, session[j].kind = "response",
                      session[j].id = session[Nth(CallsOf(key), n)].id
               PROVE  /\ Cardinality(RepliesFor(key)) >= n
                      /\ replies[Nth(RepliesFor(key), n)].value = AnsweredBy(Nth(CallsOf(key), n))
    BY DEF ReplaysTheSession
  <1> DEFINE i == Nth(CallsOf(key), n)
             P == AnswerPositions(TranscriptMessages, key)
  <1>1. /\ CallsOf(key) \subseteq 1..Len(session) /\ Len(session) \in Nat
        /\ CallsOf(key) \subseteq RequestsOf(C2S)
    BY RequestsAreLines, SessionLength DEF IInv
  <1>2. i \in CallsOf(key) /\ Rank(CallsOf(key), i) = n
    BY <1>1, NthFacts
  <1> HIDE DEF i
  <1>3. RespondsTo(j, i)
    <2>1. j \in DOMAIN session
      BY DEF IInv, Recorded
    <2> QED
      BY <1>1, <1>2, <2>1 DEF RespondsTo, From, i
  <1>4. PICK b \in P : Rank(P, b) = n /\ TranscriptMessages[b].answer = AnsweredBy(i)
    BY <1>2, <1>3, AnswerAtRank
  <1>5. n \in Nat /\ n >= 1
    <2> DEFINE c == Cardinality(CallsOf(key))
    <2>1. c \in Nat /\ n \in 1..c
      BY <1>1, RankFacts
    <2> HIDE DEF c
    <2> QED
      BY <2>1
  <1>6. phase = "serve"
    <2>1. CASE replies = <<>>
      <3>1. {r \in DOMAIN replies : replies[r].key = key} = {}
        BY <2>1
      <3>2. Cardinality({}) = 0
        BY FS_EmptySet
      <3>3. 0 >= n
        BY <3>1, <3>2
      <3> QED
        BY <1>5, <3>3
    <2>2. CASE replies # <<>>
      BY <2>2 DEF IInv, Served
    <2> QED
      BY <2>1, <2>2
  <1>7. stub = ListEntries(GenerateStub(TranscriptMessages))
    BY <1>6 DEF IInv, Served
  <1>8. key \in DOMAIN stub
    BY <1>4, <1>7, LoadedStub DEF IInv
  <1>9. Ranked(TranscriptMessages, stub[key].answers, P) /\ Length(key) = Len(stub[key].answers)
    BY <1>7, <1>8, LoadedStub DEF IInv
  <1>10. stub[key].answers[n] = AnsweredBy(i)
    BY <1>4, <1>9 DEF Ranked, Rank
  <1>11. n \in 1..Length(key)
    <2>1. P \subseteq 1..Len(transcript) /\ Len(transcript) \in Nat
      BY TranscriptFacts DEF IInv, AnswerPositions
    <2>2. Rank(P, b) \in 1..Cardinality(P)
      BY <2>1, RankFacts
    <2> QED
      BY <1>4, <1>9, <2>2 DEF Ranked
  <1> QED
    BY <1>6, <1>8, <1>10, <1>11, NthReply DEF i

(* A client that makes one call at a time gets its session back from the   *)
(* stub, however many calls and keys, if the transcript has every request  *)
(* before its response and no request of the server shares an id           *)
(* (mcp/stub_server.py, serve_stub, on a stub of mcp/stubgen.py).          *)
THEOREM SequentialReplay == ReplaySpec => []SequentialSessionReplays
  BY IInvSequential, ReplayInvariant, PTL
===============================================================================
