------------------------------ MODULE Gate_proofs ------------------------------
(***************************************************************************)
(* The stub server implements Recording, for any keys, answers and stubs;  *)
(* and on what it serves rest the safety theorems of Gate, for any packs,  *)
(* policies and number of candidates that are accepted.                    *)
(***************************************************************************)
EXTENDS Gate, SequenceTheorems, FiniteSetTheorems, TLAPS

(***************************************************************************)
(* The stub server.                                                        *)
(***************************************************************************)

Replies ==
    [key : Keys, outcome : Outcomes, nth : Nat,
     value : Answer \cup {NoFallback} \cup {Fallback[key] : key \in Keys}]

(* The inductive form of TypeOK. *)
Typed ==
    /\ stub \in Stubs /\ strict \in BOOLEAN
    /\ counters \in [Keys -> Nat]
    /\ replies \in Seq(Replies)

LEMMA EntryFacts ==
    ASSUME Typed, NEW key \in Keys, key \in DOMAIN stub
    PROVE  /\ stub[key].answers \in Seq(Answer)
           /\ Len(stub[key].answers) \in Nat \ {0}
           /\ Length(key) = Len(stub[key].answers)
           /\ \A i \in 1..Length(key) : stub[key].answers[i] \in Answer
<1>1. stub[key] \in Entry
  BY StubServerAssumption DEF Typed
<1>2. stub[key].answers \in Seq(Answer) /\ stub[key].answers # <<>>
  BY <1>1 DEF Entry
<1> QED
  BY <1>2 DEF Length

LEMMA GivenFacts ==
    ASSUME Typed, NEW key \in Keys, HasList(key)
    PROVE  /\ Given(key) \in 0..Length(key)
           /\ counters[key] \in Nat /\ Length(key) \in Nat \ {0}
<1>1. Length(key) \in Nat \ {0} /\ counters[key] \in Nat
  BY EntryFacts DEF HasList, Typed
<1> QED
  BY <1>1 DEF Given

(* What the refinement mapping gives for a key, by its counter.            *)
LEMMA LeftFacts ==
    ASSUME Typed, NEW key \in Keys, HasList(key)
    PROVE  /\ Left(key) \in Seq(Answer)
           /\ counters[key] < Length(key) =>
                /\ Left(key) # <<>>
                /\ Head(Left(key)) = stub[key].answers[counters[key] + 1]
                /\ Tail(Left(key)) =
                      SubSeq(stub[key].answers, counters[key] + 2, Length(key))
           /\ counters[key] >= Length(key) => Left(key) = <<>>
<1> DEFINE a == stub[key].answers
<1>1. a \in Seq(Answer) /\ Length(key) = Len(a) /\ Len(a) \in Nat
  BY EntryFacts DEF HasList
<1>2. Given(key) \in 0..Len(a) /\ counters[key] \in Nat
  BY <1>1, GivenFacts
<1>3. Left(key) = SubSeq(a, Given(key) + 1, Len(a))
  BY <1>1 DEF Left
<1> HIDE DEF a
<1>4. Left(key) \in Seq(Answer)
  BY <1>1, <1>2, <1>3
<1>5. ASSUME counters[key] < Length(key)
      PROVE  /\ Left(key) # <<>>
             /\ Head(Left(key)) = a[counters[key] + 1]
             /\ Tail(Left(key)) = SubSeq(a, counters[key] + 2, Len(a))
  <2>1. Left(key) = SubSeq(a, counters[key] + 1, Len(a))
    BY <1>3, <1>5 DEF Given
  <2>2. /\ counters[key] + 1 \in 1..Len(a)
        /\ Len(a) \in (counters[key] + 1)..Len(a)
    BY <1>1, <1>2, <1>5
  <2>3. /\ Head(Left(key)) = a[counters[key] + 1]
        /\ Tail(Left(key)) = SubSeq(a, (counters[key] + 1) + 1, Len(a))
    BY <1>1, <2>1, <2>2, HeadTailOfSubSeq
  <2>4. Len(Left(key)) = Len(a) - counters[key]
    BY <1>1, <1>2, <1>5, <2>1
  <2>5. Left(key) # <<>> /\ (counters[key] + 1) + 1 = counters[key] + 2
    BY <1>1, <1>2, <1>4, <1>5, <2>4
  <2> QED
    BY <2>3, <2>5
<1>6. ASSUME counters[key] >= Length(key) PROVE Left(key) = <<>>
  <2>1. Left(key) = SubSeq(a, Len(a) + 1, Len(a))
    BY <1>1, <1>2, <1>3, <1>6 DEF Given
  <2> QED
    BY <1>1, <2>1
<1> QED
  BY <1>1, <1>4, <1>5, <1>6 DEF a

-------------------------------------------------------------------------------
(* Types.                                                                  *)

LEMMA InitTyped == Init => Typed
<1> SUFFICES ASSUME NEW loaded \in Stubs, NEW strictMode \in BOOLEAN,
                    Load(loaded, strictMode)
             PROVE  Typed
  BY DEF Init
<1> QED
  BY DEF Load, Typed

LEMMA ServeTyped ==
    ASSUME Typed, NEW key \in Keys, Serve(key)
    PROVE  Typed'
<1>1. counters[key] \in Nat
  BY DEF Typed
<1>2. CASE Answered(key)
  <2>1. /\ key \in DOMAIN stub /\ counters[key] + 1 \in 1..Length(key)
        /\ counters[key] + 1 \in Nat
    BY <1>1, <1>2, EntryFacts DEF Answered, HasList
  <2>2. stub[key].answers[counters[key] + 1] \in Answer
    BY <2>1, EntryFacts
  <2>3. Reply(key, "recorded", stub[key].answers[counters[key] + 1],
              counters[key] + 1) \in Replies
    BY <2>1, <2>2 DEF Reply, Replies, Outcomes
  <2> QED
    BY <1>2, <2>1, <2>3 DEF Answered, Serve, Typed
<1>3. CASE Exhausted(key)
  <2>1. Reply(key, "exhausted", NoFallback, counters[key]) \in Replies
    BY <1>1 DEF Reply, Replies, Outcomes
  <2> QED
    BY <1>3, <2>1 DEF Exhausted, Serve, Typed
<1>4. CASE LastAgain(key)
  <2>1. key \in DOMAIN stub /\ Length(key) \in 1..Length(key) /\ Length(key) \in Nat
    BY <1>4, EntryFacts DEF LastAgain, HasList
  <2>2. stub[key].answers[Length(key)] \in Answer
    BY <2>1, EntryFacts
  <2>3. Reply(key, "recorded", stub[key].answers[Length(key)], Length(key)) \in Replies
    BY <2>1, <2>2 DEF Reply, Replies, Outcomes
  <2> QED
    BY <1>1, <1>4, <2>3 DEF LastAgain, Serve, Typed
<1>5. CASE SingleAnswer(key)
  <2>1. key \in DOMAIN stub /\ 1 \in 1..Length(key)
    BY <1>5, EntryFacts DEF SingleAnswer
  <2>2. Reply(key, "single", stub[key].answers[1], 0) \in Replies
    BY <2>1, EntryFacts DEF Reply, Replies, Outcomes
  <2> QED
    BY <1>5, <2>2 DEF SingleAnswer, Serve, Typed
<1>6. CASE NoMapping(key)
  <2>1. /\ Reply(key, "fallback", Fallback[key], 0) \in Replies
        /\ Reply(key, "unknown", NoFallback, 0) \in Replies
    BY DEF Reply, Replies, Outcomes
  <2> QED
    BY <1>6, <2>1 DEF NoMapping, Serve, Typed
<1> QED
  BY <1>2, <1>3, <1>4, <1>5, <1>6 DEF Serve

LEMMA NextTyped == Typed /\ [Next]_serverVars => Typed'
<1> SUFFICES ASSUME Typed, [Next]_serverVars PROVE Typed'
  OBVIOUS
<1>1. CASE \E key \in Keys : Serve(key)
  BY <1>1, ServeTyped
<1>2. CASE UNCHANGED serverVars
  BY <1>2 DEF serverVars, Typed
<1> QED
  BY <1>1, <1>2 DEF Next, SkipLine

LEMMA AlwaysTyped == Spec => []Typed
  BY InitTyped, NextTyped, PTL DEF Spec

(* Every variable keeps its type, for any keys, answers and stubs, and     *)
(* replies only ever name keys and outcomes that exist (serve_stub).       *)
THEOREM TypeCorrect == Spec => []TypeOK
<1>1. ASSUME Typed PROVE TypeOK
  <2>1. \A i \in DOMAIN replies : replies[i] \in Replies
    BY <1>1 DEF Typed
  <2> QED
    BY <1>1, <2>1 DEF Typed, TypeOK, Replies
<1> QED
  BY <1>1, AlwaysTyped, PTL

-------------------------------------------------------------------------------
(* The refinement.  The mapped variables are named for the proof.          *)

LeftMap == [key \in Keys |-> Left(key)]
LastMap == [key \in Keys |-> LastGiven(key)]
SaidMap == [i \in DOMAIN replies |-> Said(replies[i])]

LEMMA MapTyped ==
    ASSUME Typed
    PROVE  LeftMap \in [Keys -> Seq(Answer)]
<1>1. \A key \in Keys : Left(key) \in Seq(Answer)
  BY LeftFacts DEF Left
<1> QED
  BY <1>1 DEF LeftMap

LEMMA InitMaps == Init => R!RecordingInit
<1> SUFFICES ASSUME Init PROVE R!RecordingInit
  OBVIOUS
<1>1. Typed /\ counters = [key \in Keys |-> 0] /\ replies = <<>>
  BY InitTyped DEF Init, Load
<1>2. \A key \in Keys : LastGiven(key) = <<>>
  BY <1>1, GivenFacts DEF LastGiven, Given
<1>3. SaidMap = <<>>
  BY <1>1 DEF SaidMap
<1> QED
  BY <1>1, <1>2, <1>3, MapTyped DEF R!RecordingInit, LeftMap, SaidMap, Typed

(* One more reply is one more thing said.                                  *)
LEMMA SaidGrows ==
    ASSUME Typed, NEW r \in Replies, replies' = Append(replies, r)
    PROVE  SaidMap' = Append(SaidMap, Said(r))
<1>1. /\ replies \in Seq(Replies) /\ Len(replies) \in Nat
      /\ DOMAIN replies = 1..Len(replies)
  BY DEF Typed
<1>2. /\ DOMAIN replies' = 1..(Len(replies) + 1)
      /\ \A i \in 1..Len(replies) : replies'[i] = replies[i]
      /\ replies'[Len(replies) + 1] = r
  BY <1>1
<1>3. SaidMap = [i \in 1..Len(replies) |-> Said(replies[i])]
  BY <1>1 DEF SaidMap
<1>4. SaidMap' = [i \in 1..(Len(replies) + 1) |-> Said(replies'[i])]
  BY <1>2 DEF SaidMap, Said
<1>5. Len(SaidMap) = Len(replies)
  BY <1>1, <1>3
<1>6. Append(SaidMap, Said(r)) =
        [i \in 1..(Len(replies) + 1) |->
            IF i = Len(replies) + 1 THEN Said(r) ELSE SaidMap[i]]
  BY <1>1, <1>3, <1>5
<1> QED
  BY <1>1, <1>2, <1>3, <1>4, <1>6

(* What a call does to the answers left and the last one given: counting   *)
(* it moves the mapped variables of its own key and of no other.           *)
LEMMA CountedCall ==
    ASSUME Typed, NEW key \in Keys, stub' = stub,
           counters' = [counters EXCEPT ![key] = @ + 1]
    PROVE  /\ LeftMap' = [LeftMap EXCEPT ![key] = Left(key)']
           /\ LastMap' = [LastMap EXCEPT ![key] = LastGiven(key)']
<1>1. \A k \in Keys : k # key => counters'[k] = counters[k]
  BY DEF Typed
<1>2. \A k \in Keys : k # key => Left(k)' = Left(k) /\ LastGiven(k)' = LastGiven(k)
  BY <1>1 DEF Left, LastGiven, Given, HasList, Length
<1>3. LeftMap' = [k \in Keys |-> Left(k)'] /\ LastMap' = [k \in Keys |-> LastGiven(k)']
  BY DEF LeftMap, LastMap
<1> QED
  BY <1>2, <1>3 DEF LeftMap, LastMap

LEMMA UncountedCall ==
    ASSUME stub' = stub, counters' = counters
    PROVE  LeftMap' = LeftMap /\ LastMap' = LastMap
<1>1. \A k \in Keys : Left(k)' = Left(k) /\ LastGiven(k)' = LastGiven(k)
  BY DEF Left, LastGiven, Given, HasList, Length
<1>2. LeftMap' = [k \in Keys |-> Left(k)'] /\ LastMap' = [k \in Keys |-> LastGiven(k)']
  BY DEF LeftMap, LastMap
<1> QED
  BY <1>1, <1>2 DEF LeftMap, LastMap

LEMMA AnsweredMaps ==
    ASSUME Typed, NEW key \in Keys, Answered(key), stub' = stub
    PROVE  /\ LeftMap[key] # <<>>
           /\ SaidMap' = Append(SaidMap, <<key, "recorded", Head(LeftMap[key])>>)
           /\ LeftMap' = [LeftMap EXCEPT ![key] = Tail(@)]
           /\ LastMap' = [LastMap EXCEPT ![key] = <<Head(LeftMap[key])>>]
<1> DEFINE a == stub[key].answers
           r == Reply(key, "recorded", a[counters[key] + 1], counters[key] + 1)
<1>1. /\ HasList(key) /\ key \in DOMAIN stub /\ counters[key] < Length(key)
      /\ counters[key] \in Nat /\ Length(key) \in Nat
  BY GivenFacts DEF Answered, HasList
<1>2. /\ Left(key) # <<>> /\ Head(Left(key)) = a[counters[key] + 1]
      /\ Tail(Left(key)) = SubSeq(a, counters[key] + 2, Length(key))
  BY <1>1, LeftFacts
<1>3. counters' = [counters EXCEPT ![key] = @ + 1] /\ counters'[key] = counters[key] + 1
  BY DEF Answered, Typed
<1>4. Given(key)' = counters[key] + 1
  BY <1>1, <1>3 DEF Given, Length
<1>5. Left(key)' = Tail(Left(key))
  <2>1. Left(key)' = SubSeq(a, (counters[key] + 1) + 1, Length(key))
    BY <1>1, <1>4 DEF Left, HasList, Length
  <2>2. (counters[key] + 1) + 1 = counters[key] + 2
    BY <1>1
  <2> QED
    BY <1>2, <2>1, <2>2
<1>6. LastGiven(key)' = <<Head(Left(key))>>
  BY <1>1, <1>2, <1>4 DEF LastGiven, HasList
<1>7. SaidMap' = Append(SaidMap, Said(r))
  <2>1. counters[key] + 1 \in 1..Length(key) /\ counters[key] + 1 \in Nat
    BY <1>1
  <2>2. a[counters[key] + 1] \in Answer
    BY <1>1, <2>1, EntryFacts
  <2>3. r \in Replies
    BY <2>1, <2>2 DEF Reply, Replies, Outcomes
  <2>4. replies' = Append(replies, r)
    BY DEF Answered
  <2> HIDE DEF r
  <2> QED
    BY <2>3, <2>4, SaidGrows
<1>8. Said(r) = <<key, "recorded", Head(Left(key))>>
  BY <1>2 DEF Said, Reply
<1>9. LeftMap[key] = Left(key)
  BY DEF LeftMap
<1> QED
  BY <1>2, <1>3, <1>5, <1>6, <1>7, <1>8, <1>9, CountedCall

LEMMA UsedUpMaps ==
    ASSUME Typed, NEW key \in Keys, Exhausted(key) \/ LastAgain(key), stub' = stub
    PROVE  /\ LeftMap[key] = <<>> /\ LastMap[key] # <<>>
           /\ SaidMap' = Append(SaidMap,
                 IF strict THEN <<key, "exhausted">>
                           ELSE <<key, "recorded", LastMap[key][1]>>)
           /\ LeftMap' = LeftMap /\ LastMap' = LastMap
<1> DEFINE a == stub[key].answers
<1>1. /\ HasList(key) /\ key \in DOMAIN stub /\ counters[key] >= Length(key)
      /\ counters[key] \in Nat /\ Length(key) \in Nat \ {0}
  BY GivenFacts DEF Exhausted, LastAgain, HasList
<1>2. Left(key) = <<>>
  BY <1>1, LeftFacts
<1>3. Given(key) = Length(key) /\ LastGiven(key) = <<a[Length(key)]>>
  BY <1>1 DEF Given, LastGiven
<1>4. LeftMap[key] = Left(key) /\ LastMap[key] = LastGiven(key)
  BY DEF LeftMap, LastMap
<1>5. CASE Exhausted(key)
  <2>1. Reply(key, "exhausted", NoFallback, counters[key]) \in Replies
    BY <1>1 DEF Reply, Replies, Outcomes
  <2>2. SaidMap' = Append(SaidMap, Said(Reply(key, "exhausted", NoFallback, counters[key])))
    BY <1>5, <2>1, SaidGrows DEF Exhausted
  <2>3. Said(Reply(key, "exhausted", NoFallback, counters[key])) = <<key, "exhausted">>
    BY DEF Said, Reply
  <2>4. LeftMap' = LeftMap /\ LastMap' = LastMap
    BY <1>5, UncountedCall DEF Exhausted
  <2> QED
    BY <1>2, <1>3, <1>4, <1>5, <2>2, <2>3, <2>4 DEF Exhausted
<1>6. CASE LastAgain(key)
  <2>1. Length(key) \in 1..Length(key)
    BY <1>1
  <2>2. a[Length(key)] \in Answer
    BY <1>1, <2>1, EntryFacts
  <2>3. Reply(key, "recorded", a[Length(key)], Length(key)) \in Replies
    BY <1>1, <2>2 DEF Reply, Replies, Outcomes
  <2>4. replies' = Append(replies, Reply(key, "recorded", a[Length(key)], Length(key)))
    BY <1>6 DEF LastAgain
  <2>5. SaidMap' = Append(SaidMap, Said(Reply(key, "recorded", a[Length(key)], Length(key))))
    BY <2>3, <2>4, SaidGrows
  <2>6. Said(Reply(key, "recorded", a[Length(key)], Length(key)))
          = <<key, "recorded", LastMap[key][1]>>
    BY <1>3, <1>4 DEF Said, Reply
  <2>7. counters' = [counters EXCEPT ![key] = @ + 1] /\ counters'[key] = counters[key] + 1
    BY <1>6 DEF LastAgain, Typed
  <2>8. Given(key)' = Given(key)
    BY <1>1, <1>3, <2>7 DEF Given, Length
  <2>9. Left(key)' = Left(key) /\ LastGiven(key)' = LastGiven(key)
    BY <2>8 DEF Left, LastGiven, HasList, Length
  <2>10. LeftMap' = LeftMap /\ LastMap' = LastMap
    BY <2>7, <2>9, CountedCall DEF LeftMap, LastMap
  <2> QED
    BY <1>2, <1>3, <1>4, <1>6, <2>5, <2>6, <2>10 DEF LastAgain
<1> QED
  BY <1>5, <1>6

LEMMA NothingRecordedMaps ==
    ASSUME Typed, NEW key \in Keys, SingleAnswer(key) \/ NoMapping(key), stub' = stub
    PROVE  /\ LeftMap[key] = <<>> /\ LastMap[key] = <<>>
           /\ \E outcome \in {"single", "fallback", "unknown"} :
                 SaidMap' = Append(SaidMap, <<key, outcome>>)
           /\ LeftMap' = LeftMap /\ LastMap' = LastMap
<1>1. ~HasList(key)
  BY DEF SingleAnswer, NoMapping, HasList
<1>2. LeftMap[key] = <<>> /\ LastMap[key] = <<>>
  BY <1>1 DEF LeftMap, LastMap, Left, LastGiven
<1>3. LeftMap' = LeftMap /\ LastMap' = LastMap
  BY UncountedCall DEF SingleAnswer, NoMapping
<1>4. PICK outcome \in {"single", "fallback", "unknown"},
           value \in Answer \cup {NoFallback} \cup {Fallback[k] : k \in Keys} :
           replies' = Append(replies, Reply(key, outcome, value, 0))
  <2>1. CASE SingleAnswer(key)
    <3>1. key \in DOMAIN stub /\ 1 \in 1..Length(key)
      BY <2>1, EntryFacts DEF SingleAnswer
    <3>2. stub[key].answers[1] \in Answer
      BY <3>1, EntryFacts
    <3> QED
      BY <2>1, <3>2 DEF SingleAnswer
  <2>2. CASE NoMapping(key)
    BY <2>2 DEF NoMapping
  <2> QED
    BY <2>1, <2>2
<1>5. Reply(key, outcome, value, 0) \in Replies
  BY <1>4 DEF Reply, Replies, Outcomes
<1>6. SaidMap' = Append(SaidMap, Said(Reply(key, outcome, value, 0)))
  BY <1>4, <1>5, SaidGrows
<1>7. Said(Reply(key, outcome, value, 0)) = <<key, outcome>>
  BY <1>4 DEF Said, Reply
<1> QED
  BY <1>2, <1>3, <1>4, <1>6, <1>7

LEMMA StepMaps ==
    ASSUME Typed, [Next]_serverVars
    PROVE  [R!RecordingNext]_(R!recordingVars)
<1>1. ASSUME NEW key \in Keys, Serve(key) PROVE R!RecordingNext
  <2>1. stub' = stub /\ strict' = strict
    BY <1>1 DEF Serve
  <2>2. CASE Answered(key)
    <3>1. R!NextAnswer(key)
      BY <2>1, <2>2, AnsweredMaps DEF R!NextAnswer, LeftMap, LastMap, SaidMap
    <3> QED
      BY <2>1, <3>1 DEF R!RecordingNext
  <2>3. CASE Exhausted(key) \/ LastAgain(key)
    <3>1. R!UsedUp(key)
      BY <2>1, <2>3, UsedUpMaps DEF R!UsedUp, LeftMap, LastMap, SaidMap
    <3> QED
      BY <2>1, <3>1 DEF R!RecordingNext
  <2>4. CASE SingleAnswer(key) \/ NoMapping(key)
    <3>1. R!NothingRecorded(key)
      BY <2>1, <2>4, NothingRecordedMaps DEF R!NothingRecorded, LeftMap, LastMap, SaidMap
    <3> QED
      BY <2>1, <3>1 DEF R!RecordingNext
  <2> QED
    BY <1>1, <2>2, <2>3, <2>4 DEF Serve
<1>2. CASE UNCHANGED serverVars
  <2>1. stub' = stub /\ strict' = strict /\ counters' = counters /\ replies' = replies
    BY <1>2 DEF serverVars
  <2>2. LeftMap' = LeftMap /\ LastMap' = LastMap
    BY <2>1, UncountedCall
  <2>3. SaidMap' = SaidMap
    BY <2>1 DEF SaidMap, Said
  <2> QED
    BY <2>1, <2>2, <2>3 DEF R!recordingVars, LeftMap, LastMap, SaidMap
<1> QED
  BY <1>1, <1>2 DEF Next, SkipLine

(* The stub server is a recording: its counters give every key its own     *)
(* answers in their order, none skipped and none twice, whatever else is   *)
(* asked in between, then the last one again or the strict error           *)
(* (_response_for_request), for any keys, answers and stubs.               *)
THEOREM ReplayImplementsRecording == Spec => ServesTheRecording
  BY AlwaysTyped, InitMaps, StepMaps, PTL DEF Spec, ServesTheRecording, R!RecordingSpec

(***************************************************************************)
(* The gate.                                                               *)
(***************************************************************************)

KeyAt(n) == KeyOf(baseline.timeline[n])

CallsOf(key) == {m \in DOMAIN calls : KeyAt(calls[m]) = key}
CallsUpTo(key, n) == {m \in 1..n : KeyAt(calls[m]) = key}

(* Types of the gate.                                                      *)
GateTyped ==
    /\ policy \in Policies /\ first \in Packs /\ baseline \in Packs
    /\ accepted \in Nat /\ accepted <= MaxAccepted
    /\ serving \in DOMAIN baseline.stubs \cup {NoServer}
    /\ strict \in BOOLEAN

(* Before a stub is served nothing has been called.                        *)
Idle ==
    /\ calls = <<>> /\ replies = <<>>
    /\ counters = [key \in Keys |-> 0]

(* While one is: a key was answered from its list no more often than it    *)
(* was called, and each reply is what the stub has for its call.           *)
ReplyFits(n) ==
    /\ replies[n].outcome = "exhausted" =>
          strict /\ Cardinality(CallsUpTo(KeyAt(calls[n]), n)) > Len(stub[KeyAt(calls[n])].answers)
    /\ replies[n].outcome \in {"unknown", "fallback"} => KeyAt(calls[n]) \notin DOMAIN stub

Serving ==
    /\ Typed
    /\ stub \in Files(baseline, serving)
    /\ calls \in Seq(RequestsTo(baseline, serving)) /\ Len(calls) = Len(replies)
    /\ \A key \in Keys : counters[key] <= Cardinality(CallsOf(key))
    /\ \A n \in 1..Len(replies) : ReplyFits(n)

IInv ==
    /\ GateTyped
    /\ serving = NoServer => Idle
    /\ serving # NoServer => Serving
    /\ AcceptedPacksDoNotCreep

-------------------------------------------------------------------------------
(* What the replay says of a pack.                                         *)

LEMMA PackFacts ==
    ASSUME NEW pack \in Packs
    PROVE  /\ Len(pack.timeline) \in Nat /\ DOMAIN pack.timeline = 1..Len(pack.timeline)
           /\ IsFiniteSet(DOMAIN pack.timeline)
           /\ NoServer \notin DOMAIN pack.stubs
           /\ \A s \in DOMAIN pack.stubs :
                 pack.stubs[s] \in Seq(Stubs) /\ Files(pack, s) \subseteq Stubs
           /\ \A s : \A n \in RequestsTo(pack, s) : KeyOf(pack.timeline[n]) \in Keys
  <1>1. pack.timeline \in Seq(Range(pack.timeline)) /\ NoServer \notin DOMAIN pack.stubs
    BY GateAssumption
  <1> DEFINE t == pack.timeline
  <1>2. Len(t) \in Nat /\ DOMAIN t = 1..Len(t)
    BY <1>1
  <1>3. IsFiniteSet(DOMAIN t)
    BY <1>2, FS_Interval
  <1>4. ASSUME NEW s \in DOMAIN pack.stubs
        PROVE  pack.stubs[s] \in Seq(Stubs) /\ Files(pack, s) \subseteq Stubs
    <2>1. pack.stubs[s] \in Seq(Stubs)
      BY GateAssumption
    <2> QED
      BY <2>1 DEF Files, Range
  <1>5. ASSUME NEW s, NEW n \in RequestsTo(pack, s) PROVE KeyOf(t[n]) \in Keys
    <2>1. t[n] \in Range(t) /\ t[n].type = "mcp.request" /\ t[n].method # NoMethod
      BY DEF RequestsTo, Range
    <2> QED
      BY <2>1, GateAssumption
  <1> QED
    BY <1>1, <1>2, <1>3, <1>4, <1>5

(* The servers and keys of the merged stubs are those of the files.        *)
LEMMA LoadedStubs ==
    ASSUME NEW pack \in Packs
    PROVE  /\ DOMAIN LoadStubs(pack) = DOMAIN pack.stubs
           /\ \A s \in DOMAIN pack.stubs : \A key :
                 key \in DOMAIN LoadStubs(pack)[s] <=>
                    \E file \in Files(pack, s) : key \in DOMAIN file
  BY DEF LoadStubs, Merged, Files

(* A method of a server stands in the replay as one without a mapping just *)
(* when no file of the server answers some request of it.                  *)
LEMMA MissingIsUnanswered ==
    ASSUME NEW pack \in Packs, NEW s \in DOMAIN pack.stubs, NEW method
    PROVE  Mismatch("No stub mapping", s, method) \in RunReplay(pack, TRUE)
             <=> \E n \in UnansweredAt(pack, s) : pack.timeline[n].method = method
  <1> DEFINE stubs == LoadStubs(pack)
             m == Mismatch("No stub mapping", s, method)
  <1>1. /\ DOMAIN stubs = DOMAIN pack.stubs /\ s # NoServer
        /\ \A key : key \in DOMAIN stubs[s] <=> \E file \in Files(pack, s) : key \in DOMAIN file
    BY LoadedStubs, PackFacts
  <1>2. ASSUME NEW n \in DOMAIN pack.timeline
        PROVE  m \in MismatchesOf(pack.timeline[n], stubs, TRUE)
                 <=> n \in UnansweredAt(pack, s) /\ pack.timeline[n].method = method
    <2> DEFINE event == pack.timeline[n]
               server == ServerOf(event, DOMAIN stubs)
    <2>1. n \in UnansweredAt(pack, s) <=>
            /\ event.type = "mcp.request" /\ event.method # NoMethod /\ server = s
            /\ KeyOf(event) \notin DOMAIN stubs[s]
      BY <1>1 DEF UnansweredAt, RequestsTo
    <2>2. m \in MismatchesOf(event, stubs, TRUE) <=>
            /\ event.type = "mcp.request" /\ event.method # NoMethod
            /\ server # NoServer /\ server \in DOMAIN stubs
            /\ KeyOf(event) \notin DOMAIN stubs[server]
            /\ m = Mismatch("No stub mapping", server, event.method)
      <3> HIDE DEF server, event, stubs
      <3> QED
        BY DEF MismatchesOf, Mismatch, HasStubMapping, server
    <2>3. m = Mismatch("No stub mapping", server, event.method)
             <=> server = s /\ event.method = method
      BY DEF Mismatch
    <2> HIDE DEF server, event, stubs, m
    <2> QED
      BY <1>1, <2>1, <2>2, <2>3 DEF event
  <1> QED
    BY <1>2 DEF RunReplay, UnansweredAt, RequestsTo

LEMMA MissingHasServer ==
    ASSUME NEW pack \in Packs, NEW s, NEW method,
           Mismatch("No stub mapping", s, method) \in RunReplay(pack, TRUE)
    PROVE  s \in DOMAIN pack.stubs
  <1> DEFINE stubs == LoadStubs(pack)
  <1>1. PICK n \in DOMAIN pack.timeline :
           Mismatch("No stub mapping", s, method) \in MismatchesOf(pack.timeline[n], stubs, TRUE)
    BY DEF RunReplay
  <1>2. DOMAIN stubs = DOMAIN pack.stubs
    BY LoadedStubs
  <1> HIDE DEF stubs
  <1>3. s \in DOMAIN stubs
    BY <1>1 DEF MismatchesOf, Mismatch
  <1> QED
    BY <1>2, <1>3

Types(pack) == {TypeOf(pack.timeline[n]) : n \in DOMAIN pack.timeline}

LEMMA CountType ==
    ASSUME NEW pack \in Packs, NEW type
    PROVE  Count(SummarizePack(pack), type) \in Nat
  <1>1. \A t : Cardinality({n \in DOMAIN pack.timeline : TypeOf(pack.timeline[n]) = t}) \in Nat
    <2> TAKE t
    <2>1. IsFiniteSet({n \in DOMAIN pack.timeline : TypeOf(pack.timeline[n]) = t})
      BY PackFacts, FS_Subset
    <2> QED
      BY <2>1, FS_CardinalityType
  <1> QED
    BY <1>1 DEF Count, SummarizePack

(* What a candidate that passes keeps of the baseline, rule by rule.       *)
LEMMA PassedCandidate ==
    ASSUME NEW candidate \in Packs, policy \in Policies, baseline \in Packs, Passes(candidate)
    PROVE  /\ policy.no_new_missing_stubs => Unanswered(candidate) \subseteq Unanswered(baseline)
           /\ policy.no_new_event_types =>
                 Types(candidate) \subseteq Types(baseline) \cup policy.allow_added_event_types
           /\ policy.no_new_tool_types => Types(candidate) \cap ToolTypes \subseteq Types(baseline)
           /\ \A t \in DOMAIN policy.max_added_events_by_type :
                 Count(SummarizePack(candidate), t) - Count(SummarizePack(baseline), t)
                    <= policy.max_added_events_by_type[t]
  <1> DEFINE old == SummarizePack(baseline)
             new == SummarizePack(candidate)
             limits == policy.max_added_events_by_type
  <1>1. /\ policy.no_new_missing_stubs => NewMissing(old, new) = {}
        /\ policy.no_new_event_types => AddedTypes(old, new) \subseteq policy.allow_added_event_types
        /\ policy.no_new_tool_types => AddedTypes(old, new) \cap ToolTypes = {}
        /\ \A t \in DOMAIN limits : ~(Count(new, t) - Count(old, t) > limits[t])
    <2>1. Violations(old, new) = {}
      BY DEF Passes
    <2> HIDE DEF old, new
    <2>2. policy.no_new_missing_stubs => NewMissing(old, new) = {}
      BY <2>1 DEF Violations
    <2>3. policy.no_new_event_types => AddedTypes(old, new) \subseteq policy.allow_added_event_types
      BY <2>1 DEF Violations
    <2>4. policy.no_new_tool_types => AddedTypes(old, new) \cap ToolTypes = {}
      BY <2>1 DEF Violations
    <2>5. \A t \in DOMAIN limits : ~(Count(new, t) - Count(old, t) > limits[t])
      BY <2>1 DEF Violations
    <2> QED
      BY <2>2, <2>3, <2>4, <2>5
  <1>2. DOMAIN old.event_counts = Types(baseline) /\ DOMAIN new.event_counts = Types(candidate)
    BY DEF SummarizePack, Types
  <1>3. \A s, method :
           Mismatch("No stub mapping", s, method) \in old.missing_stub_mappings
             <=> Mismatch("No stub mapping", s, method) \in RunReplay(baseline, TRUE)
    BY DEF SummarizePack, Mismatch
  <1>4. \A s, method :
           Mismatch("No stub mapping", s, method) \in new.missing_stub_mappings
             <=> Mismatch("No stub mapping", s, method) \in RunReplay(candidate, TRUE)
    BY DEF SummarizePack, Mismatch
  <1>5. ASSUME policy.no_new_missing_stubs
        PROVE  Unanswered(candidate) \subseteq Unanswered(baseline)
    <2> SUFFICES ASSUME NEW s \in DOMAIN candidate.stubs, NEW n \in UnansweredAt(candidate, s)
                 PROVE  <<s, candidate.timeline[n].method>> \in Unanswered(baseline)
      BY DEF Unanswered
    <2> DEFINE method == candidate.timeline[n].method
    <2>1. Mismatch("No stub mapping", s, method) \in RunReplay(candidate, TRUE)
      BY MissingIsUnanswered
    <2>2. Mismatch("No stub mapping", s, method) \in RunReplay(baseline, TRUE)
      BY <1>1, <1>3, <1>4, <1>5, <2>1 DEF NewMissing
    <2>3. s \in DOMAIN baseline.stubs
      BY <2>2, MissingHasServer
    <2>4. \E k \in UnansweredAt(baseline, s) : baseline.timeline[k].method = method
      BY <2>2, <2>3, MissingIsUnanswered
    <2> QED
      BY <2>3, <2>4 DEF Unanswered
  <1>6. policy.no_new_event_types =>
           Types(candidate) \subseteq Types(baseline) \cup policy.allow_added_event_types
    BY <1>1, <1>2 DEF AddedTypes
  <1>7. policy.no_new_tool_types => Types(candidate) \cap ToolTypes \subseteq Types(baseline)
    BY <1>1, <1>2 DEF AddedTypes
  <1>8. ASSUME NEW t \in DOMAIN limits
        PROVE  Count(new, t) - Count(old, t) <= limits[t]
    <2>1. Count(new, t) \in Nat /\ Count(old, t) \in Nat /\ limits[t] \in Int
      BY CountType, GateAssumption
    <2>2. ~(Count(new, t) - Count(old, t) > limits[t])
      BY <1>1
    <2> HIDE DEF old, new, limits
    <2> QED
      BY <2>1, <2>2
  <1> QED
    BY <1>5, <1>6, <1>7, <1>8

(* The gate's promise for all packs accepted so far is kept by one more.   *)
LEMMA NoCreep ==
    ASSUME GateTyped, AcceptedPacksDoNotCreep, NEW candidate \in Packs, Passes(candidate),
           baseline' = candidate, accepted' = accepted + 1, UNCHANGED <<policy, first>>
    PROVE  AcceptedPacksDoNotCreep'
  <1> DEFINE old == SummarizePack(first)
             mid == SummarizePack(baseline)
             new == SummarizePack(candidate)
             limits == policy.max_added_events_by_type
  <1>1. policy \in Policies /\ baseline \in Packs /\ first \in Packs
    BY DEF GateTyped
  <1>2. /\ policy.no_new_missing_stubs => Unanswered(candidate) \subseteq Unanswered(baseline)
        /\ policy.no_new_event_types =>
              Types(candidate) \subseteq Types(baseline) \cup policy.allow_added_event_types
        /\ policy.no_new_tool_types => Types(candidate) \cap ToolTypes \subseteq Types(baseline)
        /\ \A t \in DOMAIN limits : Count(new, t) - Count(mid, t) <= limits[t]
    BY <1>1, PassedCandidate
  <1>3. /\ policy.no_new_missing_stubs => Unanswered(baseline) \subseteq Unanswered(first)
        /\ policy.no_new_event_types =>
              Types(baseline) \subseteq Types(first) \cup policy.allow_added_event_types
        /\ policy.no_new_tool_types => Types(baseline) \cap ToolTypes \subseteq Types(first)
        /\ \A t \in DOMAIN limits : Count(mid, t) - Count(old, t) <= accepted * limits[t]
    BY DEF AcceptedPacksDoNotCreep, Types
  <1>4. ASSUME NEW t \in DOMAIN limits
        PROVE  Count(new, t) - Count(old, t) <= (accepted + 1) * limits[t]
    <2> DEFINE c == Count(new, t)
               b == Count(mid, t)
               a == Count(old, t)
               l == limits[t]
    <2>1. a \in Int /\ b \in Int /\ c \in Int /\ l \in Int /\ accepted \in Int
      BY <1>1, CountType, GateAssumption DEF GateTyped
    <2>2. c - b <= l /\ b - a <= accepted * l
      BY <1>2, <1>3
    <2> HIDE DEF a, b, c, l
    <2>3. (accepted + 1) * l = accepted * l + l /\ accepted * l \in Int
      BY <2>1
    <2>4. c - a <= accepted * l + l
      BY <2>1, <2>2, <2>3
    <2> QED
      BY <2>3, <2>4 DEF a, c, l
  <1>5. /\ policy.no_new_missing_stubs => Unanswered(candidate) \subseteq Unanswered(first)
        /\ policy.no_new_event_types =>
              Types(candidate) \subseteq Types(first) \cup policy.allow_added_event_types
        /\ policy.no_new_tool_types => Types(candidate) \cap ToolTypes \subseteq Types(first)
    BY <1>2, <1>3
  <1> QED
    BY <1>4, <1>5 DEF AcceptedPacksDoNotCreep, Types

-------------------------------------------------------------------------------
(* The inductive invariant.                                                *)

LEMMA InitIInvGate == GateInit => IInv
  <1> SUFFICES ASSUME GateInit
               PROVE  IInv
    OBVIOUS
  <1>1. GateTyped
    <2>1. MaxAccepted \in Nat
      BY GateAssumption
    <2>2. accepted = 0 /\ strict = FALSE
      BY DEF GateInit, Load
    <2>3. accepted \in Nat /\ accepted <= MaxAccepted
      BY <2>1, <2>2
    <2> QED
      BY <2>2, <2>3 DEF GateInit, GateTyped
  <1>2. serving = NoServer /\ Idle
    BY DEF GateInit, Idle, Load
  <1>3. AcceptedPacksDoNotCreep
    <2>1. baseline = first /\ accepted = 0 /\ first \in Packs /\ policy \in Policies
      BY DEF GateInit
    <2>2. ASSUME NEW t \in DOMAIN policy.max_added_events_by_type
          PROVE  Count(SummarizePack(baseline), t) - Count(SummarizePack(first), t)
                    <= accepted * policy.max_added_events_by_type[t]
      <3> DEFINE c == Count(SummarizePack(first), t)
                 l == policy.max_added_events_by_type[t]
      <3>1. c \in Nat /\ l \in Int
        BY <2>1, CountType, GateAssumption
      <3> HIDE DEF c, l
      <3>2. c - c <= 0 * l
        BY <3>1
      <3> QED
        BY <2>1, <3>2 DEF c, l
    <2> QED
      BY <2>1, <2>2 DEF AcceptedPacksDoNotCreep
  <1> QED
    BY <1>1, <1>2, <1>3 DEF IInv

LEMMA AcceptKeeps ==
    ASSUME IInv, NEW candidate \in Packs, Accept(candidate)
    PROVE  IInv'
  <1>1. /\ serving = NoServer /\ accepted < MaxAccepted /\ Passes(candidate)
        /\ baseline' = candidate /\ accepted' = accepted + 1
        /\ UNCHANGED <<stub, strict, counters, replies, policy, first, serving, calls>>
    BY DEF Accept, serverVars
  <1>2. AcceptedPacksDoNotCreep'
    BY <1>1, NoCreep DEF IInv
  <1>3. GateTyped'
    BY <1>1, GateAssumption DEF IInv, GateTyped
  <1>4. Idle' /\ serving' = NoServer
    BY <1>1 DEF IInv, Idle
  <1> QED
    BY <1>2, <1>3, <1>4 DEF IInv

LEMMA ServeStubKeeps ==
    ASSUME IInv, ServeStub
    PROVE  IInv'
  <1>1. PICK server \in DOMAIN baseline.stubs : \E file \in Range(baseline.stubs[server]) :
           serving' = server /\ stub' = file
    BY DEF ServeStub
  <1>2. /\ serving = NoServer /\ strict' \in BOOLEAN
        /\ UNCHANGED <<counters, replies, policy, first, baseline, accepted, calls>>
    BY DEF ServeStub
  <1>3. baseline \in Packs /\ server # NoServer /\ Files(baseline, server) \subseteq Stubs
    BY PackFacts DEF IInv, GateTyped
  <1>4. GateTyped' /\ AcceptedPacksDoNotCreep'
    BY <1>1, <1>2 DEF IInv, GateTyped, AcceptedPacksDoNotCreep
  <1>5. stub' \in Files(baseline, server) /\ stub' \in Stubs
    BY <1>1, <1>3 DEF Files
  <1>6. calls' = <<>> /\ replies' = <<>> /\ counters' = [key \in Keys |-> 0]
    BY <1>2 DEF IInv, Idle
  <1>7. Typed'
    BY <1>2, <1>5, <1>6 DEF Typed
  <1>8. Serving'
    <2>1. \A key : CallsOf(key)' = {}
      BY <1>6 DEF CallsOf
    <2>2. Cardinality({}) = 0
      BY FS_EmptySet
    <2>3. ASSUME NEW key \in Keys
          PROVE  counters'[key] <= Cardinality(CallsOf(key)')
      <3>1. Cardinality(CallsOf(key)') = 0
        BY <2>1, <2>2, Zenon
      <3>2. counters'[key] = 0
        BY <1>6
      <3> QED
        BY <3>1, <3>2
    <2> QED
      BY <1>1, <1>2, <1>5, <1>6, <1>7, <2>3 DEF Serving, Files
  <1> QED
    BY <1>1, <1>3, <1>4, <1>8 DEF IInv

(* The calls of a key are counted.                                         *)
LEMMA CallsFinite ==
    ASSUME Serving, NEW key
    PROVE  /\ Len(calls) \in Nat /\ DOMAIN calls = 1..Len(calls)
           /\ IsFiniteSet(CallsOf(key)) /\ Cardinality(CallsOf(key)) \in Nat
           /\ CallsOf(key) \subseteq 1..Len(calls)
  <1>1. Len(calls) \in Nat /\ DOMAIN calls = 1..Len(calls)
    BY DEF Serving
  <1>2. CallsOf(key) \subseteq 1..Len(calls)
    BY <1>1 DEF CallsOf
  <1>3. IsFiniteSet(CallsOf(key))
    <2>1. IsFiniteSet(1..Len(calls))
      BY <1>1, FS_Interval
    <2> QED
      BY <1>2, <2>1, FS_Subset
  <1> QED
    BY <1>1, <1>2, <1>3, FS_CardinalityType

LEMMA CallKeeps ==
    ASSUME IInv, CallAgain
    PROVE  IInv'
  <1>1. PICK n \in RequestsTo(baseline, serving) :
           Serve(KeyAt(n)) /\ calls' = Append(calls, n)
    BY DEF CallAgain, KeyAt
  <1>2. serving # NoServer /\ UNCHANGED <<policy, first, baseline, accepted, serving>>
    BY DEF CallAgain
  <1>3. Serving /\ GateTyped /\ baseline \in Packs
    BY <1>2 DEF IInv, GateTyped
  <1>4. UNCHANGED <<stub, strict>>
    BY <1>1 DEF Serve
  <1>5. GateTyped' /\ AcceptedPacksDoNotCreep'
    BY <1>2, <1>4 DEF IInv, GateTyped, AcceptedPacksDoNotCreep
  <1>6. PICK key \in Keys : key = KeyAt(n)
    BY <1>3, PackFacts DEF KeyAt
  <1>7. Typed'
    BY <1>1, <1>3, <1>6, ServeTyped DEF Serving
  <1>k. PICK k \in Nat : k = Len(calls)
    BY <1>3 DEF Serving
  <1>8. /\ k \in Nat /\ Len(replies) = k /\ calls' \in Seq(RequestsTo(baseline, serving))
        /\ Len(calls') = k + 1 /\ calls'[k + 1] = n
        /\ DOMAIN calls = 1..k /\ DOMAIN calls' = 1..(k + 1)
        /\ \A m \in 1..k : calls'[m] = calls[m]
    BY <1>1, <1>3, <1>k DEF Serving
  <1>9. \E reply : replies' = Append(replies, reply)
    BY <1>1 DEF Serve, Answered, Exhausted, LastAgain, SingleAnswer, NoMapping
  <1>10. Len(replies') = k + 1 /\ \A m \in 1..k : replies'[m] = replies[m]
    BY <1>3, <1>8, <1>9 DEF Serving, Typed
  <1>11. \A j : KeyAt(j)' = KeyAt(j)
    BY <1>2 DEF KeyAt
  <1>12. CallsOf(key)' = CallsOf(key) \cup {k + 1}
    BY <1>6, <1>8, <1>11 DEF CallsOf
  <1>13. \A other : other # key => CallsOf(other)' = CallsOf(other)
    BY <1>6, <1>8, <1>11 DEF CallsOf
  <1>14. Cardinality(CallsOf(key)') = Cardinality(CallsOf(key)) + 1
    <2>1. IsFiniteSet(CallsOf(key)) /\ CallsOf(key) \subseteq 1..k
      BY <1>3, <1>k, CallsFinite
    <2>2. k + 1 \notin CallsOf(key)
      BY <1>8, <2>1
    <2> QED
      BY <1>12, <2>1, <2>2, FS_AddElement
  <1>15. \A other \in Keys : counters'[other] <= Cardinality(CallsOf(other)')
    <2>1. /\ counters'[key] <= counters[key] + 1
          /\ \A other \in Keys : other # key => counters'[other] = counters[other]
      BY <1>1, <1>3, <1>6 DEF Serve, Answered, Exhausted, LastAgain, SingleAnswer, NoMapping,
                              Serving, Typed
    <2>2. /\ counters[key] \in Nat /\ counters'[key] \in Nat
          /\ Cardinality(CallsOf(key)) \in Nat /\ counters[key] <= Cardinality(CallsOf(key))
      BY <1>3, <1>7, CallsFinite DEF Serving, Typed
    <2>3. counters'[key] <= Cardinality(CallsOf(key)')
      BY <1>14, <2>1, <2>2
    <2> QED
      BY <1>3, <1>13, <2>1, <2>3 DEF Serving
  <1>16. ASSUME NEW m \in 1..k
         PROVE  ReplyFits(m)'
    <2>1. ReplyFits(m)
      BY <1>3, <1>8 DEF Serving
    <2>2. PICK place, same : place = calls[m] /\ same = KeyAt(place)
      OBVIOUS
    <2>3. CallsUpTo(same, m)' = CallsUpTo(same, m)
      BY <1>8, <1>11, <1>16 DEF CallsUpTo
    <2>4. calls'[m] = place /\ KeyAt(place)' = same /\ replies'[m] = replies[m]
      BY <1>8, <1>10, <1>11, <2>2
    <2> QED
      BY <1>4, <2>1, <2>2, <2>3, <2>4 DEF ReplyFits
  <1>17. ReplyFits(k + 1)'
    <2>1. CallsUpTo(key, k + 1)' = CallsOf(key)'
      BY <1>8 DEF CallsUpTo, CallsOf
    <2>2. calls'[k + 1] = n /\ KeyAt(n)' = key
      BY <1>6, <1>8, <1>11
    <2>3. PICK reply :
             /\ replies' = Append(replies, reply)
             /\ reply.outcome = "exhausted" =>
                   strict /\ HasList(key) /\ counters[key] >= Length(key)
             /\ reply.outcome \in {"unknown", "fallback"} => key \notin DOMAIN stub
      <3>1. CASE Answered(key)
        BY <3>1 DEF Answered, Reply
      <3>2. CASE Exhausted(key)
        BY <3>2 DEF Exhausted, Reply
      <3>3. CASE LastAgain(key)
        BY <3>3 DEF LastAgain, Reply
      <3>4. CASE SingleAnswer(key)
        BY <3>4 DEF SingleAnswer, Reply
      <3>5. CASE NoMapping(key)
        BY <3>5 DEF NoMapping, Reply
      <3> QED
        BY <1>1, <1>6, <3>1, <3>2, <3>3, <3>4, <3>5 DEF Serve
    <2>4. replies'[k + 1] = reply
      BY <1>3, <1>8, <2>3 DEF Serving, Typed
    <2>5. ASSUME reply.outcome = "exhausted"
          PROVE  Cardinality(CallsOf(key)') > Len(stub[key].answers)
      <3>1. HasList(key)
        BY <2>3, <2>5
      <3>2. Length(key) = Len(stub[key].answers) /\ Length(key) \in Nat
        BY <1>3, <3>1, EntryFacts DEF HasList, Serving
      <3>3. /\ counters[key] \in Nat /\ Cardinality(CallsOf(key)) \in Nat
            /\ counters[key] <= Cardinality(CallsOf(key)) /\ counters[key] >= Length(key)
        BY <1>3, <2>3, <2>5, CallsFinite DEF Serving, Typed
      <3> QED
        BY <1>14, <3>2, <3>3
    <2> QED
      BY <1>4, <2>1, <2>2, <2>3, <2>4, <2>5 DEF ReplyFits
  <1>18. /\ stub' \in Files(baseline, serving)'
         /\ calls' \in Seq(RequestsTo(baseline, serving)')
    <2>1. Files(baseline, serving)' = Files(baseline, serving)
      BY <1>2 DEF Files
    <2>2. RequestsTo(baseline, serving)' = RequestsTo(baseline, serving)
      BY <1>2 DEF RequestsTo
    <2> QED
      BY <1>3, <1>4, <1>8, <2>1, <2>2 DEF Serving
  <1>19. \A m \in 1..(k + 1) : ReplyFits(m)'
    BY <1>16, <1>17
  <1>20. Serving'
    BY <1>7, <1>8, <1>10, <1>15, <1>18, <1>19 DEF Serving
  <1> QED
    BY <1>2, <1>5, <1>20 DEF IInv

LEMMA StepIInvGate == IInv /\ [GateNext]_vars => IInv'
  <1> SUFFICES ASSUME IInv, [GateNext]_vars
               PROVE  IInv'
    OBVIOUS
  <1>1. CASE \E candidate \in Packs : Accept(candidate)
    BY <1>1, AcceptKeeps
  <1>2. CASE ServeStub
    BY <1>2, ServeStubKeeps
  <1>3. CASE CallAgain
    BY <1>3, CallKeeps
  <1>4. CASE UNCHANGED vars
    <2>1. UNCHANGED <<stub, strict, counters, replies, policy, first, baseline, accepted,
                      serving, calls>>
      BY <1>4 DEF vars, serverVars
    <2>2. GateTyped' /\ AcceptedPacksDoNotCreep'
      BY <2>1 DEF IInv, GateTyped, AcceptedPacksDoNotCreep
    <2>3. Idle' <=> Idle
      BY <2>1 DEF Idle
    <2>4. Serving' <=> Serving
      BY <2>1 DEF Serving, Typed, Files, RequestsTo, CallsOf, ReplyFits, CallsUpTo, KeyAt
    <2> QED
      BY <2>1, <2>2, <2>3, <2>4 DEF IInv
  <1> QED
    BY <1>1, <1>2, <1>3, <1>4 DEF GateNext

THEOREM GateInvariant == GateSpec => []IInv
  BY InitIInvGate, StepIInvGate, PTL DEF GateSpec

-------------------------------------------------------------------------------
(* What a reader should know.                                              *)

(* The variables of the gate have their types.                             *)
THEOREM GateTypeCorrect == GateSpec => []GateTypeOK
  <1>1. IInv => GateTypeOK
    BY DEF IInv, GateTyped, GateTypeOK
  <1> QED
    BY <1>1, GateInvariant, PTL

(* run_assert_gate compares one pack with the one before; what it checks   *)
(* of each step holds of the last pack against the first, however many     *)
(* candidates were accepted in between.                                    *)
THEOREM NoCreepingRegression == GateSpec => []AcceptedPacksDoNotCreep
  <1>1. IInv => AcceptedPacksDoNotCreep
    BY DEF IInv
  <1> QED
    BY <1>1, GateInvariant, PTL

(* What run_replay says of a pack is what stub serve does with the calls   *)
(* of its timeline.                                                        *)
THEOREM ReplayForetellsServing == GateSpec => []ReplayedCallsAreAnswered
  <1>1. IInv => ReplayedCallsAreAnswered
    <2> SUFFICES ASSUME IInv, serving # NoServer
                 PROVE  ReplayedCallsAreAnswered
      BY DEF ReplayedCallsAreAnswered
    <2>1. Serving /\ baseline \in Packs /\ serving \in DOMAIN baseline.stubs
      BY DEF IInv, GateTyped
    <2> DEFINE found == RunReplay(baseline, TRUE)
    <2>2. \A n \in RequestsTo(baseline, serving) :
             (\A file \in Files(baseline, serving) : KeyAt(n) \notin DOMAIN file) =>
                Mismatch("No stub mapping", serving, baseline.timeline[n].method) \in found
      <3> SUFFICES ASSUME NEW n \in UnansweredAt(baseline, serving)
                   PROVE  Mismatch("No stub mapping", serving, baseline.timeline[n].method) \in found
        BY DEF UnansweredAt, KeyAt
      <3> QED
        BY <2>1, MissingIsUnanswered
    <2>3. ASSUME Len(baseline.stubs[serving]) = 1
          PROVE  Files(baseline, serving) = {stub}
      <3> DEFINE files == baseline.stubs[serving]
      <3>1. files \in Seq(Stubs)
        BY <2>1, PackFacts
      <3>2. stub \in Range(files) /\ Len(files) = 1
        BY <2>1, <2>3 DEF Serving, Files
      <3> HIDE DEF files
      <3>3. Range(files) = {files[1]}
        BY <3>1, <3>2 DEF Range
      <3>4. Range(files) = {stub}
        BY <3>2, <3>3
      <3> QED
        BY <3>4 DEF Files, files
    <2>4. \A n \in DOMAIN replies : ReplyFits(n) /\ calls[n] \in RequestsTo(baseline, serving)
      BY <2>1 DEF Serving, Typed
    <2>5. found = {} => \A n \in RequestsTo(baseline, serving) :
             \E file \in Files(baseline, serving) : KeyAt(n) \in DOMAIN file
      BY <2>2
    <2>6. ASSUME Len(baseline.stubs[serving]) = 1, NEW n \in DOMAIN replies,
                 replies[n].outcome \in {"unknown", "fallback"}
          PROVE  Mismatch("No stub mapping", serving, baseline.timeline[calls[n]].method) \in found
      BY <2>2, <2>3, <2>4, <2>6 DEF ReplyFits
    <2>7. \A n \in DOMAIN replies : replies[n].outcome = "exhausted" =>
             /\ strict
             /\ Cardinality({m \in 1..n : KeyAt(calls[m]) = KeyAt(calls[n])})
                   > Len(stub[KeyAt(calls[n])].answers)
      BY <2>4 DEF ReplyFits, CallsUpTo
    <2> HIDE DEF found
    <2> QED
      BY <2>5, <2>6, <2>7 DEF ReplayedCallsAreAnswered, KeyAt, found
  <1> QED
    BY <1>1, GateInvariant, PTL
===============================================================================
