------------------------------- MODULE Recording -------------------------------
(***************************************************************************)
(* What a stub promises to the client that replays a session: the answers  *)
(* recorded for a key come out one by one in the order they were recorded, *)
(* none skipped and none twice, whatever other keys are asked in between;  *)
(* when they are used up, a strict replay says so and any other replay     *)
(* repeats the last one.                                                   *)
(***************************************************************************)
EXTENDS Naturals, Sequences

CONSTANTS
    RecordingKeys,
    RecordedAnswers

VARIABLES
    left,      \* left[key]: the recorded answers not given yet
    last,      \* last[key]: <<>>, or the last recorded answer given
    isStrict,
    said       \* the replies: <<key, outcome>> or <<key, "recorded", answer>>

recordingVars == <<left, last, isStrict, said>>

RecordingInit ==
    /\ left \in [RecordingKeys -> Seq(RecordedAnswers)]
    /\ last = [key \in RecordingKeys |-> <<>>]
    /\ isStrict \in BOOLEAN
    /\ said = <<>>

NextAnswer(key) ==
    /\ left[key] # <<>>
    /\ said' = Append(said, <<key, "recorded", Head(left[key])>>)
    /\ left' = [left EXCEPT ![key] = Tail(@)]
    /\ last' = [last EXCEPT ![key] = <<Head(left[key])>>]

UsedUp(key) ==
    /\ left[key] = <<>> /\ last[key] # <<>>
    /\ said' = Append(said,
          IF isStrict THEN <<key, "exhausted">> ELSE <<key, "recorded", last[key][1]>>)
    /\ UNCHANGED <<left, last>>

NothingRecorded(key) ==
    /\ left[key] = <<>> /\ last[key] = <<>>
    /\ \E outcome \in {"single", "fallback", "unknown"} :
          said' = Append(said, <<key, outcome>>)
    /\ UNCHANGED <<left, last>>

RecordingNext ==
    /\ \E key \in RecordingKeys :
          NextAnswer(key) \/ UsedUp(key) \/ NothingRecorded(key)
    /\ UNCHANGED isStrict

RecordingSpec == RecordingInit /\ [][RecordingNext]_recordingVars
===============================================================================
