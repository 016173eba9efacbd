--------------------------- MODULE StdioWrap_proofs ---------------------------
(***************************************************************************)
(* Proofs about StdioWrap, for any client, any server and any pipe size.   *)
(***************************************************************************)
EXTENDS StdioWrap, TLAPS

AllTexts == ClientTexts \cup ServerTexts

(* TypeOK without the order of the counters. *)
Typing ==
    /\ sent \in [Direction -> Seq(AllTexts)]
    /\ read \in [Direction -> Nat] /\ fwd \in [Direction -> Nat]
    /\ recv \in [Direction -> Nat] /\ item \in [Direction -> Nat \ {0}]
    /\ pc \in [Direction -> ThreadStates]
    /\ lock \in Direction \cup {"free"}
    /\ file \in Seq(Fragment)
    /\ clientClosed \in BOOLEAN /\ clientGone \in BOOLEAN
    /\ stdinClosed \in BOOLEAN /\ alive \in BOOLEAN
    /\ errSent \in Nat /\ errRead \in Nat /\ errPc \in {"read", "done"}
    /\ main \in Threads \cup {"wait", "exited"} /\ timedOut \in SUBSET Threads

(* How far each direction is, by the place of its thread: a line is in the *)
(* thread's hands from readline until its last newline is written.         *)
Counters ==
    \A d \in Direction :
        /\ recv[d] <= fwd[d] /\ read[d] <= Len(sent[d])
        /\ pc[d] \in {"read", "capture", "append", "newline", "done"} => fwd[d] = read[d]
        /\ pc[d] = "write" => fwd[d] = read[d] - 1
        /\ pc[d] = "dead" => fwd[d] \in {read[d] - 1, read[d]}
        /\ pc[d] \notin {"read", "done"} => read[d] >= 1

Appending(d) == pc[d] \in {"append", "newline"}

LockHeld ==
    \A d \in Direction :
        /\ lock = d <=> Appending(d)
        /\ Appending(d) => item[d] \in DOMAIN Messages(d, read[d])

Control == Typing /\ Counters /\ LockHeld

LEMMA ParseFacts ==
    ASSUME Typing, Counters, NEW d \in Direction, NEW n \in 1..Len(sent[d])
    PROVE  /\ sent[d][n] \in AllTexts
           /\ Len(Messages(d, n)) \in Nat
           /\ DOMAIN Messages(d, n) = 1..Len(Messages(d, n))
BY ParseAssumption DEF Typing, AllTexts, Messages

LEMMA ControlInit == Init => Control
<1> SUFFICES ASSUME Init PROVE Control
  OBVIOUS
<1>1. Typing
  <2>1. <<>> \in Seq(AllTexts) /\ <<>> \in Seq(Fragment)
    OBVIOUS
  <2>2. /\ sent \in [Direction -> Seq(AllTexts)]
        /\ file \in Seq(Fragment)
    BY <2>1 DEF Init
  <2>3. /\ read \in [Direction -> Nat] /\ fwd \in [Direction -> Nat]
        /\ recv \in [Direction -> Nat] /\ item \in [Direction -> Nat \ {0}]
        /\ pc \in [Direction -> ThreadStates]
    BY DEF Init, ThreadStates
  <2> QED
    BY <2>2, <2>3 DEF Init, Typing, Threads
<1>2. Counters /\ LockHeld
  BY DEF Init, Counters, LockHeld, Appending, Direction, C2S, S2C
<1> QED
  BY <1>1, <1>2 DEF Control

(* The steps of the peers and of the main thread. *)
PeerStep ==
    \/ ClientWrite \/ ClientClose \/ ClientHangUp
    \/ ServerWrite \/ ServerWriteStderr \/ ServerExit \/ ServerDies
    \/ \E d \in Direction : Receive(d)
    \/ ForwardStderr \/ WaitReturns \/ Join
    \/ UNCHANGED vars

LEMMA StepCases ==
    ASSUME [Next]_vars
    PROVE  PeerStep \/ \E d \in Direction : Forward(d)
BY DEF Next, PeerStep, Terminated

(* A step of a peer leaves the forwarding threads and the transcript alone *)
(* and only ever extends what was written.                                 *)
LEMMA PeerFrame ==
    ASSUME Typing, PeerStep
    PROVE  /\ UNCHANGED threadVars
           /\ \/ UNCHANGED sent
              \/ \E d \in Direction, t \in AllTexts : Write(d, t)
           /\ UNCHANGED recv \/ \E d \in Direction : Receive(d)
<1>1. CASE ClientWrite \/ ServerWrite
  <2>1. \E d \in Direction, t \in AllTexts : Write(d, t)
    BY <1>1 DEF ClientWrite, ServerWrite, AllTexts, Direction
  <2> QED
    BY <2>1 DEF Write
<1>2. CASE ClientClose \/ ClientHangUp \/ ServerExit \/ ServerDies
  BY <1>2 DEF ClientClose, ClientHangUp, ServerExit, ServerDies
<1>3. CASE ServerWriteStderr \/ ForwardStderr \/ UNCHANGED vars
  BY <1>3 DEF ServerWriteStderr, ForwardStderr, vars
<1>4. CASE \E d \in Direction : Receive(d)
  BY <1>4 DEF Receive
<1>5. CASE WaitReturns \/ Join
  BY <1>5 DEF WaitReturns, Join, JoinReturns, JoinTimesOut
<1> QED
  BY <1>1, <1>2, <1>3, <1>4, <1>5 DEF PeerStep

LEMMA WriteExtends ==
    ASSUME Typing, NEW d \in Direction, NEW t \in AllTexts, Write(d, t)
    PROVE  /\ sent' \in [Direction -> Seq(AllTexts)]
           /\ \A e \in Direction :
                /\ Len(sent[e]) <= Len(sent'[e])
                /\ \A n \in 1..Len(sent[e]) : sent'[e][n] = sent[e][n]
<1>1. sent' = [sent EXCEPT ![d] = Append(sent[d], t)]
  BY DEF Write
<1>2. sent[d] \in Seq(AllTexts)
  BY DEF Typing
<1>3. /\ Append(sent[d], t) \in Seq(AllTexts)
      /\ Len(Append(sent[d], t)) = Len(sent[d]) + 1
      /\ \A n \in 1..Len(sent[d]) : Append(sent[d], t)[n] = sent[d][n]
  BY <1>2
<1> QED
  BY <1>1, <1>3 DEF Typing

(* What was written stays written, line by line.                           *)
SentGrows ==
    \A d \in Direction :
        /\ Len(sent[d]) <= Len(sent'[d])
        /\ \A n \in 1..Len(sent[d]) : sent'[d][n] = sent[d][n]

LEMMA PeerExtends ==
    ASSUME Typing, PeerStep
    PROVE  sent' \in [Direction -> Seq(AllTexts)] /\ SentGrows
<1>1. CASE UNCHANGED sent
  BY <1>1 DEF Typing, SentGrows
<1>2. CASE \E d \in Direction, t \in AllTexts : Write(d, t)
  BY <1>2, WriteExtends DEF SentGrows
<1> QED
  BY <1>1, <1>2, PeerFrame

LEMMA PeerTyping ==
    ASSUME Typing, PeerStep
    PROVE  Typing'
<1>1. sent' \in [Direction -> Seq(AllTexts)]
  BY PeerExtends
<1>2. UNCHANGED threadVars
  BY PeerFrame
<1>3. recv' \in [Direction -> Nat]
  <2>1. CASE UNCHANGED recv
    BY <2>1 DEF Typing
  <2>2. CASE \E d \in Direction : Receive(d)
    <3> PICK d \in Direction : Receive(d)
      BY <2>2
    <3>1. recv' = [recv EXCEPT ![d] = recv[d] + 1]
      BY DEF Receive
    <3> QED
      BY <3>1 DEF Typing
  <2> QED
    BY <2>1, <2>2, PeerFrame
<1>4. /\ clientClosed' \in BOOLEAN /\ clientGone' \in BOOLEAN /\ alive' \in BOOLEAN
      /\ errSent' \in Nat /\ errRead' \in Nat /\ errPc' \in {"read", "done"}
      /\ main' \in Threads \cup {"wait", "exited"} /\ timedOut' \in SUBSET Threads
  <2> USE DEF Typing, clientVars, errVars, mainVars
  <2>1. CASE ClientWrite \/ ServerWrite
    BY <2>1 DEF ClientWrite, ServerWrite, Write
  <2>2. CASE ClientClose \/ ClientHangUp \/ ServerExit \/ ServerDies
    BY <2>2 DEF ClientClose, ClientHangUp, ServerExit, ServerDies
  <2>3. CASE ServerWriteStderr \/ ForwardStderr \/ UNCHANGED vars
    BY <2>3 DEF ServerWriteStderr, ForwardStderr, vars
  <2>4. CASE \E d \in Direction : Receive(d)
    BY <2>4 DEF Receive
  <2>5. CASE WaitReturns
    BY <2>5 DEF WaitReturns, Threads, Direction
  <2>6. CASE Join
    BY <2>6 DEF Join, JoinReturns, JoinTimesOut, AfterJoin, Threads, Direction
  <2> QED
    BY <2>1, <2>2, <2>3, <2>4, <2>5, <2>6 DEF PeerStep
<1> QED
  BY <1>1, <1>2, <1>3, <1>4 DEF Typing, threadVars

LEMMA PeerControl ==
    ASSUME Control, PeerStep
    PROVE  Control'
<1> USE DEF Control
<1>1. Typing' /\ SentGrows
  BY PeerTyping, PeerExtends
<1>2. UNCHANGED <<read, fwd, pc, item, lock>>
  BY PeerFrame DEF threadVars
<1>3. ASSUME NEW e \in Direction PROVE recv'[e] <= fwd'[e]
  <2>1. CASE UNCHANGED recv
    BY <2>1, <1>2 DEF Counters
  <2>2. CASE \E d \in Direction : Receive(d)
    <3> PICK d \in Direction : Receive(d)
      BY <2>2
    <3>1. recv' = [recv EXCEPT ![d] = recv[d] + 1] /\ recv[d] < fwd[d]
      BY DEF Receive
    <3> QED
      BY <3>1, <1>2 DEF Typing, Counters
  <2> QED
    BY <2>1, <2>2, PeerFrame
<1>4. Counters'
  BY <1>1, <1>2, <1>3 DEF Counters, SentGrows, Typing
<1>5. LockHeld'
  <2>1. ASSUME NEW e \in Direction, Appending(e)
        PROVE  Messages(e, read[e])' = Messages(e, read[e])
    <3>0. read[e] \in Nat /\ Len(sent[e]) \in Nat
      BY DEF Typing
    <3>1. read[e] \in 1..Len(sent[e])
      BY <2>1, <3>0 DEF Counters, Appending
    <3> QED
      BY <1>1, <1>2, <3>1 DEF SentGrows, Messages
  <2> QED
    BY <1>2, <2>1 DEF LockHeld, Appending
<1> QED
  BY <1>1, <1>4, <1>5

(***************************************************************************)
(* A step of a forwarding thread.                                          *)
(***************************************************************************)
LEMMA ForwardFrame ==
    ASSUME NEW d \in Direction, Forward(d)
    PROVE  UNCHANGED <<sent, recv, clientVars, alive, errVars, mainVars>>
BY DEF Forward, Readline, ReadEof, WriteLine, WriteRaises, CaptureRaises,
       CaptureNothing, AcquireLock, AppendBody, AppendNewline

LEMMA FragmentType ==
    ASSUME Typing, NEW d \in Direction, NEW part \in {"body", "nl"}
    PROVE  Current(d, part) \in Fragment
BY DEF Typing, Current, Fragment

LEMMA ForwardTyping ==
    ASSUME Control, NEW d \in Direction, Forward(d)
    PROVE  Typing'
<1> USE DEF Control
<1>1. UNCHANGED <<sent, recv, clientVars, alive, errVars, mainVars>>
  BY ForwardFrame
<1>2. /\ read' \in [Direction -> Nat] /\ fwd' \in [Direction -> Nat]
      /\ item' \in [Direction -> Nat \ {0}]
      /\ pc' \in [Direction -> ThreadStates]
      /\ lock' \in Direction \cup {"free"}
      /\ file' \in Seq(Fragment) /\ stdinClosed' \in BOOLEAN
  <2> USE DEF Typing
  <2>1. CASE Readline(d)
    BY <2>1 DEF Readline, ThreadStates
  <2>2. CASE ReadEof(d)
    BY <2>2 DEF ReadEof, ThreadStates
  <2>3. CASE WriteLine(d)
    BY <2>3 DEF WriteLine, ThreadStates
  <2>4. CASE WriteRaises(d) \/ CaptureRaises(d) \/ CaptureNothing(d)
    BY <2>4 DEF WriteRaises, CaptureRaises, CaptureNothing, ThreadStates
  <2>5. CASE AcquireLock(d)
    BY <2>5 DEF AcquireLock, ThreadStates
  <2>6. CASE AppendBody(d)
    BY <2>6, FragmentType DEF AppendBody, ThreadStates
  <2>7. CASE AppendNewline(d)
    <3>1. file' \in Seq(Fragment)
      BY <2>7, FragmentType DEF AppendNewline
    <3>2. CASE item[d] < Len(Messages(d, read[d]))
      <4>1. item[d] + 1 \in Nat \ {0}
        OBVIOUS
      <4>2. item' = [item EXCEPT ![d] = item[d] + 1]
        BY <2>7, <3>2 DEF AppendNewline
      <4>3. item' \in [Direction -> Nat \ {0}]
        BY <4>1, <4>2
      <4>4. /\ UNCHANGED <<lock, read, fwd, stdinClosed>>
            /\ pc' = [pc EXCEPT ![d] = "append"]
        BY <2>7, <3>2 DEF AppendNewline
      <4> QED
        BY <3>1, <4>3, <4>4 DEF ThreadStates
    <3>3. CASE ~(item[d] < Len(Messages(d, read[d])))
      BY <2>7, <3>1, <3>3 DEF AppendNewline, ThreadStates
    <3> QED
      BY <3>2, <3>3
  <2> QED
    BY <2>1, <2>2, <2>3, <2>4, <2>5, <2>6, <2>7 DEF Forward
<1> QED
  BY <1>1, <1>2 DEF Typing, clientVars, errVars, mainVars

LEMMA ForwardCounters ==
    ASSUME Control, NEW d \in Direction, Forward(d)
    PROVE  Counters'
<1> USE DEF Control
<1>1. UNCHANGED <<sent, recv>>
  BY ForwardFrame
<1> USE <1>1 DEF Typing, Counters
<1>2. CASE Readline(d)
  BY <1>2 DEF Readline, InPipe
<1>3. CASE ReadEof(d)
  BY <1>3 DEF ReadEof
<1>4. CASE WriteLine(d)
  BY <1>4 DEF WriteLine
<1>5. CASE WriteRaises(d)
  BY <1>5 DEF WriteRaises
<1>6. CASE CaptureRaises(d)
  BY <1>6 DEF CaptureRaises
<1>7. CASE CaptureNothing(d)
  BY <1>7 DEF CaptureNothing
<1>8. CASE AcquireLock(d)
  BY <1>8 DEF AcquireLock
<1>9. CASE AppendBody(d)
  BY <1>9 DEF AppendBody
<1>10. CASE AppendNewline(d)
  BY <1>10 DEF AppendNewline
<1> QED
  BY <1>2, <1>3, <1>4, <1>5, <1>6, <1>7, <1>8, <1>9, <1>10 DEF Forward

LEMMA ForwardLock ==
    ASSUME Control, NEW d \in Direction, Forward(d)
    PROVE  LockHeld'
<1> USE DEF Control
<1>1. UNCHANGED sent
  BY ForwardFrame
<1>2. ASSUME NEW e \in Direction, Appending(e)
      PROVE  DOMAIN Messages(e, read[e]) = 1..Len(Messages(e, read[e]))
  BY <1>2, ParseFacts DEF Typing, Counters, Appending
<1> USE <1>1 DEF Typing, LockHeld, Appending, Messages
<1>3. CASE Readline(d) \/ ReadEof(d) \/ WriteLine(d) \/ WriteRaises(d)
  BY <1>3 DEF Readline, ReadEof, WriteLine, WriteRaises, Direction
<1>4. CASE CaptureRaises(d) \/ CaptureNothing(d)
  BY <1>4 DEF CaptureRaises, CaptureNothing, Direction
<1>5. CASE AcquireLock(d)
  <2>1. DOMAIN Messages(d, read[d]) = 1..Len(Messages(d, read[d]))
        /\ Len(Messages(d, read[d])) \in Nat
    BY <1>5, ParseFacts DEF AcquireLock, Counters
  <2> QED
    BY <1>5, <2>1 DEF AcquireLock, Direction, C2S, S2C
<1>6. CASE AppendBody(d)
  BY <1>6 DEF AppendBody
<1>7. CASE AppendNewline(d)
  <2>1. DOMAIN Messages(d, read[d]) = 1..Len(Messages(d, read[d]))
        /\ Len(Messages(d, read[d])) \in Nat
    BY <1>7, ParseFacts DEF AppendNewline, Counters
  <2> QED
    BY <1>7, <2>1 DEF AppendNewline, Direction, C2S, S2C
<1> QED
  BY <1>3, <1>4, <1>5, <1>6, <1>7 DEF Forward

LEMMA ControlStep == Control /\ [Next]_vars => Control'
<1> SUFFICES ASSUME Control, [Next]_vars PROVE Control'
  OBVIOUS
<1>1. CASE PeerStep
  BY <1>1, PeerControl
<1>2. CASE \E d \in Direction : Forward(d)
  BY <1>2, ForwardTyping, ForwardCounters, ForwardLock DEF Control
<1> QED
  BY <1>1, <1>2, StepCases

(* The types and the order of the counters, in every reachable state.      *)
THEOREM TypeCorrect == Spec => []TypeOK
<1>1. ASSUME Control, NEW d \in Direction
      PROVE  recv[d] <= fwd[d] /\ fwd[d] <= read[d] /\ read[d] <= Len(sent[d])
  <2>1. /\ recv[d] \in Nat /\ fwd[d] \in Nat /\ read[d] \in Nat
        /\ pc[d] \in ThreadStates
    BY <1>1 DEF Control, Typing
  <2> QED
    BY <1>1, <2>1 DEF Control, Counters, ThreadStates
<1>2. Control => TypeOK
  BY <1>1 DEF Control, Typing, TypeOK, AllTexts
<1> QED
  BY <1>2, ControlInit, ControlStep, PTL DEF Spec

(***************************************************************************)
(* The transcript.                                                         *)
(***************************************************************************)
(* An entry comes from a line that was read; of the line in the thread's   *)
(* hands there are only the messages already written.                      *)
EntryOK(f) ==
    /\ f.line \in 1..read[f.dir]
    /\ (f.line = read[f.dir] /\ pc[f.dir] \notin {"read", "done"}) =>
          /\ Appending(f.dir)
          /\ \/ f.item < item[f.dir]
             \/ f.item = item[f.dir] /\ pc[f.dir] = "newline"

EntriesFromLines == \A i \in DOMAIN file : EntryOK(file[i])

(* The lines of d that the thread is done with.                            *)
Handled(d, n) ==
    /\ n \in 1..read[d]
    /\ n = read[d] => pc[d] \in {"read", "done"}

LinesCaptured ==
    \A d \in Direction :
        /\ \A n \in 1..read[d] : Handled(d, n) =>
              \A k \in DOMAIN Messages(d, n) : InTranscript(d, n, k)
        /\ Appending(d) =>
              \A k \in 1..(item[d] - 1) : InTranscript(d, read[d], k)
        /\ pc[d] = "newline" => InTranscript(d, read[d], item[d])

(* What the last fragment of the file is.                                  *)
LastFragment ==
    /\ \A d \in Direction :
          pc[d] = "newline" => Len(file) > 0 /\ file[Len(file)] = Current(d, "body")
    /\ (\A d \in Direction : pc[d] # "newline") =>
          (Len(file) > 0 => file[Len(file)].part = "nl")

(* While a batch is being written its messages are the last of the file.   *)
BatchIsLast ==
    \A d \in Direction : Appending(d) =>
        \A i \in DOMAIN file :
            (file[i].dir = d /\ file[i].line = read[d]) =>
                file[Len(file)].dir = d /\ file[Len(file)].line = read[d]

FileInv ==
    /\ EntriesFromLines /\ LinesCaptured /\ LastFragment /\ BatchIsLast
    /\ NoTornLine /\ TranscriptInWireOrder /\ BatchStaysTogether

IInv == Control /\ FileInv

LEMMA InvInit == Init => IInv
<1> SUFFICES ASSUME Init PROVE FileInv
  BY ControlInit DEF IInv
<1>1. DOMAIN file = {} /\ Len(file) = 0
  BY DEF Init
<1>2. \A d \in Direction : read[d] = 0 /\ pc[d] = "read"
  BY DEF Init
<1>3. Bodies = {}
  BY <1>1 DEF Bodies
<1>4. EntriesFromLines /\ LinesCaptured /\ LastFragment /\ BatchIsLast
  BY <1>1, <1>2 DEF EntriesFromLines, LinesCaptured, LastFragment, BatchIsLast, Appending
<1>5. NoTornLine /\ TranscriptInWireOrder /\ BatchStaysTogether
  BY <1>1, <1>3 DEF NoTornLine, TranscriptInWireOrder, BatchStaysTogether
<1> QED
  BY <1>4, <1>5 DEF FileInv

(* The messages of a line that was read never change.                      *)
LEMMA MessagesKept ==
    ASSUME Control, SentGrows, NEW d \in Direction, NEW n \in 1..read[d]
    PROVE  Messages(d, n)' = Messages(d, n)
<1>1. n \in 1..Len(sent[d])
  BY DEF Control, Typing, Counters
<1> QED
  BY <1>1 DEF SentGrows, Messages

LEMMA PeerFile ==
    ASSUME IInv, PeerStep
    PROVE  FileInv'
<1>1. UNCHANGED <<read, pc, item, file>>
  BY PeerFrame DEF IInv, Control, threadVars
<1>2. SentGrows
  BY PeerExtends DEF IInv, Control
<1> USE <1>1 DEF IInv, FileInv
<1>3. EntriesFromLines'
  BY DEF EntriesFromLines, EntryOK, Appending
<1>4. LinesCaptured'
  <2> SUFFICES ASSUME NEW d \in Direction
               PROVE  /\ \A n \in 1..read[d] : Handled(d, n) =>
                            \A k \in DOMAIN Messages(d, n)' : InTranscript(d, n, k)
                      /\ Appending(d) =>
                            \A k \in 1..(item[d] - 1) : InTranscript(d, read[d], k)
                      /\ pc[d] = "newline" => InTranscript(d, read[d], item[d])
    BY DEF LinesCaptured, Handled, Appending, InTranscript
  <2> QED
    BY <1>2, MessagesKept DEF LinesCaptured
<1>5. LastFragment' /\ BatchIsLast'
  BY DEF LastFragment, BatchIsLast, Current, Appending
<1>6. NoTornLine' /\ TranscriptInWireOrder' /\ BatchStaysTogether'
  BY DEF NoTornLine, TranscriptInWireOrder, BatchStaysTogether, Bodies
<1> QED
  BY <1>3, <1>4, <1>5, <1>6

(* The steps of a forwarding thread that leave the transcript alone.       *)
Silent(d) ==
    \/ Readline(d) \/ ReadEof(d) \/ WriteLine(d) \/ WriteRaises(d)
    \/ CaptureRaises(d) \/ CaptureNothing(d) \/ AcquireLock(d)

LEMMA SilentFile ==
    ASSUME IInv, NEW d \in Direction, Silent(d)
    PROVE  FileInv'
<1> USE DEF IInv, Control, FileInv
<1>1. UNCHANGED <<sent, file>>
  BY DEF Silent, Readline, ReadEof, WriteLine, WriteRaises, CaptureRaises,
         CaptureNothing, AcquireLock
<1>2. /\ pc' \in [Direction -> ThreadStates]
      /\ pc[d] \in {"read", "write", "capture"}
      /\ \A e \in Direction : e # d =>
            pc'[e] = pc[e] /\ read'[e] = read[e] /\ item'[e] = item[e]
  BY DEF Silent, Readline, ReadEof, WriteLine, WriteRaises, CaptureRaises,
         CaptureNothing, AcquireLock, Typing, ThreadStates
(* What the thread's place was and is, and how the line count follows.     *)
<1>3. \/ pc[d] = "read" /\ pc'[d] = "write" /\ read'[d] = read[d] + 1
      \/ pc[d] = "read" /\ pc'[d] = "done" /\ read'[d] = read[d]
      \/ pc[d] = "write" /\ pc'[d] \in {"capture", "dead"} /\ read'[d] = read[d]
      \/ pc[d] = "capture" /\ pc'[d] = "dead" /\ read'[d] = read[d]
      \/ /\ pc[d] = "capture" /\ pc'[d] = "read" /\ read'[d] = read[d]
         /\ Len(Messages(d, read[d])) = 0
      \/ pc[d] = "capture" /\ pc'[d] = "append" /\ read'[d] = read[d] /\ item'[d] = 1
  BY DEF Silent, Readline, ReadEof, WriteLine, WriteRaises, CaptureRaises,
         CaptureNothing, AcquireLock, Typing
<1>4. \A e \in Direction : read[e] \in Nat
  BY DEF Typing
<1>5. EntriesFromLines'
  <2>1. ASSUME NEW f \in Fragment, EntryOK(f)
        PROVE  EntryOK(f)'
    <3>1. CASE f.dir # d
      BY <1>2, <2>1, <3>1 DEF EntryOK, Appending, Fragment
    <3>2. CASE f.dir = d
      BY <1>3, <1>4, <2>1, <3>2 DEF EntryOK, Appending
    <3> QED
      BY <3>1, <3>2
  <2>2. \A i \in DOMAIN file : file[i] \in Fragment
    BY DEF Typing
  <2> QED
    BY <1>1, <2>1, <2>2 DEF EntriesFromLines
<1>6. LinesCaptured'
  <2> SUFFICES ASSUME NEW e \in Direction
               PROVE  /\ \A n \in 1..read'[e] : Handled(e, n)' =>
                            \A k \in DOMAIN Messages(e, n) : InTranscript(e, n, k)
                      /\ Appending(e)' =>
                            \A k \in 1..(item'[e] - 1) : InTranscript(e, read'[e], k)
                      /\ pc'[e] = "newline" => InTranscript(e, read'[e], item'[e])
    BY <1>1 DEF LinesCaptured, InTranscript, Messages
  <2>1. CASE e # d
    BY <1>2, <2>1 DEF LinesCaptured, Handled, Appending
  <2>2. CASE e = d
    <3>1. ASSUME NEW n \in 1..read'[d], Handled(d, n)'
          PROVE  \A k \in DOMAIN Messages(d, n) : InTranscript(d, n, k)
      <4>1. CASE Handled(d, n)
        BY <4>1, <1>3, <1>4 DEF LinesCaptured, Handled
      <4>2. CASE ~Handled(d, n)
        <5>1. n = read[d] /\ n >= 1 /\ Len(Messages(d, n)) = 0
          BY <3>1, <4>2, <1>3, <1>4 DEF Handled
        <5>2. DOMAIN Messages(d, n) = 1..Len(Messages(d, n))
          BY <5>1, ParseFacts DEF Counters, Typing
        <5> QED
          BY <5>1, <5>2
      <4> QED
        BY <4>1, <4>2
    <3> QED
      BY <2>2, <3>1, <1>3 DEF Appending
  <2> QED
    BY <2>1, <2>2
<1>7. LastFragment'
  BY <1>1, <1>2, <1>3 DEF LastFragment, Current
<1>8. BatchIsLast'
  <2> SUFFICES ASSUME NEW e \in Direction, Appending(e)', NEW i \in DOMAIN file,
                      file[i].dir = e, file[i].line = read'[e]
               PROVE  file[Len(file)].dir = e /\ file[Len(file)].line = read'[e]
    BY <1>1 DEF BatchIsLast
  <2>1. CASE e # d
    BY <1>2, <2>1 DEF BatchIsLast, Appending
  <2>2. CASE e = d
    BY <1>3, <2>2 DEF EntriesFromLines, EntryOK, Appending
  <2> QED
    BY <2>1, <2>2
<1>9. NoTornLine' /\ TranscriptInWireOrder' /\ BatchStaysTogether'
  BY <1>1 DEF NoTornLine, TranscriptInWireOrder, BatchStaysTogether, Bodies
<1> QED
  BY <1>5, <1>6, <1>7, <1>8, <1>9

LEMMA AppendFacts ==
    ASSUME Typing, NEW c \in Fragment, file' = Append(file, c)
    PROVE  /\ Len(file) \in Nat /\ DOMAIN file = 1..Len(file)
           /\ Len(file') = Len(file) + 1 /\ DOMAIN file' = 1..(Len(file) + 1)
           /\ \A i \in 1..Len(file) : file'[i] = file[i] /\ file[i] \in Fragment
           /\ file'[Len(file) + 1] = c
           /\ \A d, n, k : InTranscript(d, n, k) => InTranscript(d, n, k)'
<1>1. /\ Len(file) \in Nat /\ DOMAIN file = 1..Len(file)
      /\ Len(file') = Len(file) + 1 /\ DOMAIN file' = 1..(Len(file) + 1)
      /\ \A i \in 1..Len(file) : file'[i] = file[i] /\ file[i] \in Fragment
      /\ file'[Len(file) + 1] = c
  BY DEF Typing
<1> QED
  BY <1>1 DEF InTranscript

(* Appending one more fragment of the batch the thread holds the lock for  *)
(* keeps batches together.                                                 *)
LEMMA AppendKeepsBatches ==
    ASSUME IInv, NEW d \in Direction, Appending(d), NEW part \in {"body", "nl"},
           file' = Append(file, Current(d, part))
    PROVE  BatchStaysTogether'
<1> DEFINE c == Current(d, part)
<1>1. c \in Fragment /\ c.dir = d /\ c.line = read[d]
  BY FragmentType DEF IInv, Control, Current
<1> HIDE DEF c
<1>2. file' = Append(file, c) /\ Typing
  BY DEF c, IInv, Control
<1>3. /\ Len(file) \in Nat /\ DOMAIN file = 1..Len(file)
      /\ DOMAIN file' = 1..(Len(file) + 1)
      /\ \A i \in 1..Len(file) : file'[i] = file[i]
      /\ file'[Len(file) + 1] = c
  BY <1>1, <1>2, AppendFacts
<1> SUFFICES ASSUME NEW i \in DOMAIN file', NEW j \in DOMAIN file', NEW m \in i..j,
                    file'[i].dir = file'[j].dir, file'[i].line = file'[j].line
             PROVE  file'[m].dir = file'[i].dir /\ file'[m].line = file'[i].line
  BY DEF BatchStaysTogether
<1>4. CASE j \in 1..Len(file)
  BY <1>3, <1>4 DEF IInv, FileInv, BatchStaysTogether
<1>5. CASE j = Len(file) + 1 /\ i \in 1..Len(file)
  <2>1. file[i].dir = d /\ file[i].line = read[d]
    BY <1>1, <1>3, <1>5
  <2>2. file[Len(file)].dir = d /\ file[Len(file)].line = read[d]
    BY <2>1, <1>3, <1>5 DEF IInv, FileInv, BatchIsLast
  <2>3. CASE m = Len(file) + 1
    BY <1>1, <1>3, <1>5, <2>1, <2>3
  <2>4. CASE m \in i..Len(file)
    BY <1>3, <1>5, <2>1, <2>2, <2>4 DEF IInv, FileInv, BatchStaysTogether
  <2> QED
    BY <1>3, <1>5, <2>3, <2>4
<1>6. CASE i = Len(file) + 1
  BY <1>3, <1>6
<1> QED
  BY <1>3, <1>4, <1>5, <1>6

LEMMA AppendBodyFile ==
    ASSUME IInv, NEW d \in Direction, AppendBody(d)
    PROVE  FileInv'
<1> USE DEF IInv, Control, FileInv
<1> PICK c \in Fragment : c = Current(d, "body")
  BY FragmentType
<1>1. /\ c \in Fragment /\ c.dir = d /\ c.line = read[d]
      /\ c.item = item[d] /\ c.part = "body"
  BY DEF Current
<1>2. /\ pc[d] = "append" /\ file' = Append(file, c)
      /\ pc' = [pc EXCEPT ![d] = "newline"] /\ UNCHANGED <<sent, read, item>>
  BY DEF AppendBody
<1>3. /\ Appending(d) /\ pc'[d] = "newline"
      /\ \A e \in Direction : e # d => ~Appending(e) /\ pc'[e] = pc[e]
  BY <1>2 DEF Appending, LockHeld, Typing
<1>4. /\ Len(file) \in Nat /\ DOMAIN file = 1..Len(file)
      /\ Len(file') = Len(file) + 1 /\ DOMAIN file' = 1..(Len(file) + 1)
      /\ \A i \in 1..Len(file) : file'[i] = file[i] /\ file[i] \in Fragment
      /\ file'[Len(file) + 1] = c
      /\ \A e, n, k : InTranscript(e, n, k) => InTranscript(e, n, k)'
  BY <1>1, <1>2, AppendFacts
<1>5. c = [dir |-> d, line |-> read[d], item |-> item[d], part |-> "body"]
  BY DEF Current
<1>6. read[d] \in Nat /\ read[d] >= 1 /\ item[d] \in Nat
  BY <1>2 DEF Typing, Counters
<1>7. EntriesFromLines'
  <2>1. EntryOK(c)'
    BY <1>1, <1>2, <1>3, <1>6 DEF EntryOK, Appending
  <2>2. ASSUME NEW f \in Fragment, EntryOK(f)
        PROVE  EntryOK(f)'
    <3>1. CASE f.dir # d
      BY <1>2, <1>3, <2>2, <3>1 DEF EntryOK, Appending, Fragment
    <3>2. CASE f.dir = d
      BY <1>2, <1>3, <2>2, <3>2 DEF EntryOK, Appending
    <3> QED
      BY <3>1, <3>2
  <2> QED
    BY <1>4, <2>1, <2>2 DEF EntriesFromLines
<1>8. LinesCaptured'
  <2> SUFFICES ASSUME NEW e \in Direction
               PROVE  /\ \A n \in 1..read[e] : Handled(e, n)' =>
                            \A k \in DOMAIN Messages(e, n) : InTranscript(e, n, k)'
                      /\ Appending(e)' =>
                            \A k \in 1..(item[e] - 1) : InTranscript(e, read[e], k)'
                      /\ pc'[e] = "newline" => InTranscript(e, read[e], item[e])'
    BY <1>2 DEF LinesCaptured, InTranscript, Messages
  <2>1. CASE e # d
    BY <1>2, <1>3, <1>4, <2>1 DEF LinesCaptured, Handled, Appending
  <2>2. InTranscript(d, read[d], item[d])'
    BY <1>2, <1>4, <1>5 DEF InTranscript
  <2>3. CASE e = d
    BY <1>2, <1>3, <1>4, <2>2, <2>3 DEF LinesCaptured, Handled, Appending
  <2> QED
    BY <2>1, <2>3
<1>9. LastFragment'
  BY <1>2, <1>3, <1>4, <1>5 DEF LastFragment, Current, Appending
<1>10. BatchIsLast'
  BY <1>1, <1>2, <1>3, <1>4 DEF BatchIsLast, Appending
<1>11. NoTornLine'
  <2>1. Len(file) > 0 => file[Len(file)].part = "nl"
    BY <1>2, <1>3 DEF LastFragment, Appending
  <2> QED
    BY <1>4, <2>1 DEF NoTornLine, Bodies
<1>12. TranscriptInWireOrder'
  <2> SUFFICES ASSUME NEW i \in 1..(Len(file) + 1), NEW j \in 1..(Len(file) + 1),
                      file'[i].part = "body", file'[j].part = "body",
                      i < j, file'[i].dir = file'[j].dir
               PROVE  \/ file'[i].line < file'[j].line
                      \/ file'[i].line = file'[j].line /\ file'[i].item < file'[j].item
    BY <1>4 DEF TranscriptInWireOrder, Bodies
  <2>1. CASE j \in 1..Len(file)
    BY <1>4, <2>1 DEF TranscriptInWireOrder, Bodies
  <2>2. CASE j = Len(file) + 1
    BY <1>1, <1>2, <1>4, <1>6, <2>2 DEF EntriesFromLines, EntryOK
  <2> QED
    BY <2>1, <2>2
<1>13. BatchStaysTogether'
  BY <1>2, <1>3, AppendKeepsBatches
<1> QED
  BY <1>7, <1>8, <1>9, <1>10, <1>11, <1>12, <1>13

LEMMA AppendNewlineFile ==
    ASSUME IInv, NEW d \in Direction, AppendNewline(d)
    PROVE  FileInv'
<1> USE DEF IInv, Control, FileInv
<1> PICK c \in Fragment : c = Current(d, "nl")
  BY FragmentType
<1>1. /\ c \in Fragment /\ c.dir = d /\ c.line = read[d]
      /\ c.item = item[d] /\ c.part = "nl"
  BY DEF Current
<1>2. /\ pc[d] = "newline" /\ file' = Append(file, c) /\ UNCHANGED <<sent, read>>
  BY DEF AppendNewline
<1>3. /\ \/ /\ item[d] < Len(Messages(d, read[d]))
            /\ item'[d] = item[d] + 1 /\ pc'[d] = "append"
         \/ ~(item[d] < Len(Messages(d, read[d]))) /\ pc'[d] = "read"
      /\ \A e \in Direction : e # d => pc'[e] = pc[e] /\ item'[e] = item[e]
  <2>1. CASE item[d] < Len(Messages(d, read[d]))
    BY <2>1 DEF AppendNewline, Typing
  <2>2. CASE ~(item[d] < Len(Messages(d, read[d])))
    BY <2>2 DEF AppendNewline, Typing
  <2> QED
    BY <2>1, <2>2
<1>4. /\ Appending(d) /\ \A e \in Direction : e # d => ~Appending(e)
      /\ \A e \in Direction : pc'[e] # "newline"
      /\ item[d] \in DOMAIN Messages(d, read[d])
  BY <1>2, <1>3 DEF Appending, LockHeld
<1>5. /\ Len(file) \in Nat /\ DOMAIN file = 1..Len(file)
      /\ Len(file') = Len(file) + 1 /\ DOMAIN file' = 1..(Len(file) + 1)
      /\ \A i \in 1..Len(file) : file'[i] = file[i] /\ file[i] \in Fragment
      /\ file'[Len(file) + 1] = c
      /\ \A e, n, k : InTranscript(e, n, k) => InTranscript(e, n, k)'
  BY <1>1, <1>2, AppendFacts
<1>6. /\ read[d] \in Nat /\ read[d] >= 1 /\ item[d] \in Nat
      /\ DOMAIN Messages(d, read[d]) = 1..Len(Messages(d, read[d]))
      /\ Len(Messages(d, read[d])) \in Nat
  <2>0. read[d] \in Nat /\ item[d] \in Nat /\ Len(sent[d]) \in Nat
    BY DEF Typing
  <2>1. read[d] \in Nat /\ read[d] >= 1 /\ item[d] \in Nat /\ read[d] \in 1..Len(sent[d])
    BY <1>2, <2>0 DEF Counters
  <2> QED
    BY <2>1, ParseFacts
<1>7. Len(file) > 0 /\ file[Len(file)] = Current(d, "body")
  BY <1>2 DEF LastFragment
<1>8. c = [Current(d, "body") EXCEPT !.part = "nl"]
  BY DEF Current
<1>9. EntriesFromLines'
  <2>1. EntryOK(c)'
    BY <1>1, <1>2, <1>3, <1>6 DEF EntryOK, Appending
  <2>2. ASSUME NEW f \in Fragment, EntryOK(f)
        PROVE  EntryOK(f)'
    <3>1. CASE f.dir # d
      BY <1>2, <1>3, <2>2, <3>1 DEF EntryOK, Appending, Fragment
    <3>2. CASE f.dir = d
      <4>1. f.item \in Nat /\ f.line \in 1..read[d]
        BY <2>2, <3>2 DEF EntryOK, Fragment
      <4>2. f.line = read[d] => f.item <= item[d]
        BY <1>2, <1>6, <2>2, <3>2, <4>1 DEF EntryOK
      <4> QED
        BY <1>2, <1>3, <1>6, <3>2, <4>1, <4>2 DEF EntryOK, Appending
    <3> QED
      BY <3>1, <3>2
  <2> QED
    BY <1>5, <2>1, <2>2 DEF EntriesFromLines
<1>10. LinesCaptured'
  <2> SUFFICES ASSUME NEW e \in Direction
               PROVE  /\ \A n \in 1..read[e] : Handled(e, n)' =>
                            \A k \in DOMAIN Messages(e, n) : InTranscript(e, n, k)'
                      /\ Appending(e)' =>
                            \A k \in 1..(item'[e] - 1) : InTranscript(e, read[e], k)'
                      /\ pc'[e] = "newline" => InTranscript(e, read[e], item[e])'
    BY <1>2 DEF LinesCaptured, InTranscript, Messages
  <2>1. CASE e # d
    BY <1>2, <1>3, <1>5, <2>1 DEF LinesCaptured, Handled, Appending
  <2>2. \A k \in 1..item[d] : InTranscript(d, read[d], k)'
    <3>1. \A k \in 1..(item[d] - 1) : InTranscript(d, read[d], k)
      BY <1>4 DEF LinesCaptured
    <3>2. InTranscript(d, read[d], item[d])
      BY <1>2 DEF LinesCaptured
    <3> QED
      BY <1>2, <1>5, <1>6, <3>1, <3>2
  <2>3. CASE e = d
    <3>1. ASSUME NEW n \in 1..read[d], Handled(d, n)'
          PROVE  \A k \in DOMAIN Messages(d, n) : InTranscript(d, n, k)'
      <4>1. CASE n = read[d]
        BY <1>2, <1>3, <1>4, <1>6, <2>2, <3>1, <4>1 DEF Handled
      <4>2. CASE n # read[d]
        BY <1>5, <3>1, <4>2 DEF LinesCaptured, Handled
      <4> QED
        BY <4>1, <4>2
    <3> QED
      BY <1>2, <1>3, <1>6, <2>2, <2>3, <3>1 DEF Appending
  <2> QED
    BY <2>1, <2>3
<1>11. LastFragment'
  BY <1>1, <1>4, <1>5 DEF LastFragment
<1>12. BatchIsLast'
  BY <1>1, <1>2, <1>3, <1>4, <1>5 DEF BatchIsLast, Appending
<1>13. NoTornLine'
  BY <1>1, <1>5, <1>7, <1>8 DEF NoTornLine, Bodies
<1>14. TranscriptInWireOrder'
  BY <1>1, <1>5 DEF TranscriptInWireOrder, Bodies
<1>15. BatchStaysTogether'
  BY <1>2, <1>4, AppendKeepsBatches
<1> QED
  BY <1>9, <1>10, <1>11, <1>12, <1>13, <1>14, <1>15

(***************************************************************************)
(* IInv is inductive, and implies the invariants the runs check.           *)
(***************************************************************************)
LEMMA InvStep == IInv /\ [Next]_vars => IInv'
<1> SUFFICES ASSUME IInv, [Next]_vars PROVE FileInv'
  BY ControlStep DEF IInv
<1>1. CASE PeerStep
  BY <1>1, PeerFile
<1>2. CASE \E d \in Direction : Forward(d)
  <2> PICK d \in Direction : Forward(d)
    BY <1>2
  <2>1. CASE Silent(d)
    BY <2>1, SilentFile
  <2>2. CASE AppendBody(d)
    BY <2>2, AppendBodyFile
  <2>3. CASE AppendNewline(d)
    BY <2>3, AppendNewlineFile
  <2> QED
    BY <2>1, <2>2, <2>3 DEF Forward, Silent
<1> QED
  BY <1>1, <1>2, StepCases

LEMMA InvAlways == Spec => []IInv
BY InvInit, InvStep, PTL DEF Spec

(* The transcript never has a torn line, whatever the two threads do: it   *)
(* can be read by iter_messages in every reachable state.                  *)
THEOREM TranscriptReadable == Spec => []NoTornLine
BY InvAlways, PTL DEF IInv, FileInv

(* The transcript is, per direction, in wire order and without duplicates, *)
(* with every batch in one piece.                                          *)
THEOREM TranscriptOrdered == Spec => [](TranscriptInWireOrder /\ BatchStaysTogether)
BY InvAlways, PTL DEF IInv, FileInv

(* Nothing is captured that was not forwarded, and capture trails the      *)
(* forwarding by at most one line per direction.                           *)
THEOREM CaptureTrailsForwarding == Spec => []CaptureFollowsForwarding
<1>1. IInv => CaptureFollowsForwarding
  <2> SUFFICES ASSUME IInv PROVE CaptureFollowsForwarding
    OBVIOUS
  <2> USE DEF IInv, Control, FileInv
  <2>1. ASSUME NEW i \in DOMAIN file PROVE file[i].line <= fwd[file[i].dir]
    <3> DEFINE e == file[i].dir
    <3>1. e \in Direction /\ file[i].line \in 1..read[e]
      <4>1. file[i] \in Fragment
        BY DEF Typing
      <4> QED
        BY <4>1 DEF Fragment, EntriesFromLines, EntryOK
    <3>2. read[e] \in Nat /\ fwd[e] \in Nat /\ pc[e] \in ThreadStates
      BY <3>1 DEF Typing
    <3>3. file[i].line = read[e] => pc[e] \in {"read", "done", "append", "newline"}
      BY <3>1 DEF EntriesFromLines, EntryOK, Appending
    <3> QED
      BY <3>1, <3>2, <3>3 DEF Counters, ThreadStates
  <2>2. ASSUME NEW d \in Direction, NEW n \in 1..(fwd[d] - 1),
               NEW k \in DOMAIN Messages(d, n)
        PROVE  InTranscript(d, n, k)
    <3>1. read[d] \in Nat /\ fwd[d] \in Nat /\ pc[d] \in ThreadStates
      BY DEF Typing
    <3>2. n \in 1..(read[d] - 1)
      BY <3>1 DEF Counters, ThreadStates
    <3> QED
      BY <3>1, <3>2 DEF LinesCaptured, Handled
  <2> QED
    BY <2>1, <2>2 DEF CaptureFollowsForwarding
<1> QED
  BY <1>1, InvAlways, PTL

(***************************************************************************)
(* The end of the wrapper: what a stdout thread that ended in time has     *)
(* passed on and captured.                                                 *)
(***************************************************************************)
RaisedInCapture ==
    read[S2C] \in 1..Len(sent[S2C]) /\ ParseRaises(sent[S2C][read[S2C]])

JoinInv ==
    /\ main # "wait" => ~alive
    /\ (main \in {"stderr", "exited"} /\ S2C \notin timedOut) => Ended(S2C)
    /\ pc[S2C] = "done" => ~alive /\ read[S2C] = Len(sent[S2C])
    /\ pc[S2C] = "dead" => clientGone \/ RaisedInCapture

LEMMA JoinInit == Init => JoinInv
BY DEF Init, JoinInv, Ended, Direction, S2C

LEMMA JoinStep ==
    ASSUME IInv, JoinInv, [Next]_vars
    PROVE  JoinInv'
<1> USE DEF IInv, Control, JoinInv
<1>a. S2C \in Direction /\ C2S \in Direction /\ C2S # S2C
  BY DEF Direction, C2S, S2C
<1>b. S2C # "stderr" /\ S2C # "exited" /\ C2S # "stderr" /\ C2S # "exited"
      /\ S2C # "wait" /\ C2S # "wait"
  BY DEF C2S, S2C
<1>1. CASE ClientWrite
  <2>1. UNCHANGED <<sent[S2C], main, alive, timedOut, pc, read, clientGone, errPc>>
    BY <1>1, <1>a DEF ClientWrite, Write, Typing, threadVars, clientVars, errVars, mainVars
  <2> QED
    BY <2>1 DEF Ended, RaisedInCapture
<1>2. CASE ServerWrite
  <2> PICK t \in ServerTexts : Write(S2C, t)
    BY <1>2 DEF ServerWrite
  <2>1. alive /\ sent' = [sent EXCEPT ![S2C] = Append(sent[S2C], t)]
        /\ UNCHANGED <<main, alive, timedOut, pc, read, clientGone, errPc>>
    BY <1>a DEF Write, OriginClosed, threadVars, clientVars, errVars, mainVars
  <2>2. sent'[S2C] = Append(sent[S2C], t)
    BY <2>1, <1>a DEF Typing
  <2>3. RaisedInCapture => RaisedInCapture'
    <3>1. read[S2C] \in Nat /\ Len(sent[S2C]) \in Nat
          /\ sent[S2C] \in Seq(AllTexts) /\ t \in AllTexts
      BY <1>a DEF Typing, AllTexts
    <3>2. /\ Len(sent'[S2C]) = Len(sent[S2C]) + 1
          /\ \A k \in 1..Len(sent[S2C]) : sent'[S2C][k] = sent[S2C][k]
      BY <2>2, <3>1
    <3> QED
      BY <2>1, <3>1, <3>2 DEF RaisedInCapture
  <2> QED
    BY <2>1, <2>3 DEF Ended
<1>3. CASE ClientClose \/ ClientHangUp \/ ServerExit \/ ServerDies \/ UNCHANGED vars
  BY <1>3 DEF ClientClose, ClientHangUp, ServerExit, ServerDies, Ended, RaisedInCapture,
       vars, threadVars, clientVars, errVars, mainVars
<1>4. CASE ServerWriteStderr \/ \E d \in Direction : Receive(d)
  BY <1>4, <1>b DEF ServerWriteStderr, Receive, Ended, RaisedInCapture, threadVars, clientVars, errVars, mainVars
<1>5. CASE ForwardStderr
  BY <1>5, <1>b DEF ForwardStderr, Ended, RaisedInCapture, threadVars, clientVars, mainVars
<1>6. CASE WaitReturns
  BY <1>6, <1>b DEF WaitReturns, Ended, RaisedInCapture, threadVars, clientVars, errVars
<1>7. CASE Join
  <2> PICK t \in Threads : JoinReturns(t) \/ JoinTimesOut(t)
    BY <1>7 DEF Join
  <2>1. UNCHANGED <<sent, pc, read, alive, clientGone, errPc>> /\ main = t
        /\ main' = AfterJoin(t) /\ t # "wait"
    BY <1>b DEF JoinReturns, JoinTimesOut, threadVars, clientVars, errVars, Threads, Direction
  <2>2. timedOut' = timedOut \/ timedOut' = timedOut \cup {t}
    BY DEF JoinReturns, JoinTimesOut
  <2>3. t = S2C => Ended(S2C) \/ S2C \in timedOut'
    BY DEF JoinReturns, JoinTimesOut
  <2>4. t = C2S => main' = S2C
    BY <2>1, <1>a DEF AfterJoin
  <2> QED
    BY <2>1, <2>2, <2>3, <2>4, <1>b DEF Ended, RaisedInCapture, Threads, Direction
<1>8. ASSUME NEW d \in Direction, Forward(d)
      PROVE  JoinInv'
  <2>1. UNCHANGED <<sent, alive, clientGone, errPc, main, timedOut>>
    BY <1>8, ForwardFrame DEF clientVars, errVars, mainVars
  <2>2. CASE d # S2C
    <3>1. pc'[S2C] = pc[S2C] /\ read'[S2C] = read[S2C]
      BY <1>8, <1>a, <2>2 DEF Forward, Readline, ReadEof, WriteLine, WriteRaises,
         CaptureRaises, CaptureNothing, AcquireLock, AppendBody, AppendNewline, Typing
    <3> QED
      BY <2>1, <3>1, <1>b DEF Ended, RaisedInCapture
  <2>3. CASE d = S2C
    <3>1. CASE CaptureRaises(S2C)
      <4>1. read[S2C] \in Nat /\ Len(sent[S2C]) \in Nat
        BY <1>a DEF Typing
      <4>2. read[S2C] \in 1..Len(sent[S2C])
        BY <3>1, <1>a, <4>1 DEF CaptureRaises, Counters
      <4>3. RaisedInCapture'
        BY <2>1, <3>1, <4>2 DEF CaptureRaises, RaisedInCapture
      <4>4. pc'[S2C] = "dead"
        BY <3>1, <1>a DEF CaptureRaises, Typing
      <4> QED
        BY <2>1, <4>3, <4>4, <1>b DEF Ended
    <3>2. pc[S2C] \notin {"done", "dead"}
      BY <1>8, <2>3 DEF Forward, Readline, ReadEof, WriteLine, WriteRaises,
         CaptureRaises, CaptureNothing, AcquireLock, AppendBody, AppendNewline
    <3>3. CASE ReadEof(S2C)
      <4>1. read[S2C] \in Nat /\ Len(sent[S2C]) \in Nat
        BY <1>a DEF Typing
      <4> QED
        BY <2>1, <3>3, <4>1, <1>a, <1>b
           DEF ReadEof, InPipe, OriginClosed, Ended, Typing
    <3>4. CASE WriteRaises(S2C)
      BY <2>1, <3>4, <1>a, <1>b DEF WriteRaises, DestinationOpen, Ended, Typing
    <3>5. CASE ~ReadEof(S2C) /\ ~WriteRaises(S2C) /\ ~CaptureRaises(S2C)
      <4>1. pc'[S2C] \notin {"done", "dead"}
        BY <1>8, <1>a, <2>3, <3>5 DEF Forward, Readline, WriteLine,
           CaptureNothing, AcquireLock, AppendBody, AppendNewline, Typing
      <4> QED
        BY <2>1, <3>2, <4>1, <1>b DEF Ended
    <3> QED
      BY <3>1, <3>3, <3>4, <3>5
  <2> QED
    BY <2>2, <2>3
<1> QED
  BY <1>1, <1>2, <1>3, <1>4, <1>5, <1>6, <1>7, <1>8 DEF Next, Terminated

(* When run_wrap has returned, the join of the stdout thread did not time  *)
(* out and the client has not hung up, then everything the server wrote,   *)
(* up to the first line that McpMessage refuses, was passed on and is in   *)
(* the transcript.                                                         *)
THEOREM JoinedOutput == Spec => []JoinedOutputIsComplete
<1>1. IInv /\ JoinInv => JoinedOutputIsComplete
  <2> SUFFICES ASSUME IInv, JoinInv, main = "exited", S2C \notin timedOut, ~clientGone,
                      NEW n \in DOMAIN sent[S2C],
                      \A k \in 1..n : ~ParseRaises(sent[S2C][k])
               PROVE  /\ n <= fwd[S2C]
                      /\ \A k \in DOMAIN Messages(S2C, n) : InTranscript(S2C, n, k)
    BY DEF JoinedOutputIsComplete
  <2>1. S2C \in Direction /\ S2C # "stderr"
    BY DEF Direction, S2C
  <2>2. /\ read[S2C] \in Nat /\ fwd[S2C] \in Nat /\ Len(sent[S2C]) \in Nat
        /\ DOMAIN sent[S2C] = 1..Len(sent[S2C])
    BY <2>1 DEF IInv, Control, Typing
  <2>3. pc[S2C] \in {"done", "dead"}
    BY <2>1 DEF JoinInv, Ended
  <2>4. CASE pc[S2C] = "done"
    <3>1. read[S2C] = Len(sent[S2C])
      BY <2>4 DEF JoinInv
    <3>2. n \in 1..read[S2C] /\ fwd[S2C] = read[S2C]
      BY <2>1, <2>2, <2>4, <3>1 DEF IInv, Control, Counters
    <3> QED
      BY <2>1, <2>2, <2>4, <3>2 DEF IInv, FileInv, LinesCaptured, Handled
  <2>5. CASE pc[S2C] = "dead"
    <3>1. RaisedInCapture
      BY <2>5 DEF JoinInv
    <3>2. n \in 1..(read[S2C] - 1)
      BY <2>2, <3>1 DEF RaisedInCapture
    <3>3. fwd[S2C] >= read[S2C] - 1
      BY <2>1, <2>2, <2>5 DEF IInv, Control, Counters
    <3> QED
      BY <2>1, <2>2, <2>5, <3>2, <3>3 DEF IInv, FileInv, LinesCaptured, Handled
  <2> QED
    BY <2>3, <2>4, <2>5
<1>2. IInv /\ JoinInv /\ [Next]_vars => (IInv /\ JoinInv)'
  BY InvStep, JoinStep
<1> QED
  BY <1>1, <1>2, InvInit, JoinInit, PTL DEF Spec

-------------------------------------------------------------------------------
(* The wrapper implements Tap.                                             *)

LEMMA InitMaps == Init => T!TapInit
<1> SUFFICES ASSUME Init PROVE T!TapInit
  OBVIOUS
<1>1. LinesDone = [d \in Direction |-> 0] /\ LinesPassed = [d \in Direction |-> <<>>]
  BY DEF Init, LinesDone, LinesPassed
<1>2. LinesNoted = <<>>
  <2>1. LineEnds = {}
    BY DEF Init, LineEnds
  <2> QED
    BY <2>1 DEF LinesNoted
<1> QED
  BY <1>1, <1>2 DEF T!TapInit

(* A line of the transcript has been read, and its messages do not change. *)
LEMMA EndsOfReadLines ==
    ASSUME IInv, NEW i \in DOMAIN file
    PROVE  file[i].dir \in Direction /\ file[i].line \in 1..read[file[i].dir]
<1>1. file[i] \in Fragment
  BY DEF IInv, Control, Typing
<1> QED
  BY <1>1 DEF IInv, FileInv, EntriesFromLines, EntryOK, Fragment

LEMMA LineEndsKept ==
    ASSUME IInv, SentGrows, UNCHANGED file
    PROVE  UNCHANGED LinesNoted
<1>1. ASSUME NEW i \in DOMAIN file
      PROVE  Messages(file[i].dir, file[i].line)' = Messages(file[i].dir, file[i].line)
  BY EndsOfReadLines, MessagesKept DEF IInv
<1>2. LineEnds' = LineEnds
  BY <1>1 DEF LineEnds
<1> QED
  BY <1>2 DEF LinesNoted

(* So do the lines passed on, which have been read.                        *)
LEMMA LinesPassedKept ==
    ASSUME IInv, SentGrows, UNCHANGED fwd
    PROVE  UNCHANGED LinesPassed
<1>1. ASSUME NEW d \in Direction, NEW n \in 1..fwd[d]
      PROVE  Messages(d, n)' = Messages(d, n)
  <2>0. read[d] \in Nat /\ fwd[d] \in Nat /\ pc[d] \in ThreadStates
    BY DEF IInv, Control, Typing
  <2>1. fwd[d] <= read[d]
    BY <2>0 DEF IInv, Control, Counters, ThreadStates
  <2>2. n \in 1..read[d]
    BY <2>0, <2>1
  <2> QED
    BY <2>2, MessagesKept DEF IInv
<1> QED
  BY <1>1 DEF LinesPassed

(* A line written to its destination is the last of those passed on.       *)
LEMMA LinePassed ==
    ASSUME IInv, UNCHANGED sent, NEW d \in Direction,
           fwd' = [fwd EXCEPT ![d] = fwd[d] + 1]
    PROVE  \E carries \in BOOLEAN :
              LinesPassed' = [LinesPassed EXCEPT ![d] = Append(LinesPassed[d], carries)]
<1>0. \E c \in BOOLEAN : c = (Len(Messages(d, fwd[d] + 1)) > 0)
  <2>1. CASE Len(Messages(d, fwd[d] + 1)) > 0
    <3>1. TRUE \in BOOLEAN /\ TRUE = (Len(Messages(d, fwd[d] + 1)) > 0)
      BY <2>1
    <3> QED
      BY <3>1
  <2>2. CASE ~(Len(Messages(d, fwd[d] + 1)) > 0)
    <3>1. FALSE \in BOOLEAN /\ FALSE = (Len(Messages(d, fwd[d] + 1)) > 0)
      BY <2>2
    <3> QED
      BY <3>1
  <2> QED
    BY <2>1, <2>2
<1> PICK carries \in BOOLEAN : carries = (Len(Messages(d, fwd[d] + 1)) > 0)
  BY <1>0
<1>1. Typing
  BY DEF IInv, Control
<1>2. \A e \in Direction : fwd[e] \in Nat
  BY <1>1 DEF Typing
<1>3. \A e, n : Messages(e, n)' = Messages(e, n)
  BY DEF Messages
<1>4. \A e \in Direction : LinesPassed[e] = [n \in 1..fwd[e] |-> Len(Messages(e, n)) > 0]
  BY DEF LinesPassed
<1>5. \A e \in Direction : LinesPassed'[e] = [n \in 1..fwd'[e] |-> Len(Messages(e, n)) > 0]
  BY <1>3 DEF LinesPassed
<1>6. \A e \in Direction : e # d => LinesPassed'[e] = LinesPassed[e]
  BY <1>1, <1>4, <1>5 DEF Typing
<1>7. fwd'[d] = fwd[d] + 1
  BY <1>1 DEF Typing
<1>8. LinesPassed'[d] = Append(LinesPassed[d], carries)
  <2> DEFINE f == LinesPassed[d]
             g == LinesPassed'[d]
  <2>1. f = [n \in 1..fwd[d] |-> f[n]] /\ \A n \in 1..fwd[d] : f[n] = (Len(Messages(d, n)) > 0)
    BY <1>4
  <2>2. g = [n \in 1..(fwd[d] + 1) |-> Len(Messages(d, n)) > 0]
    BY <1>5, <1>7
  <2>3. /\ g = [n \in 1..(fwd[d] + 1) |-> g[n]]
        /\ \A n \in 1..(fwd[d] + 1) : g[n] = (Len(Messages(d, n)) > 0)
    BY <2>2
  <2> HIDE DEF f, g
  <2>0. /\ \A n \in 1..fwd[d] : n \in 1..(fwd[d] + 1)
        /\ fwd[d] + 1 \in 1..(fwd[d] + 1)
    BY <1>2
  <2>4. \A n \in 1..fwd[d] : g[n] = f[n]
    BY <2>0, <2>1, <2>3, Zenon
  <2>5. g[fwd[d] + 1] = carries
    BY <2>0, <2>3, Zenon
  <2>6. g = Append(f, carries)
    <3>1. fwd[d] \in Nat
      BY <1>2
    <3>2. f = [n \in 1..fwd[d] |-> f[n]]
      BY <2>1
    <3>3. g = [n \in 1..(fwd[d] + 1) |-> g[n]]
      BY <2>3
    <3> DEFINE S == {f[i] : i \in 1..fwd[d]} \cup {carries}
    <3>a. carries \in S /\ \A i \in 1..fwd[d] : f[i] \in S
      BY Zenon
    <3> HIDE DEF S
    <3>b. f \in [1..fwd[d] -> S]
      BY <3>2, <3>a
    <3>4. f \in Seq(S) /\ Len(f) = fwd[d] /\ carries \in S
      BY <3>1, <3>2, <3>a, <3>b
    <3>5. /\ Append(f, carries) \in Seq(S) /\ Len(Append(f, carries)) = fwd[d] + 1
          /\ \A i \in 1..fwd[d] : Append(f, carries)[i] = f[i]
          /\ Append(f, carries)[fwd[d] + 1] = carries
      BY <3>1, <3>4
    <3>6. Append(f, carries) = [i \in 1..(fwd[d] + 1) |-> Append(f, carries)[i]]
      BY <3>5
    <3>7. \A i \in 1..(fwd[d] + 1) : i \in 1..fwd[d] \/ i = fwd[d] + 1
      BY <3>1
    <3>8. \A i \in 1..(fwd[d] + 1) : g[i] = Append(f, carries)[i]
      BY <2>4, <2>5, <3>5, <3>7
    <3> QED
      BY <3>3, <3>6, <3>8
  <2> QED
    BY <2>6 DEF f, g
<1>9. /\ DOMAIN LinesPassed = Direction /\ DOMAIN LinesPassed' = Direction
      /\ LinesPassed' = [e \in Direction |-> LinesPassed'[e]]
      /\ LinesPassed = [e \in Direction |-> LinesPassed[e]]
  BY DEF LinesPassed
<1> QED
  BY <1>6, <1>8, <1>9

(* What Tap reads of the lines passed on.                                  *)
LEMMA PassedFacts ==
    ASSUME IInv, NEW d \in Direction
    PROVE  /\ Len(LinesPassed[d]) = fwd[d]
           /\ \A n \in 1..fwd[d] : LinesPassed[d][n] = (Len(Messages(d, n)) > 0)
<1>1. fwd[d] \in Nat
  BY DEF IInv, Control, Typing
<1>2. LinesPassed[d] = [n \in 1..fwd[d] |-> Len(Messages(d, n)) > 0]
  BY DEF LinesPassed
<1> QED
  BY <1>1, <1>2

(* What a peer or the main thread does, Tap does not see.                  *)
LEMMA PeerStutters ==
    ASSUME IInv, PeerStep
    PROVE  UNCHANGED T!tapVars
<1>1. UNCHANGED threadVars /\ SentGrows
  BY PeerFrame, PeerExtends DEF IInv, Control
<1>2. UNCHANGED LinesNoted /\ UNCHANGED LinesPassed
  BY <1>1, LineEndsKept, LinesPassedKept DEF threadVars
<1> QED
  BY <1>1, <1>2 DEF threadVars, LinesDone, T!tapVars

(* A thread that goes back to readline is done with its line.              *)
LEMMA LineIsDone ==
    ASSUME Typing, NEW d \in Direction, pc[d] \notin {"read", "done"},
           pc' = [pc EXCEPT ![d] = "read"], UNCHANGED read
    PROVE  /\ LinesDone[d] + 1 = read[d]
           /\ LinesDone' = [LinesDone EXCEPT ![d] = LinesDone[d] + 1]
<1>1. read[d] \in Nat /\ LinesDone[d] = read[d] - 1
  BY DEF LinesDone, Typing
<1>2. LinesDone[d] + 1 = read[d]
  BY <1>1
<1>3. \A e \in Direction : LinesDone'[e] = IF e = d THEN LinesDone[d] + 1 ELSE LinesDone[e]
  BY <1>2 DEF LinesDone, Typing
<1>4. DOMAIN LinesDone = Direction /\ LinesDone' = [e \in Direction |-> LinesDone'[e]]
  BY DEF LinesDone
<1>5. LinesDone = [e \in Direction |-> LinesDone[e]]
  BY DEF LinesDone
<1> QED
  BY <1>2, <1>3, <1>4, <1>5

LEMMA ForwardMaps ==
    ASSUME IInv, NEW d \in Direction, Forward(d)
    PROVE  T!TapNext \/ UNCHANGED T!tapVars
<1>0. Typing /\ Counters /\ LockHeld /\ UNCHANGED sent
  BY ForwardFrame DEF IInv, Control
<1>1. SentGrows
  BY <1>0 DEF SentGrows, Typing
<1>2. CASE Silent(d)
  <2>1. UNCHANGED LinesNoted
    BY <1>1, <1>2, LineEndsKept DEF Silent, Readline, ReadEof, WriteLine, WriteRaises,
       CaptureRaises, CaptureNothing, AcquireLock
  <2>2. CASE WriteLine(d)
    <3>1. LinesDone[d] = fwd[d] /\ fwd' = [fwd EXCEPT ![d] = fwd[d] + 1]
      BY <1>0, <2>2 DEF WriteLine, LinesDone, Counters
    <3>2. UNCHANGED LinesDone
      BY <1>0, <2>2 DEF WriteLine, LinesDone, Typing
    <3>3. \E carries \in BOOLEAN :
             LinesPassed' = [LinesPassed EXCEPT ![d] = Append(LinesPassed[d], carries)]
      BY <1>0, <3>1, LinePassed
    <3>4. LinesDone[d] = Len(LinesPassed[d])
      BY <3>1, PassedFacts
    <3>5. T!Pass(d)
      BY <2>1, <3>2, <3>3, <3>4 DEF T!Pass
    <3> QED
      BY <3>5 DEF T!TapNext
  <2>3. CASE CaptureNothing(d)
    <3>1. /\ LinesDone[d] < fwd[d] /\ LinesDone[d] + 1 = fwd[d] /\ fwd[d] = read[d]
          /\ fwd[d] \in 1..fwd[d] /\ UNCHANGED fwd
      <4>1. /\ pc[d] = "capture" /\ read[d] \in Nat /\ read[d] >= 1
            /\ fwd[d] = read[d] /\ UNCHANGED fwd
        BY <1>0, <2>3 DEF CaptureNothing, Counters, Typing
      <4>2. LinesDone[d] = read[d] - 1
        BY <4>1 DEF LinesDone
      <4> QED
        BY <4>1, <4>2
    <3>2. LinesDone' = [LinesDone EXCEPT ![d] = LinesDone[d] + 1]
      BY <1>0, <2>3, LineIsDone DEF CaptureNothing
    <3>4. /\ LinesDone[d] < Len(LinesPassed[d]) /\ UNCHANGED LinesPassed
          /\ ~LinesPassed[d][fwd[d]]
      <4>1. Len(Messages(d, read[d])) = 0
        BY <2>3 DEF CaptureNothing
      <4>2. LinesPassed[d][fwd[d]] = (Len(Messages(d, fwd[d])) > 0)
        BY <3>1, PassedFacts
      <4> QED
        <5>1. Len(LinesPassed[d]) = fwd[d]
          BY PassedFacts
        <5>2. UNCHANGED LinesPassed
          BY <1>1, <3>1, LinesPassedKept
        <5>3. ~(Len(Messages(d, fwd[d])) > 0)
          BY <3>1, <4>1
        <5>4. ~LinesPassed[d][fwd[d]]
          BY <4>2, <5>3, Zenon
        <5> QED
          BY <3>1, <5>1, <5>2, <5>4
    <3>5. LinesDone'[d] = fwd[d]
      BY <3>1, <3>2 DEF LinesDone
    <3>3. T!Note(d)
      BY <2>1, <3>2, <3>4, <3>5 DEF T!Note
    <3> QED
      BY <3>3 DEF T!TapNext
  <2>4. CASE Readline(d) \/ ReadEof(d) \/ WriteRaises(d) \/ CaptureRaises(d) \/ AcquireLock(d)
    <3>1. UNCHANGED LinesPassed
      BY <1>1, <2>4, LinesPassedKept
         DEF Readline, ReadEof, WriteRaises, CaptureRaises, AcquireLock
    <3>2. UNCHANGED LinesDone
      BY <1>0, <2>4 DEF Readline, ReadEof, WriteRaises, CaptureRaises, AcquireLock, LinesDone,
         Typing
    <3> QED
      BY <2>1, <3>1, <3>2 DEF T!tapVars
  <2> QED
    BY <1>2, <2>2, <2>3, <2>4 DEF Silent
<1>3. ASSUME NEW c \in Fragment, file' = Append(file, c)
      PROVE  /\ DOMAIN file = 1..Len(file) /\ Len(file) \in Nat
             /\ DOMAIN file' = 1..(Len(file) + 1)
             /\ \A i \in 1..Len(file) : file'[i] = file[i]
             /\ file'[Len(file) + 1] = c
             /\ \A e, n : Messages(e, n)' = Messages(e, n)
  BY <1>0, <1>3 DEF Typing, Messages
<1>4. CASE AppendBody(d)
  <2>1. Current(d, "body") \in Fragment /\ Current(d, "body").part = "body"
    BY <1>0, FragmentType DEF Current
  <2>2. file' = Append(file, Current(d, "body")) /\ UNCHANGED LinesPassed
    BY <1>1, <1>4, LinesPassedKept DEF AppendBody
  <2>3. LineEnds' = LineEnds
    BY <1>3, <2>1, <2>2 DEF LineEnds
  <2>4. UNCHANGED LinesNoted
    BY <1>3, <2>1, <2>2, <2>3 DEF LinesNoted, LineEnds
  <2>5. UNCHANGED LinesDone
    BY <1>0, <1>4 DEF AppendBody, LinesDone, Typing
  <2> QED
    BY <2>2, <2>4, <2>5 DEF T!tapVars
<1>5. CASE AppendNewline(d)
  <2> DEFINE c == Current(d, "nl")
             t == Len(file) + 1
  <2>1. /\ c \in Fragment /\ c.part = "nl" /\ c.dir = d
        /\ c.line = read[d] /\ c.item = item[d]
    BY <1>0, FragmentType DEF Current
  <2>2. file' = Append(file, c) /\ UNCHANGED fwd /\ UNCHANGED LinesPassed
    BY <1>1, <1>5, LinesPassedKept DEF AppendNewline
  <2> HIDE DEF c
  <2>3. CASE item[d] < Len(Messages(d, read[d]))
    <3>1. c.item # Len(Messages(c.dir, c.line))
      BY <1>0, <2>1, <2>3 DEF Typing
    <3>2. LineEnds' = LineEnds
      BY <1>3, <2>1, <2>2, <3>1 DEF LineEnds
    <3>3. UNCHANGED LinesNoted
      BY <1>3, <2>1, <2>2, <3>2 DEF LinesNoted, LineEnds
    <3>4. UNCHANGED LinesDone
      BY <1>0, <1>5, <2>3 DEF AppendNewline, LinesDone, Typing
    <3> QED
      BY <2>2, <3>3, <3>4 DEF T!tapVars
  <2>4. CASE ~(item[d] < Len(Messages(d, read[d])))
    <3>1. item[d] = Len(Messages(d, read[d]))
      <4>0. read[d] \in Nat /\ Len(sent[d]) \in Nat /\ pc[d] = "newline"
        BY <1>0, <1>5 DEF AppendNewline, Typing
      <4>1. read[d] \in 1..Len(sent[d]) /\ item[d] \in DOMAIN Messages(d, read[d])
        BY <1>0, <4>0 DEF Counters, LockHeld, Appending
      <4>2. item[d] \in 1..Len(Messages(d, read[d])) /\ Len(Messages(d, read[d])) \in Nat
        BY <1>0, <4>1, ParseFacts
      <4> QED
        BY <2>4, <4>2
    <3>2. t \in LineEnds' /\ LineEnds' = LineEnds \cup {t}
      BY <1>3, <2>1, <2>2, <3>1 DEF LineEnds
    <3>3. \A s \in LineEnds : s < t
      BY <1>3, <2>1, <2>2 DEF LineEnds
    <3>4. /\ LinesDone[d] + 1 = read[d] /\ LinesDone[d] < fwd[d] /\ fwd[d] = read[d]
          /\ fwd[d] \in 1..fwd[d]
          /\ LinesDone' = [LinesDone EXCEPT ![d] = LinesDone[d] + 1]
      <4>1. pc[d] = "newline" /\ pc' = [pc EXCEPT ![d] = "read"] /\ UNCHANGED read
        BY <1>5, <2>4 DEF AppendNewline
      <4>2. fwd[d] = read[d] /\ read[d] \in Nat /\ read[d] >= 1
        BY <1>0, <4>1 DEF Counters, Typing
      <4>3. LinesDone[d] = read[d] - 1
        BY <4>1 DEF LinesDone
      <4>4. LinesDone' = [LinesDone EXCEPT ![d] = LinesDone[d] + 1]
        BY <1>0, <4>1, LineIsDone
      <4> QED
        BY <4>2, <4>3, <4>4
    <3>5. LinesNoted' = [s \in DOMAIN LinesNoted \cup {t} |->
                            IF s = t THEN <<d, read[d]>> ELSE LinesNoted[s]]
      <4>1. \A s \in LineEnds : s \in 1..Len(file) /\ s # t
        BY <1>3, <2>1, <2>2 DEF LineEnds
      <4>2. \A s \in LineEnds : <<file'[s].dir, file'[s].line>> = LinesNoted[s]
        BY <1>3, <2>1, <2>2, <4>1 DEF LinesNoted
      <4>3. <<file'[t].dir, file'[t].line>> = <<d, read[d]>>
        BY <1>3, <2>1, <2>2
      <4>4. DOMAIN LinesNoted = LineEnds
        BY DEF LinesNoted
      <4>5. LinesNoted' = [s \in LineEnds \cup {t} |-> <<file'[s].dir, file'[s].line>>]
        BY <3>2 DEF LinesNoted
      <4> HIDE DEF t
      <4> QED
        BY <4>1, <4>2, <4>3, <4>4, <4>5
    <3>6. LinesDone'[d] = read[d]
      BY <3>4 DEF LinesDone
    <3>7. T!AddedLast(<<d, LinesDone'[d]>>)
      <4>1. DOMAIN LinesNoted = LineEnds /\ DOMAIN LinesNoted' = LineEnds'
        BY DEF LinesNoted
      <4> HIDE DEF t
      <4> QED
        BY <3>2, <3>3, <3>5, <3>6, <4>1 DEF T!AddedLast
    <3>8. LinesDone[d] < Len(LinesPassed[d]) /\ LinesPassed[d][LinesDone'[d]] = TRUE
      <4>0. item[d] \in Nat \ {0}
        BY <1>0 DEF Typing
      <4>1. Len(Messages(d, read[d])) > 0
        BY <3>1, <4>0
      <4>2. LinesPassed[d][fwd[d]] = (Len(Messages(d, fwd[d])) > 0)
        BY <3>4, PassedFacts
      <4> QED
        BY <3>4, <3>6, <4>1, <4>2, PassedFacts
    <3>9. T!Note(d)
      BY <2>2, <3>4, <3>7, <3>8 DEF T!Note
    <3> QED
      BY <3>9 DEF T!TapNext
  <2> QED
    BY <2>3, <2>4
<1> QED
  BY <1>2, <1>4, <1>5 DEF Forward, Silent

(* Every behaviour of the wrapper, whatever its peers write and its pipes  *)
(* hold, is one of Tap: each step passes a line on, notes one, or is not   *)
(* seen there.                                                             *)
THEOREM WrapperImplementsTap == Spec => ImplementsTap
<1>1. IInv /\ [Next]_vars => [T!TapNext]_(T!tapVars)
  BY PeerStutters, ForwardMaps, StepCases
<1> QED
  BY <1>1, InitMaps, InvAlways, PTL DEF Spec, ImplementsTap, T!TapSpec
===============================================================================
