------------------------------- MODULE StdioWrap -------------------------------
(***************************************************************************)
(* flightlog/mcp/wrap_stdio.py: run_wrap starts an MCP server as a child   *)
(* process and stands between it and the client.  Three daemon threads     *)
(* forward stdin, stdout and stderr line by line; the first two also       *)
(* append the JSON-RPC messages of each line they have forwarded to one    *)
(* transcript file, under write_lock.  The main thread waits for the child *)
(* and then joins every thread for at most one second.                     *)
(*                                                                         *)
(* The client, the wrapped server and the pipes between the processes are  *)
(* external.  A pipe is the part of `sent` (or of the lines forwarded)     *)
(* that its reader has not consumed; it holds at most PipeCap lines.       *)
(***************************************************************************)
EXTENDS JsonRpc, Integers, FiniteSets

CONSTANTS
    ClientTexts,   \* the lines the client may write, each at most once
    ServerTexts,   \* the lines the server may write, each at most once
    PipeCap,       \* lines a pipe holds before its writer blocks
    StderrLines    \* lines the server may write to its stderr

ASSUME PipeAssumption == PipeCap \in Nat \ {0} /\ StderrLines \in Nat

(* What parse_jsonrpc_payload returns is a list. *)
ASSUME ParseAssumption ==
    \A d \in Direction, t \in ClientTexts \cup ServerTexts :
        /\ Len(Parse(d, t)) \in Nat
        /\ DOMAIN Parse(d, t) = 1..Len(Parse(d, t))

VARIABLES
    sent,          \* sent[d]: the lines the origin of direction d has written
    read,          \* read[d]: how many of them the forwarding thread has read
    fwd,           \* fwd[d]: how many it has written to the destination's pipe
    recv,          \* recv[d]: how many the destination has consumed
    pc,            \* pc[d]: where the forwarding thread of d is
    item,          \* item[d]: the message of the line being appended
    lock,          \* the holder of write_lock, or "free"
    file,          \* the transcript: what append_message wrote, in order
    clientClosed,  \* the client has closed the wrapper's stdin
    clientGone,    \* the client has closed the wrapper's stdout as well
    stdinClosed,   \* stdin_pipe.close() was called
    alive,         \* the wrapped server runs
    errSent, errRead, errPc,   \* stderr: lines written, forwarded; its thread
    main,          \* the main thread: "wait", the thread it joins, or "exited"
    timedOut       \* the threads whose join timed out

clientVars == <<clientClosed, clientGone>>
errVars    == <<errSent, errRead, errPc>>
mainVars   == <<main, timedOut>>
threadVars == <<read, fwd, pc, item, lock, file, stdinClosed>>
vars == <<sent, recv, threadVars, clientVars, alive, errVars, mainVars>>

Texts(d) == IF d = C2S THEN ClientTexts ELSE ServerTexts

Threads == Direction \cup {"stderr"}

Messages(d, n) == Parse(d, sent[d][n])

(* An entry of the transcript names the message it was made from: message  *)
(* `item` of line `line` of direction `dir`.  append_message writes it in  *)
(* two parts, the JSON and the newline, which reach the file separately    *)
(* when the JSON is longer than the io buffer.                             *)
Fragment == [dir : Direction, line : Nat, item : Nat, part : {"body", "nl"}]

Current(d, part) ==
    [dir |-> d, line |-> read[d], item |-> item[d], part |-> part]

Init ==
    /\ sent = [d \in Direction |-> <<>>]
    /\ read = [d \in Direction |-> 0]
    /\ fwd  = [d \in Direction |-> 0]
    /\ recv = [d \in Direction |-> 0]
    /\ pc   = [d \in Direction |-> "read"]
    /\ item = [d \in Direction |-> 1]
    /\ lock = "free"
    /\ file = <<>>
    /\ clientClosed = FALSE /\ clientGone = FALSE
    /\ stdinClosed = FALSE
    /\ alive = TRUE
    /\ errSent = 0 /\ errRead = 0 /\ errPc = "read"
    /\ main = "wait" /\ timedOut = {}

-------------------------------------------------------------------------------
(* The pipes, and the two processes outside the wrapper.                   *)

InPipe(d)  == Len(sent[d]) - read[d]    \* origin -> wrapper
OutPipe(d) == fwd[d] - recv[d]          \* wrapper -> destination

OriginClosed(d) == IF d = C2S THEN clientClosed ELSE ~alive
DestinationOpen(d) == IF d = C2S THEN alive ELSE ~clientGone

(* The requests the origin of d has received from the other side.          *)
Heard(d) ==
    LET o == Opposite(d)
    IN  {m.id : m \in {x \in UNION {{Messages(o, n)[k] : k \in DOMAIN Messages(o, n)}
                                     : n \in 1..recv[o]} : x.kind = "request"}}

(* A peer writes a line it has not written yet, and answers only requests  *)
(* it has received.                                                        *)
MayWrite(d) ==
    {t \in Texts(d) :
        /\ \A n \in DOMAIN sent[d] : sent[d][n] # t
        /\ ~ParseRaises(t) =>
              \A k \in DOMAIN Parse(d, t) :
                 Parse(d, t)[k].kind = "response" => Parse(d, t)[k].id \in Heard(d)}

Write(d, t) ==
    /\ ~OriginClosed(d)
    /\ t \in MayWrite(d)
    /\ InPipe(d) < PipeCap
    /\ sent' = [sent EXCEPT ![d] = Append(@, t)]
    /\ UNCHANGED <<recv, threadVars, clientVars, alive, errVars, mainVars>>

Receive(d) ==
    /\ DestinationOpen(d)
    /\ recv[d] < fwd[d]
    /\ recv' = [recv EXCEPT ![d] = @ + 1]
    /\ UNCHANGED <<sent, threadVars, clientVars, alive, errVars, mainVars>>

ClientWrite == \E t \in ClientTexts : Write(C2S, t)
ServerWrite == \E t \in ServerTexts : Write(S2C, t)

ServerWriteStderr ==
    /\ alive
    /\ errSent < StderrLines /\ errSent - errRead < PipeCap
    /\ errSent' = errSent + 1
    /\ UNCHANGED <<sent, recv, threadVars, clientVars, alive, errRead, errPc, mainVars>>

ClientClose ==
    /\ ~clientClosed
    /\ clientClosed' = TRUE
    /\ UNCHANGED <<sent, recv, threadVars, clientGone, alive, errVars, mainVars>>

ClientHangUp ==
    /\ ~clientGone
    /\ clientGone' = TRUE /\ clientClosed' = TRUE
    /\ UNCHANGED <<sent, recv, threadVars, alive, errVars, mainVars>>

(* The server ends by itself at the end of its input, when it has written  *)
(* all it has to write ...                                                 *)
ServerExit ==
    /\ alive
    /\ stdinClosed /\ recv[C2S] = fwd[C2S]
    /\ MayWrite(S2C) = {} /\ errSent = StderrLines
    /\ alive' = FALSE
    /\ UNCHANGED <<sent, recv, threadVars, clientVars, errVars, mainVars>>

(* ... or at any moment, for reasons of its own.                           *)
ServerDies ==
    /\ alive
    /\ alive' = FALSE
    /\ UNCHANGED <<sent, recv, threadVars, clientVars, errVars, mainVars>>

-------------------------------------------------------------------------------
(* forward_stdin (d = C2S) and forward_stdout (d = S2C).  The process ends *)
(* with the main thread, and its daemon threads with it.                   *)

Running == main # "exited"

Readline(d) ==
    /\ Running /\ pc[d] = "read"
    /\ InPipe(d) > 0
    /\ read' = [read EXCEPT ![d] = @ + 1]
    /\ pc' = [pc EXCEPT ![d] = "write"]
    /\ UNCHANGED <<sent, recv, fwd, item, lock, file, stdinClosed,
                   clientVars, alive, errVars, mainVars>>

(* Mutant of ReadEof: the server's stdin is not closed. *)
ReadEofKeepsStdin(d) ==
    /\ Running /\ pc[d] = "read"
    /\ InPipe(d) = 0 /\ OriginClosed(d)
    /\ pc' = [pc EXCEPT ![d] = "done"]
    /\ UNCHANGED <<sent, recv, read, fwd, item, lock, file, stdinClosed,
                   clientVars, alive, errVars, mainVars>>

(* readline returns b"": the loop ends, and forward_stdin closes the       *)
(* server's stdin.                                                         *)
ReadEof(d) ==
    /\ Running /\ pc[d] = "read"
    /\ InPipe(d) = 0 /\ OriginClosed(d)
    /\ pc' = [pc EXCEPT ![d] = "done"]
    /\ stdinClosed' = (stdinClosed \/ d = C2S)
    /\ UNCHANGED <<sent, recv, read, fwd, item, lock, file,
                   clientVars, alive, errVars, mainVars>>

(* Mutants of WriteLine: a write that is retried after it went through,    *)
(* and a loop that forgets to capture.                                     *)
WriteLineRetried(d) ==
    /\ Running /\ pc[d] = "write"
    /\ DestinationOpen(d) /\ OutPipe(d) < PipeCap
    /\ fwd' = [fwd EXCEPT ![d] = @ + 1]
    /\ \E next \in {"write", "capture"} : pc' = [pc EXCEPT ![d] = next]
    /\ UNCHANGED <<sent, recv, read, item, lock, file, stdinClosed,
                   clientVars, alive, errVars, mainVars>>

WriteLineUncaptured(d) ==
    /\ Running /\ pc[d] = "write"
    /\ DestinationOpen(d) /\ OutPipe(d) < PipeCap
    /\ fwd' = [fwd EXCEPT ![d] = @ + 1]
    /\ pc' = [pc EXCEPT ![d] = "read"]
    /\ UNCHANGED <<sent, recv, read, item, lock, file, stdinClosed,
                   clientVars, alive, errVars, mainVars>>

WriteLine(d) ==
    /\ Running /\ pc[d] = "write"
    /\ DestinationOpen(d) /\ OutPipe(d) < PipeCap
    /\ fwd' = [fwd EXCEPT ![d] = @ + 1]
    /\ pc' = [pc EXCEPT ![d] = "capture"]
    /\ UNCHANGED <<sent, recv, read, item, lock, file, stdinClosed,
                   clientVars, alive, errVars, mainVars>>

(* write or flush raises BrokenPipeError, which nothing catches.           *)
WriteRaises(d) ==
    /\ Running /\ pc[d] = "write"
    /\ ~DestinationOpen(d)
    /\ pc' = [pc EXCEPT ![d] = "dead"]
    /\ UNCHANGED <<sent, recv, read, fwd, item, lock, file, stdinClosed,
                   clientVars, alive, errVars, mainVars>>

CaptureRaises(d) ==
    /\ Running /\ pc[d] = "capture"
    /\ ParseRaises(sent[d][read[d]])
    /\ pc' = [pc EXCEPT ![d] = "dead"]
    /\ UNCHANGED <<sent, recv, read, fwd, item, lock, file, stdinClosed,
                   clientVars, alive, errVars, mainVars>>

CaptureNothing(d) ==
    /\ Running /\ pc[d] = "capture"
    /\ ~ParseRaises(sent[d][read[d]])
    /\ Len(Messages(d, read[d])) = 0
    /\ pc' = [pc EXCEPT ![d] = "read"]
    /\ UNCHANGED <<sent, recv, read, fwd, item, lock, file, stdinClosed,
                   clientVars, alive, errVars, mainVars>>

(* Mutants of AcquireLock: the line is skipped when the lock is taken, and *)
(* no lock at all.                                                         *)
AcquireOrSkip(d) ==
    /\ Running /\ pc[d] = "capture"
    /\ ~ParseRaises(sent[d][read[d]])
    /\ Len(Messages(d, read[d])) > 0
    /\ IF lock = "free"
         THEN /\ lock' = d
              /\ item' = [item EXCEPT ![d] = 1]
              /\ pc' = [pc EXCEPT ![d] = "append"]
         ELSE /\ pc' = [pc EXCEPT ![d] = "read"]
              /\ UNCHANGED <<lock, item>>
    /\ UNCHANGED <<sent, recv, read, fwd, file, stdinClosed,
                   clientVars, alive, errVars, mainVars>>

AppendWithoutLock(d) ==
    /\ Running /\ pc[d] = "capture"
    /\ ~ParseRaises(sent[d][read[d]])
    /\ Len(Messages(d, read[d])) > 0
    /\ lock' = d
    /\ item' = [item EXCEPT ![d] = 1]
    /\ pc' = [pc EXCEPT ![d] = "append"]
    /\ UNCHANGED <<sent, recv, read, fwd, file, stdinClosed,
                   clientVars, alive, errVars, mainVars>>

AcquireLock(d) ==
    /\ Running /\ pc[d] = "capture"
    /\ ~ParseRaises(sent[d][read[d]])
    /\ Len(Messages(d, read[d])) > 0
    /\ lock = "free"
    /\ lock' = d
    /\ item' = [item EXCEPT ![d] = 1]
    /\ pc' = [pc EXCEPT ![d] = "append"]
    /\ UNCHANGED <<sent, recv, read, fwd, file, stdinClosed,
                   clientVars, alive, errVars, mainVars>>

AppendBody(d) ==
    /\ Running /\ pc[d] = "append"
    /\ file' = Append(file, Current(d, "body"))
    /\ pc' = [pc EXCEPT ![d] = "newline"]
    /\ UNCHANGED <<sent, recv, read, fwd, item, lock, stdinClosed,
                   clientVars, alive, errVars, mainVars>>

(* Mutants of AppendNewline: the message is appended again and again, and  *)
(* the lock is released after the first message of a batch.                *)
AppendNewlineRepeats(d) ==
    /\ Running /\ pc[d] = "newline"
    /\ file' = Append(file, Current(d, "nl"))
    /\ IF item[d] < Len(Messages(d, read[d]))
         THEN pc' = [pc EXCEPT ![d] = "append"] /\ UNCHANGED lock
         ELSE pc' = [pc EXCEPT ![d] = "read"] /\ lock' = "free"
    /\ UNCHANGED <<sent, recv, read, fwd, item, stdinClosed,
                   clientVars, alive, errVars, mainVars>>

AppendNewlineReleases(d) ==
    /\ Running /\ pc[d] = "newline"
    /\ file' = Append(file, Current(d, "nl"))
    /\ lock' = "free"
    /\ IF item[d] < Len(Messages(d, read[d]))
         THEN /\ item' = [item EXCEPT ![d] = @ + 1]
              /\ pc' = [pc EXCEPT ![d] = "append"]
         ELSE /\ pc' = [pc EXCEPT ![d] = "read"]
              /\ UNCHANGED item
    /\ UNCHANGED <<sent, recv, read, fwd, stdinClosed,
                   clientVars, alive, errVars, mainVars>>

(* The newline ends the append; the loop goes on with the next message of  *)
(* the line, or releases the lock.                                         *)
AppendNewline(d) ==
    /\ Running /\ pc[d] = "newline"
    /\ file' = Append(file, Current(d, "nl"))
    /\ IF item[d] < Len(Messages(d, read[d]))
         THEN /\ item' = [item EXCEPT ![d] = @ + 1]
              /\ pc' = [pc EXCEPT ![d] = "append"]
              /\ UNCHANGED lock
         ELSE /\ lock' = "free"
              /\ pc' = [pc EXCEPT ![d] = "read"]
              /\ UNCHANGED item
    /\ UNCHANGED <<sent, recv, read, fwd, stdinClosed,
                   clientVars, alive, errVars, mainVars>>

Forward(d) ==
    \/ Readline(d) \/ ReadEof(d) \/ WriteLine(d) \/ WriteRaises(d)
    \/ CaptureRaises(d) \/ CaptureNothing(d)
    \/ AcquireLock(d) \/ AppendBody(d) \/ AppendNewline(d)

(* forward_stderr: the wrapper's own stderr always takes the line.         *)
ForwardStderr ==
    /\ Running /\ errPc = "read"
    /\ \/ /\ errRead < errSent
          /\ errRead' = errRead + 1
          /\ UNCHANGED errPc
       \/ /\ errRead = errSent /\ ~alive
          /\ errPc' = "done"
          /\ UNCHANGED errRead
    /\ UNCHANGED <<sent, recv, threadVars, clientVars, alive, errSent, mainVars>>

-------------------------------------------------------------------------------
(* The main thread: process.wait(), then a join of every thread in turn.   *)

Ended(t) == IF t = "stderr" THEN errPc = "done" ELSE pc[t] \in {"done", "dead"}

AfterJoin(t) == IF t = C2S THEN S2C ELSE IF t = S2C THEN "stderr" ELSE "exited"

WaitReturns ==
    /\ main = "wait" /\ ~alive
    /\ main' = C2S
    /\ UNCHANGED <<sent, recv, threadVars, clientVars, alive, errVars, timedOut>>

(* Mutant of JoinReturns: the threads are not waited for. *)
JoinSkipped(t) ==
    /\ main = t
    /\ main' = AfterJoin(t)
    /\ UNCHANGED <<sent, recv, threadVars, clientVars, alive, errVars, timedOut>>

JoinReturns(t) ==
    /\ main = t /\ Ended(t)
    /\ main' = AfterJoin(t)
    /\ UNCHANGED <<sent, recv, threadVars, clientVars, alive, errVars, timedOut>>

(* Mutant of JoinTimesOut: a join without a timeout. *)
JoinForever(t) == JoinReturns(t)

JoinTimesOut(t) ==
    /\ main = t /\ ~Ended(t)
    /\ main' = AfterJoin(t)
    /\ timedOut' = timedOut \cup {t}
    /\ UNCHANGED <<sent, recv, threadVars, clientVars, alive, errVars>>

Join == \E t \in Threads : JoinReturns(t) \/ JoinTimesOut(t)

Terminated == main = "exited" /\ UNCHANGED vars

Next ==
    \/ ClientWrite \/ ClientClose \/ ClientHangUp
    \/ ServerWrite \/ ServerWriteStderr \/ ServerExit \/ ServerDies
    \/ \E d \in Direction : Receive(d)
    \/ \E d \in Direction : Forward(d)
    \/ ForwardStderr
    \/ WaitReturns \/ Join
    \/ Terminated

Spec == Init /\ [][Next]_vars

(* Every thread of the wrapper is scheduled and a pending join ends.  The  *)
(* peers consume what they are sent; the server writes what it has to say  *)
(* and stops at the end of its input.  The client need not close, and      *)
(* nothing need die.                                                       *)
Fairness ==
    /\ \A d \in Direction : WF_vars(Forward(d))
    /\ WF_vars(ForwardStderr)
    /\ WF_vars(WaitReturns) /\ WF_vars(Join)
    /\ \A d \in Direction : WF_vars(Receive(d))
    /\ WF_vars(ServerWrite) /\ WF_vars(ServerWriteStderr) /\ WF_vars(ServerExit)

FairSpec == Spec /\ Fairness
-------------------------------------------------------------------------------
(* Properties.                                                             *)

ThreadStates ==
    {"read", "write", "capture", "append", "newline", "done", "dead"}

(* Every variable keeps its type, and the counters of a direction never    *)
(* overtake one another: received <= forwarded <= read <= written.         *)
TypeOK ==
    /\ sent \in [Direction -> Seq(ClientTexts \cup ServerTexts)]
    /\ read \in [Direction -> Nat] /\ fwd \in [Direction -> Nat]
    /\ recv \in [Direction -> Nat] /\ item \in [Direction -> Nat \ {0}]
    /\ pc \in [Direction -> ThreadStates]
    /\ lock \in Direction \cup {"free"}
    /\ file \in Seq(Fragment)
    /\ clientClosed \in BOOLEAN /\ clientGone \in BOOLEAN
    /\ stdinClosed \in BOOLEAN /\ alive \in BOOLEAN
    /\ errSent \in Nat /\ errRead \in Nat /\ errPc \in {"read", "done"}
    /\ main \in Threads \cup {"wait", "exited"} /\ timedOut \in SUBSET Threads
    /\ \A d \in Direction :
          recv[d] <= fwd[d] /\ fwd[d] <= read[d] /\ read[d] <= Len(sent[d])

Bodies == {i \in DOMAIN file : file[i].part = "body"}

InTranscript(d, n, k) ==
    \E i \in DOMAIN file :
        file[i] = [dir |-> d, line |-> n, item |-> k, part |-> "body"]

(* The transcript holds only messages of lines that were passed on, and of *)
(* every line passed on but the last of its direction it holds them all:   *)
(* capture trails the forwarding by at most the line in the thread's hands *)
(* (write, flush, then capture in each loop of run_wrap).                  *)
CaptureFollowsForwarding ==
    /\ \A i \in DOMAIN file : file[i].line <= fwd[file[i].dir]
    /\ \A d \in Direction : \A n \in 1..(fwd[d] - 1) :
          \A k \in DOMAIN Messages(d, n) : InTranscript(d, n, k)

(* The messages of one direction stand in the transcript in the order of   *)
(* the wire, each at most once: two appends of a direction never swap and  *)
(* no line is captured twice.                                              *)
TranscriptInWireOrder ==
    \A i, j \in Bodies :
        (i < j /\ file[i].dir = file[j].dir) =>
            \/ file[i].line < file[j].line
            \/ file[i].line = file[j].line /\ file[i].item < file[j].item

(* iter_messages can read the file whenever it is opened: a JSON text is   *)
(* followed by its own newline and never by part of another append, which  *)
(* is what write_lock is for (append_message writes twice).                *)
NoTornLine ==
    \A i \in Bodies :
        i < Len(file) => file[i + 1] = [file[i] EXCEPT !.part = "nl"]

(* The messages of one line (a batch) are adjacent in the transcript:      *)
(* capture holds the lock over its loop, not around each append.           *)
BatchStaysTogether ==
    \A i, j \in DOMAIN file : \A m \in i..j :
        (file[i].dir = file[j].dir /\ file[i].line = file[j].line) =>
            file[m].dir = file[i].dir /\ file[m].line = file[i].line

(* When the wrapper ends and the join of the stdout thread did not time    *)
(* out, then what the server wrote before it ended was passed to the       *)
(* client and is in the transcript: the drain that join is for.  Unless    *)
(* the client hung up, and only up to the first line that McpMessage       *)
(* refuses: its exception ends the thread, the join returns at once, and   *)
(* nothing the server writes after that line is passed on or captured.     *)
JoinedOutputIsComplete ==
    (main = "exited" /\ S2C \notin timedOut /\ ~clientGone) =>
        \A n \in DOMAIN sent[S2C] :
            (\A k \in 1..n : ~ParseRaises(sent[S2C][k])) =>
                /\ n <= fwd[S2C]
                /\ \A k \in DOMAIN Messages(S2C, n) : InTranscript(S2C, n, k)

(* Once the server has ended, run_wrap returns, even if the client never   *)
(* closes its end and the stdin thread stays blocked in readline.          *)
ServerEndEndsWrapper == ~alive ~> main = "exited"

(* Nobody reads what the server writes any more, and it writes on: an      *)
(* exception in capture has ended the stdout thread, and the pipe is full. *)
ServerBlocked ==
    /\ alive /\ pc[S2C] = "dead"
    /\ InPipe(S2C) = PipeCap /\ MayWrite(S2C) # {}

(* A client that closes its end (and still reads) ends the whole chain:    *)
(* the stdin thread passes the end of file on, the stdout and stderr       *)
(* threads keep the server from blocking, the server ends, run_wrap        *)
(* returns.  An exception in capture breaks the chain in two ways, and     *)
(* nothing else does: it kills the stdin thread, and nobody closes the     *)
(* server's stdin; or it kills the stdout thread, and the server blocks    *)
(* for ever on a full pipe, with run_wrap waiting for it.                  *)
CloseEndsWrapper ==
    clientClosed ~>
        \/ main = "exited"
        \/ clientGone
        \/ pc[C2S] = "dead"
        \/ ServerBlocked

(* The wrapper as Tap sees it: a line is done with when its thread goes    *)
(* back to readline, and noted with the newline of its last message.       *)
LineEnds ==
    {i \in DOMAIN file :
        file[i].part = "nl" /\ file[i].item = Len(Messages(file[i].dir, file[i].line))}

LinesNoted == [i \in LineEnds |-> <<file[i].dir, file[i].line>>]

LinesDone == [d \in Direction |-> IF pc[d] \in {"read", "done"} THEN read[d] ELSE read[d] - 1]

LinesPassed == [d \in Direction |-> [n \in 1..fwd[d] |-> Len(Messages(d, n)) > 0]]

T == INSTANCE Tap WITH
        Directions <- Direction, passed <- LinesPassed, noted <- LinesDone,
        log <- LinesNoted

(* Every behaviour of the wrapper is one Tap allows: for each direction a  *)
(* line is passed on, and is noted if it carries a message, before the     *)
(* next one.                                                               *)
ImplementsTap == T!TapSpec
==============================================================================
