------------------------------- MODULE HttpProxy -------------------------------
(***************************************************************************)
(* flightlog/mcp/proxy_http.py: the capturing HTTP proxy.  Every exchange  *)
(* has a handler thread of its own (ThreadingHTTPServer): it reads the     *)
(* request and captures it, asks the upstream server, passes the answer    *)
(* on, whole or piece by piece, and captures it.  All handlers append to   *)
(* one transcript.  Reads from the client and writes to it have no         *)
(* timeout; reads from the upstream server have one, each of its own.      *)
(*                                                                         *)
(* An exchange is [request, kind, answer]: the JSON values of its bodies   *)
(* (JsonRpc) and whether the answer is "plain" (with a length), "chunked"  *)
(* or "sse".  Each value arrives in two pieces, and an SSE event is one    *)
(* value, so an answer can break off between two values or within one.     *)
(***************************************************************************)
EXTENDS StubGen

CONSTANTS
    Exchanges,   \* what clients and upstream may exchange, each at most once
    Long,        \* the objects whose text is longer than the buffer of a file
    MaxAtOnce    \* bound: handlers at work at once

Kinds == {"plain", "chunked", "sse"}

ASSUME HttpProxyAssumption ==
    /\ \A x \in Exchanges : x.kind \in Kinds /\ x.answer \in Seq(ToSet(x.answer))
    /\ MaxAtOnce \in Nat

(* A piece of SSE is parsed event by event, any other body as a whole. *)
Total(x) == 2 * Len(x.answer)

TextOf(x, pieces) ==
    IF x.kind = "sse" THEN SubSeq(x.answer, 1, pieces \div 2)
    ELSE IF pieces = Total(x) THEN x.answer ELSE <<>>

Texts == {x.request : x \in Exchanges}
           \cup UNION {{TextOf(x, n) : n \in 0..Total(x)} : x \in Exchanges}

(* What parse_jsonrpc_payload returns is a list, for no text an empty one. *)
ASSUME ParsedAssumption ==
    \A d \in Direction :
        /\ Parse(d, <<>>) = <<>>
        /\ \A text \in Texts : Len(Parse(d, text)) \in Nat
                               /\ DOMAIN Parse(d, text) = 1..Len(Parse(d, text))

VARIABLES
    pc,       \* where the handler of an exchange is
    arrived,  \* pieces of the answer the handler has read
    passed,   \* pieces of the answer the client was sent
    todo,     \* the messages still to append
    partly,   \* the first of them is half written
    file      \* the transcript: the writes to it, in order

vars == <<pc, arrived, passed, todo, partly, file>>

Init ==
    /\ pc = [x \in Exchanges |-> "none"]
    /\ arrived = [x \in Exchanges |-> 0] /\ passed = [x \in Exchanges |-> 0]
    /\ todo = [x \in Exchanges |-> <<>>] /\ partly = [x \in Exchanges |-> FALSE]
    /\ file = <<>>

(* A handler that ended: it came to its end ("done"), or an exception did: *)
(* the client was gone before its request had arrived ("cut short") or     *)
(* while it was written to ("hung up"), McpMessage refused a message       *)
(* ("invalid"), the upstream server gave no answer ("failed"), or the      *)
(* connection to it broke in the middle of a stream ("broken").            *)
Ended == {"done", "invalid", "cut short", "failed", "hung up", "broken"}

Goto(x, place) == pc' = [pc EXCEPT ![x] = place]

Raise(x, cause) == Goto(x, cause) /\ UNCHANGED <<todo, partly, file>>

-------------------------------------------------------------------------------
(* _capture: all messages of the body are made first, then appended.       *)

Items(d, text) == [k \in DOMAIN Parse(d, text) |-> [message |-> Parse(d, text)[k], nr |-> k]]

Capture(x, d, text, place) ==
    IF ParseRaises(text)
      THEN Raise(x, "invalid")
      ELSE /\ todo' = [todo EXCEPT ![x] = Items(d, text)]
           /\ Goto(x, place)
           /\ UNCHANGED <<partly, file>>

ToAppend(x) == pc[x] \in {"request", "response"} /\ todo[x] # <<>>

IsLong(item) == \E object \in Long : McpMessage(item.message.direction, object) = item.message

Write(x, part) == file' = Append(file, [exchange |-> x, item |-> Head(todo[x]), part |-> part])

(* The text and the newline of a message are written to the file at once,  *)
(* when it is closed, unless the text overflows the buffer.                *)
AppendShort(x) ==
    /\ ToAppend(x) /\ ~IsLong(Head(todo[x]))
    /\ Write(x, "line")
    /\ todo' = [todo EXCEPT ![x] = Tail(@)]
    /\ UNCHANGED <<pc, arrived, passed, partly>>

AppendBody(x) ==
    /\ ToAppend(x) /\ IsLong(Head(todo[x])) /\ ~partly[x]
    /\ Write(x, "body")
    /\ partly' = [partly EXCEPT ![x] = TRUE]
    /\ UNCHANGED <<pc, arrived, passed, todo>>

AppendNewline(x) ==
    /\ ToAppend(x) /\ partly[x]
    /\ Write(x, "newline")
    /\ todo' = [todo EXCEPT ![x] = Tail(@)]
    /\ partly' = [partly EXCEPT ![x] = FALSE]
    /\ UNCHANGED <<pc, arrived, passed>>

-------------------------------------------------------------------------------
(* _do_proxy_request.                                                      *)

AtWork == {x \in Exchanges : pc[x] \notin Ended \cup {"none"}}

Accept(x) ==
    /\ pc[x] = "none" /\ Cardinality(AtWork) < MaxAtOnce
    /\ Goto(x, "receive")
    /\ UNCHANGED <<arrived, passed, todo, partly, file>>

ReadRequest(x) ==
    /\ pc[x] = "receive"
    /\ Capture(x, C2S, x.request, "request")
    /\ UNCHANGED <<arrived, passed>>

(* Half a request holds no message, and is not sent to the upstream server *)
(* under the length of the whole one.                                      *)
RequestBreaksOff(x) ==
    /\ pc[x] = "receive"
    /\ Raise(x, "cut short")
    /\ UNCHANGED <<arrived, passed>>

(* Mutant of Ask: the capture is left for later. *)
AskAtOnce(x) ==
    /\ pc[x] = "request"
    /\ Goto(x, "upstream")
    /\ UNCHANGED <<arrived, passed, todo, partly, file>>

Ask(x) ==
    /\ pc[x] = "request" /\ todo[x] = <<>>
    /\ Goto(x, "upstream")
    /\ UNCHANGED <<arrived, passed, todo, partly, file>>

(* Mutant of UpstreamFails: no timeout for the body. *)
UpstreamFailsToConnect(x) ==
    /\ pc[x] = "upstream"
    /\ Raise(x, "failed")
    /\ UNCHANGED <<arrived, passed>>

(* No connection, a timeout of 30 seconds, or no valid response. *)
UpstreamFails(x) ==
    /\ pc[x] \in {"upstream", "read"}
    /\ Raise(x, "failed")
    /\ UNCHANGED <<arrived, passed>>

(* The headers of a streamed answer are written at once. *)
UpstreamResponds(x) ==
    /\ pc[x] = "upstream"
    /\ Goto(x, IF x.kind = "plain" THEN "read" ELSE "write")
    /\ UNCHANGED <<arrived, passed, todo, partly, file>>

PlainAnswer(x) ==
    /\ pc[x] = "read"
    /\ arrived' = [arrived EXCEPT ![x] = Total(x)]
    /\ Goto(x, "write")
    /\ UNCHANGED <<passed, todo, partly, file>>

(* A chunk may end a piece, several, or none. *)
StreamChunk(x) ==
    /\ pc[x] = "stream"
    /\ \E n \in arrived[x]..Total(x) : arrived' = [arrived EXCEPT ![x] = n]
    /\ Goto(x, "write")
    /\ UNCHANGED <<passed, todo, partly, file>>

(* The client takes what is written to it.  A plain answer is captured     *)
(* then, a chunk put aside for the capture.                                *)
PassOn(x) ==
    /\ pc[x] = "write"
    /\ passed' = [passed EXCEPT ![x] = arrived[x]]
    /\ IF x.kind = "plain"
         THEN Capture(x, S2C, TextOf(x, arrived[x]), "response")
         ELSE Goto(x, "stream") /\ UNCHANGED <<todo, partly, file>>
    /\ UNCHANGED arrived

(* Mutant of ClientHasHungUp: what arrived is captured, sent or not. *)
ClientHungUpCaptures(x) ==
    /\ pc[x] = "write"
    /\ Capture(x, S2C, TextOf(x, arrived[x]), "response")
    /\ UNCHANGED <<arrived, passed>>

(* The write to a client that has hung up raises; only flush, after it, is *)
(* guarded.                                                                *)
ClientHasHungUp(x) ==
    /\ pc[x] = "write"
    /\ Raise(x, "hung up")
    /\ UNCHANGED <<arrived, passed>>

CaptureArrived(x) ==
    /\ pc[x] = "stream"
    /\ Capture(x, S2C, TextOf(x, arrived[x]), "response")
    /\ UNCHANGED <<arrived, passed>>

StreamEnds(x) == arrived[x] = Total(x) /\ CaptureArrived(x)

(* Mutant of StreamTimesOut: a ReadTimeout is not caught. *)
StreamTimeoutRaises(x) ==
    /\ pc[x] = "stream"
    /\ Raise(x, "failed")
    /\ UNCHANGED <<arrived, passed>>

(* After a ReadTimeout what has arrived is captured. *)
StreamTimesOut(x) == CaptureArrived(x)

(* The connection to the upstream server breaks.  That ends an SSE body    *)
(* with neither chunks nor length; in any other, or if the connection is   *)
(* reset, it raises something else than a ReadTimeout.                     *)
StreamBreaks(x) ==
    \/ x.kind = "sse" /\ CaptureArrived(x)
    \/ pc[x] = "stream" /\ Raise(x, "broken") /\ UNCHANGED <<arrived, passed>>

Finish(x) ==
    /\ pc[x] = "response" /\ todo[x] = <<>>
    /\ Goto(x, "done")
    /\ UNCHANGED <<arrived, passed, todo, partly, file>>

-------------------------------------------------------------------------------
(* What a handler does by itself: it runs, and it ends its wait for an     *)
(* upstream server that is silent for 30 seconds.                          *)
Handler(x) ==
    \/ AppendShort(x) \/ AppendBody(x) \/ AppendNewline(x)
    \/ Ask(x) \/ UpstreamFails(x) \/ StreamTimesOut(x)
    \/ Finish(x)

Client(x) ==
    \/ Accept(x) \/ ReadRequest(x) \/ RequestBreaksOff(x)
    \/ PassOn(x) \/ ClientHasHungUp(x)

Upstream(x) ==
    \/ UpstreamResponds(x) \/ PlainAnswer(x)
    \/ StreamChunk(x) \/ StreamEnds(x) \/ StreamBreaks(x)

Next == \E x \in Exchanges : Handler(x) \/ Client(x) \/ Upstream(x)

(* Threads run, and the timeouts of a silent upstream server come.  A      *)
(* client has to send and to take nothing, and an upstream server may      *)
(* answer or not, and stream as long as it likes.                          *)
Spec == Init /\ [][Next]_vars /\ \A x \in Exchanges : WF_vars(Handler(x))

-------------------------------------------------------------------------------
(* Properties.                                                             *)

TypeOK ==
    /\ pc \in [Exchanges ->
                Ended \cup {"none", "receive", "request", "upstream", "read", "write",
                            "stream", "response"}]
    /\ \A x \in Exchanges : passed[x] <= arrived[x] /\ arrived[x] <= Total(x)
    /\ \A x \in Exchanges : partly[x] => todo[x] # <<>> /\ IsLong(Head(todo[x]))

(* The messages of the transcript, by the write that starts each: all of   *)
(* them, and where those of one side of an exchange stand.                 *)
Starts == {i \in DOMAIN file : file[i].part # "newline"}
Captured == [n \in 1..Cardinality(Starts) |-> file[Nth(Starts, n)]]
CapturedMessages == [n \in DOMAIN Captured |-> Captured[n].item.message]

CapturedOf(x, d) ==
    {i \in DOMAIN file :
        /\ file[i].part # "newline"
        /\ file[i].exchange = x /\ file[i].item.message.direction = d}

(* How many of them there are up to a place in the file.                   *)
CountUpTo(x, d, j) == Cardinality({i \in CapturedOf(x, d) : i <= j})

(* The transcript is a file of lines: a message that is written in two is  *)
(* not mixed with another.                                                 *)
NoTornLine ==
    \A i \in 1..(Len(file) - 1) :
        file[i].part = "body" =>
            file[i + 1] = [file[i] EXCEPT !.part = "newline"]

(* A request is in the transcript before anyone can answer it, so its      *)
(* answer comes after it, whatever other exchanges are at work (the stdio  *)
(* wrapper captures last and promises no such thing).                      *)
RequestsPrecedeAnswers ==
    \A x \in Exchanges : \A j \in CapturedOf(x, S2C) :
        CountUpTo(x, C2S, j) = Len(Parse(C2S, x.request))

(* What is captured of an answer had been sent to the client, and stands   *)
(* in the order it was sent in: the capture shows nothing that the client  *)
(* cannot have seen, and nothing twice.                                    *)
CapturedWasPassedOn ==
    \A x \in Exchanges :
        LET sent == Parse(S2C, TextOf(x, passed[x]))
        IN  \A j \in CapturedOf(x, S2C) :
                /\ CountUpTo(x, S2C, j) \in DOMAIN sent
                /\ file[j].item.message = sent[CountUpTo(x, S2C, j)]

(* A handler whose request arrived has captured it when it ends, and it    *)
(* has captured every message of the answer that arrived whole, although   *)
(* the upstream server may fall silent at any time.  It loses the answer   *)
(* when the client hangs up or the connection to the upstream server       *)
(* breaks, what was passed on of it included.                              *)
ArrivedIsCaptured ==
    \A x \in Exchanges :
        /\ pc[x] \in Ended \ {"invalid", "cut short"} =>
              Cardinality(CapturedOf(x, C2S)) = Len(Parse(C2S, x.request))
        /\ pc[x] \in {"done", "failed"} =>
              Cardinality(CapturedOf(x, S2C)) = Len(Parse(S2C, TextOf(x, arrived[x])))

(* What the two sides of an exchange have said so far.                     *)
Said(x, d) == Parse(d, IF d = C2S THEN x.request ELSE TextOf(x, arrived[x]))

Received == {x \in Exchanges : pc[x] \notin {"none", "receive", "cut short"}}

(* No two requests and no two responses have one id, whoever sends them.   *)
IdsUsedOnce ==
    \A x, y \in Received : \A d, e \in Direction :
        \A k \in DOMAIN Said(x, d), l \in DOMAIN Said(y, e) :
            LET m == Said(x, d)[k]
                n == Said(y, e)[l]
            IN  /\ SameId(m, n)
                /\ (IsRequest(m) /\ IsRequest(n)) \/ (IsResponse(m) /\ IsResponse(n))
                => x = y /\ d = e /\ k = l

(* What the upstream server answers was asked in the same exchange.        *)
IsAsked(x, response, request) ==
    /\ request \in ToSet(Said(x, C2S)) /\ IsRequest(request)
    /\ SameId(request, response)

OwnAnswers ==
    \A x \in Received :
        /\ \A m \in ToSet(Said(x, C2S)) : ~IsResponse(m)
        /\ \A m \in ToSet(Said(x, S2C)) :
              IsResponse(m) => \E request \in ToSet(Said(x, C2S)) : IsAsked(x, m, request)

(* The stub generated from the transcript lists for each key the captured  *)
(* answers of the exchanges that asked for it, once each and in order,     *)
(* although the messages of concurrent exchanges are mixed and a handler   *)
(* may end with the request captured and the answer not.                   *)
AnswersTo(key) ==
    {n \in DOMAIN Captured :
        LET message == Captured[n].item.message
            x == Captured[n].exchange
        IN  IsResponse(message)
            /\ \E request \in ToSet(Said(x, C2S)) :
                   IsAsked(x, message, request) /\ Key(request) = key}

KeysAsked == UNION {{Key(m) : m \in ToSet(Said(x, C2S))} : x \in Received}

StubPairsExchanges ==
    IdsUsedOnce /\ OwnAnswers =>
        LET stub == GenerateStub(CapturedMessages)
        IN  \A key \in DOMAIN stub \cup KeysAsked :
                LET answers == AnswersFor(stub, key)
                    places == AnswersTo(key)
                IN  /\ Len(answers) = Cardinality(places)
                    /\ \A n \in places :
                          answers[Cardinality({k \in places : k <= n})] =
                              Captured[n].item.message.answer

(* No upstream server holds a handler for ever by being silent, before its *)
(* answer or within it: a handler ends, unless its client stops sending    *)
(* the request or taking the answer, or the upstream server sends chunk    *)
(* after chunk of a stream without end.                                    *)
HandlersEnd ==
    \A x \in Exchanges :
        \/ <>[](pc[x] \in {"none", "receive"})
        \/ []<>(pc[x] = "write")
        \/ <>(pc[x] \in Ended)
===============================================================================
