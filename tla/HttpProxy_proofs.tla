---------------------------- MODULE HttpProxy_proofs ----------------------------
(***************************************************************************)
(* The safety theorems of HttpProxy, for any exchanges, any texts that     *)
(* overflow a buffer and any number of handlers at work.                   *)
(***************************************************************************)
EXTENDS HttpProxy, StubGen_proofs

Item == UNION {ToSet(Items(d, text)) : d \in Direction, text \in Texts}

FileWrite == [exchange : Exchanges, item : Item, part : {"line", "body", "newline"}]

Places ==
    Ended \cup {"none", "receive", "request", "upstream", "read", "write", "stream", "response"}

Typing ==
    /\ pc \in [Exchanges -> Places]
    /\ arrived \in [Exchanges -> Nat] /\ passed \in [Exchanges -> Nat]
    /\ todo \in [Exchanges -> Seq(Item)] /\ partly \in [Exchanges -> BOOLEAN]
    /\ file \in Seq(FileWrite)

(* The messages of an exchange: those of the request, those of the answer  *)
(* as far as it has arrived, and how many of them have been captured.      *)
Asked(x) == Parse(C2S, x.request)
Heard(x) == Parse(S2C, TextOf(x, arrived[x]))

Count(x, d) == Cardinality(CapturedOf(x, d))

(* What is left to append of some messages is the end of them; the first   *)
(* of these may be begun.                                                  *)
Begun(x) == IF partly[x] THEN 1 ELSE 0

Rest(x, d, messages) ==
    /\ Len(todo[x]) <= Len(messages)
    /\ Count(x, d) = (Len(messages) - Len(todo[x])) + Begun(x)
    /\ \A k \in 1..Len(todo[x]) :
          todo[x][k].message = messages[(Len(messages) - Len(todo[x])) + k]

Unread == {"none", "receive", "cut short"}
Before == {"none", "receive", "cut short", "request", "upstream", "read", "failed"}

(* How far the handler of an exchange is, and what it has captured by then.*)
AnswerSoFar(x) ==
    /\ passed[x] <= arrived[x] /\ arrived[x] <= Total(x)
    /\ pc[x] \in Before => arrived[x] = 0
    /\ pc[x] \notin {"write", "hung up"} => passed[x] = arrived[x]

QueueSoFar(x) ==
    /\ pc[x] \notin {"request", "response"} => todo[x] = <<>>
    /\ partly[x] => todo[x] # <<>> /\ IsLong(Head(todo[x]))

CountsSoFar(x) ==
    /\ pc[x] \in Unread => Count(x, C2S) = 0
    /\ pc[x] = "request" => Rest(x, C2S, Asked(x))
    /\ pc[x] \notin Unread \cup {"request", "invalid"} => Count(x, C2S) = Len(Asked(x))
    /\ pc[x] \notin {"response", "done"} => Count(x, S2C) = 0
    /\ pc[x] = "response" => Rest(x, S2C, Heard(x))
    /\ pc[x] = "done" => Count(x, S2C) = Len(Heard(x))

(* The transcript: the messages of a side stand in their order, those of   *)
(* an answer behind those of the request.                                  *)
StandsInOrder(x, d, messages) ==
    \A j \in CapturedOf(x, d) :
        /\ CountUpTo(x, d, j) \in 1..Len(messages)
        /\ file[j].item.message = messages[CountUpTo(x, d, j)]

FileSoFar(x) ==
    /\ StandsInOrder(x, C2S, Asked(x)) /\ StandsInOrder(x, S2C, Heard(x))
    /\ \A j \in CapturedOf(x, S2C) : CountUpTo(x, C2S, j) = Len(Asked(x))

SoFar(x) == AnswerSoFar(x) /\ QueueSoFar(x) /\ CountsSoFar(x) /\ FileSoFar(x)

IInv == Typing /\ \A x \in Exchanges : SoFar(x)

-------------------------------------------------------------------------------
(* Texts and their messages.                                               *)

LEMMA AnswerTexts ==
    ASSUME NEW x \in Exchanges
    PROVE  /\ x.request \in Texts /\ Total(x) \in Nat
           /\ \A n \in 0..Total(x) : TextOf(x, n) \in Texts
           /\ TextOf(x, Total(x)) = x.answer
           /\ TextOf(x, 0) = <<>>
  <1>1. x.answer \in Seq(ToSet(x.answer))
    BY HttpProxyAssumption
  <1> DEFINE answer == x.answer
  <1>2. answer \in Seq(ToSet(answer)) /\ Len(answer) \in Nat
    BY <1>1
  <1>3. Total(x) = 2 * Len(answer) /\ Total(x) \in Nat
    BY <1>2 DEF Total
  <1>4. SubSeq(answer, 1, Len(answer)) = answer /\ SubSeq(answer, 1, 0) = <<>>
    <2> HIDE DEF answer
    <2> QED
      BY <1>2
  <1>5. TextOf(x, Total(x)) = x.answer
    <2>1. \A n \in Nat : (2 * n) \div 2 = n
      OBVIOUS
    <2>2. Total(x) \div 2 = Len(answer)
      BY <1>2, <1>3, <2>1
    <2> QED
      BY <1>4, <2>2 DEF TextOf
  <1>6. TextOf(x, 0) = <<>>
    <2>1. 0 \div 2 = 0
      OBVIOUS
    <2>2. Total(x) = 0 => x.answer = <<>>
      <3> HIDE DEF answer
      <3>1. Total(x) = 0 => answer = <<>>
        BY <1>2, <1>3
      <3> QED
        BY <3>1 DEF answer
    <2> QED
      BY <1>4, <2>1, <2>2 DEF TextOf
  <1> QED
    BY <1>3, <1>5, <1>6 DEF Texts

LEMMA Messages ==
    ASSUME NEW d \in Direction, NEW text \in Texts
    PROVE  /\ Len(Parse(d, text)) \in Nat
           /\ \A k \in 1..Len(Parse(d, text)) : Parse(d, text)[k].direction = d
           /\ Items(d, text) \in Seq(Item) /\ Len(Items(d, text)) = Len(Parse(d, text))
           /\ \A k \in 1..Len(Parse(d, text)) : Items(d, text)[k].message = Parse(d, text)[k]
  <1> DEFINE n == Len(Parse(d, text))
  <1>1. n \in Nat /\ DOMAIN Parse(d, text) = 1..n
    BY ParsedAssumption
  <1>2. \A k \in 1..n : Parse(d, text)[k].direction = d
    BY <1>1 DEF Parse, McpMessage
  <1>3. Items(d, text) = [k \in 1..n |-> [message |-> Parse(d, text)[k], nr |-> k]]
    BY <1>1 DEF Items
  <1>4. \A k \in 1..n : Items(d, text)[k] \in Item
    <2>1. \A k \in 1..n : Items(d, text)[k] \in ToSet(Items(d, text))
      BY <1>3 DEF ToSet
    <2> QED
      BY <2>1 DEF Item
  <1> HIDE DEF n
  <1>5. Items(d, text) \in Seq(Item) /\ Len(Items(d, text)) = n
    BY <1>1, <1>3, <1>4
  <1> QED
    BY <1>1, <1>2, <1>3, <1>5 DEF n

(* What has been asked and heard are such messages.                        *)
LEMMA AskedAndHeard ==
    ASSUME Typing, NEW x \in Exchanges, AnswerSoFar(x)
    PROVE  /\ x.request \in Texts /\ TextOf(x, arrived[x]) \in Texts
           /\ Len(Asked(x)) \in Nat /\ Len(Heard(x)) \in Nat
           /\ \A k \in 1..Len(Asked(x)) : Asked(x)[k].direction = C2S
           /\ \A k \in 1..Len(Heard(x)) : Heard(x)[k].direction = S2C
  <1>1. arrived[x] \in 0..Total(x)
    <2>1. arrived[x] \in Nat /\ Total(x) \in Nat
      BY AnswerTexts DEF Typing
    <2>2. arrived[x] <= Total(x)
      BY DEF AnswerSoFar
    <2> QED
      BY <2>1, <2>2
  <1>2. x.request \in Texts /\ TextOf(x, arrived[x]) \in Texts
    BY <1>1, AnswerTexts
  <1> QED
    BY <1>2, Messages DEF Asked, Heard, Direction

-------------------------------------------------------------------------------
(* The transcript.                                                         *)

LEMMA CapturedFinite ==
    ASSUME Typing, NEW x, NEW d
    PROVE  /\ Len(file) \in Nat /\ DOMAIN file = 1..Len(file)
           /\ CapturedOf(x, d) \subseteq 1..Len(file)
           /\ IsFiniteSet(CapturedOf(x, d)) /\ Count(x, d) \in Nat
           /\ Count(x, d) = 0 => CapturedOf(x, d) = {}
  <1>1. Len(file) \in Nat /\ DOMAIN file = 1..Len(file)
    BY DEF Typing
  <1>2. CapturedOf(x, d) \subseteq 1..Len(file)
    BY <1>1 DEF CapturedOf
  <1>3. IsFiniteSet(CapturedOf(x, d))
    <2>1. IsFiniteSet(1..Len(file))
      BY <1>1, FS_Interval
    <2> QED
      BY <1>2, <2>1, FS_Subset
  <1>4. Count(x, d) \in Nat
    BY <1>3, FS_CardinalityType DEF Count
  <1>5. Count(x, d) = 0 => CapturedOf(x, d) = {}
    BY <1>3, FS_EmptySet DEF Count
  <1> QED
    BY <1>1, <1>2, <1>3, <1>4, <1>5

(* The file and the exchanges a write is not for.                          *)
LEMMA AppendedWrite ==
    ASSUME Typing, NEW w \in FileWrite, file' = Append(file, w)
    PROVE  /\ file' \in Seq(FileWrite) /\ Len(file) \in Nat
           /\ \A j \in 1..Len(file) : file'[j] = file[j]
           /\ file'[Len(file) + 1] = w
           /\ \A x, d :
                CapturedOf(x, d)' =
                  IF w.part # "newline" /\ w.exchange = x /\ w.item.message.direction = d
                    THEN CapturedOf(x, d) \cup {Len(file) + 1} ELSE CapturedOf(x, d)
           /\ \A x, d : \A j \in 1..Len(file) : CountUpTo(x, d, j)' = CountUpTo(x, d, j)
           /\ \A x, d, j : j = Len(file) + 1 => CountUpTo(x, d, j)' = Count(x, d)'
  <1> DEFINE n == Len(file)
  <1>1. /\ file' \in Seq(FileWrite) /\ n \in Nat
        /\ DOMAIN file = 1..n /\ DOMAIN file' = 1..(n + 1)
        /\ \A j \in 1..n : file'[j] = file[j]
        /\ file'[n + 1] = w
    BY DEF Typing
  <1> HIDE DEF n
  <1>2. \A x, d :
          CapturedOf(x, d)' =
            IF w.part # "newline" /\ w.exchange = x /\ w.item.message.direction = d
              THEN CapturedOf(x, d) \cup {n + 1} ELSE CapturedOf(x, d)
    BY <1>1 DEF CapturedOf
  <1>3. \A x, d : CapturedOf(x, d) \subseteq 1..n /\ CapturedOf(x, d)' \subseteq 1..(n + 1)
    BY <1>1 DEF CapturedOf
  <1>4. ASSUME NEW x, NEW d, NEW j \in 1..n PROVE CountUpTo(x, d, j)' = CountUpTo(x, d, j)
    <2>1. {i \in CapturedOf(x, d)' : i <= j} = {i \in CapturedOf(x, d) : i <= j}
      BY <1>1, <1>2
    <2> QED
      BY <2>1 DEF CountUpTo
  <1>5. ASSUME NEW x, NEW d, NEW j, j = n + 1 PROVE CountUpTo(x, d, j)' = Count(x, d)'
    <2>1. {i \in CapturedOf(x, d)' : i <= j} = CapturedOf(x, d)'
      BY <1>1, <1>3, <1>5
    <2> QED
      BY <2>1 DEF CountUpTo, Count
  <1> QED
    BY <1>1, <1>2, <1>4, <1>5 DEF n

-------------------------------------------------------------------------------
(* Appending the messages of a queue.                                      *)

(* The messages of a capture are all still to append.                      *)
LEMMA CaptureStarts ==
    ASSUME Typing, NEW x \in Exchanges, NEW d \in Direction, NEW text \in Texts,
           Count(x, d) = 0, ~partly[x],
           todo' = [todo EXCEPT ![x] = Items(d, text)], UNCHANGED <<partly, file>>
    PROVE  Rest(x, d, Parse(d, text))'
  <1>1. todo'[x] = Items(d, text)
    BY DEF Typing
  <1>2. Count(x, d)' = 0 /\ Begun(x)' = 0
    BY DEF Count, CapturedOf, Begun
  <1>3. /\ Len(Parse(d, text)) \in Nat /\ Len(Items(d, text)) = Len(Parse(d, text))
        /\ \A k \in 1..Len(Parse(d, text)) : Items(d, text)[k].message = Parse(d, text)[k]
    BY Messages
  <1> DEFINE messages == Parse(d, text)
             n == Len(messages)
  <1>4. /\ n \in Nat /\ Len(todo'[x]) = n /\ n <= n /\ 0 = (n - n) + 0
        /\ \A k \in 1..n : (n - n) + k = k
    BY <1>1, <1>3
  <1> HIDE DEF n
  <1>5. \A k \in 1..n : todo'[x][k].message = messages[(n - n) + k]
    BY <1>1, <1>3, <1>4 DEF n
  <1>6. Len(messages) = n
    BY DEF n
  <1> HIDE DEF messages
  <1>7. Rest(x, d, messages)'
    BY <1>2, <1>4, <1>5, <1>6 DEF Rest
  <1> QED
    BY <1>7 DEF messages

(* The first message of a queue is the one after those captured.           *)
LEMMA HeadIsNext ==
    ASSUME Typing, NEW x \in Exchanges, NEW d, NEW messages, Len(messages) \in Nat,
           todo[x] # <<>>, Rest(x, d, messages)
    PROVE  /\ Head(todo[x]) \in Item /\ Len(todo[x]) \in 1..Len(messages)
           /\ Head(todo[x]).message = messages[(Len(messages) - Len(todo[x])) + 1]
           /\ Tail(todo[x]) \in Seq(Item) /\ Len(Tail(todo[x])) = Len(todo[x]) - 1
           /\ \A k \in 1..(Len(todo[x]) - 1) : Tail(todo[x])[k] = todo[x][k + 1]
  <1> DEFINE q == todo[x]
  <1>1. q \in Seq(Item) /\ q # <<>>
    BY DEF Typing
  <1>2. Len(q) <= Len(messages) /\ \A k \in 1..Len(q) : q[k].message = messages[(Len(messages) - Len(q)) + k]
    BY DEF Rest
  <1> HIDE DEF q
  <1>3. /\ Len(q) \in 1..Len(messages) /\ Head(q) = q[1] /\ q[1] \in Item
        /\ Tail(q) \in Seq(Item) /\ Len(Tail(q)) = Len(q) - 1
        /\ \A k \in 1..(Len(q) - 1) : Tail(q)[k] = q[k + 1]
    BY <1>1, <1>2
  <1>4. Head(q).message = messages[(Len(messages) - Len(q)) + 1]
    <2>1. 1 \in 1..Len(q) /\ Head(q) = q[1]
      BY <1>3
    <2> QED
      BY <1>2, <2>1
  <1> QED
    BY <1>3, <1>4 DEF q

(* A write that starts the first message of a queue counts for its side of *)
(* the exchange, and for no other.                                         *)
LEMMA StartCounts ==
    ASSUME Typing, NEW x \in Exchanges, NEW d \in Direction, NEW w \in FileWrite,
           w.part # "newline", w.exchange = x, w.item.message.direction = d,
           file' = Append(file, w)
    PROVE  /\ Count(x, d)' = Count(x, d) + 1
           /\ \A y, e : (y # x \/ e # d) => Count(y, e)' = Count(y, e)
  <1>1. CapturedOf(x, d)' = CapturedOf(x, d) \cup {Len(file) + 1}
    BY AppendedWrite
  <1>2. IsFiniteSet(CapturedOf(x, d)) /\ CapturedOf(x, d) \subseteq 1..Len(file) /\ Len(file) \in Nat
    BY CapturedFinite
  <1>3. Len(file) + 1 \notin CapturedOf(x, d)
    BY <1>2
  <1>4. Count(x, d)' = Count(x, d) + 1
    BY <1>1, <1>2, <1>3, FS_AddElement DEF Count
  <1>5. \A y, e : (y # x \/ e # d) => CapturedOf(y, e)' = CapturedOf(y, e)
    BY AppendedWrite
  <1> QED
    BY <1>4, <1>5 DEF Count

(* One append of a handler: the queue stays the rest of its messages.      *)
Appends(x) == AppendShort(x) \/ AppendBody(x) \/ AppendNewline(x)

LEMMA RestKept ==
    ASSUME Typing, NEW x \in Exchanges, NEW d \in Direction, NEW messages,
           Len(messages) \in Nat, \A k \in 1..Len(messages) : messages[k].direction = d,
           QueueSoFar(x), Rest(x, d, messages), Appends(x)
    PROVE  /\ Typing' /\ Rest(x, d, messages)' /\ QueueSoFar(x)'
           /\ \E w \in FileWrite :
                /\ w.exchange = x /\ file' = Append(file, w)
                /\ w.part # "newline" =>
                      /\ w.item.message.direction = d
                      /\ Count(x, d)' \in 1..Len(messages)
                      /\ w.item.message = messages[Count(x, d)']
  <1>0. todo[x] # <<>> /\ pc[x] \in {"request", "response"}
    BY DEF Appends, AppendShort, AppendBody, AppendNewline, ToAppend
  <1> DEFINE n == Len(messages) - Len(todo[x])
  <1>1. /\ Head(todo[x]) \in Item /\ Len(todo[x]) \in 1..Len(messages)
        /\ Head(todo[x]).message = messages[n + 1]
    BY <1>0, HeadIsNext
  <1>t. /\ Tail(todo[x]) \in Seq(Item) /\ Len(Tail(todo[x])) = Len(todo[x]) - 1
        /\ \A k \in 1..(Len(todo[x]) - 1) : Tail(todo[x])[k] = todo[x][k + 1]
    BY <1>0, HeadIsNext
  <1>2. n \in Nat /\ n + 1 \in 1..Len(messages) /\ Head(todo[x]).message.direction = d
    <2>1. n \in Nat
      BY <1>1
    <2>2. n + 1 \in 1..Len(messages)
      BY <1>1
    <2> QED
      BY <1>1, <2>1, <2>2
  <1>3. Count(x, d) = n + Begun(x)
    BY DEF Rest
  <1>4. \A k \in 1..Len(todo[x]) : todo[x][k].message = messages[n + k]
    BY DEF Rest
  <1> DEFINE w(part) == [exchange |-> x, item |-> Head(todo[x]), part |-> part]
  <1>5. \A part \in {"line", "body", "newline"} : w(part) \in FileWrite
    BY <1>1 DEF FileWrite
  <1>6. ASSUME NEW part \in {"line", "body", "newline"}, file' = Append(file, w(part))
        PROVE  file' \in Seq(FileWrite)
    BY <1>5, <1>6, AppendedWrite
  <1>7. ASSUME NEW part \in {"line", "body"}, file' = Append(file, w(part)), ~partly[x]
        PROVE  Count(x, d)' = n + 1
    <2>1. /\ w(part) \in FileWrite /\ w(part).part # "newline" /\ w(part).exchange = x
          /\ w(part).item.message.direction = d
      BY <1>2, <1>5
    <2> HIDE DEF w
    <2>2. Count(x, d)' = Count(x, d) + 1
      BY <1>7, <2>1, StartCounts
    <2>3. Begun(x) = 0
      BY <1>7 DEF Begun
    <2> QED
      BY <1>2, <1>3, <2>2, <2>3
  <1>8. ASSUME todo' = [todo EXCEPT ![x] = Tail(todo[x])], ~partly'[x],
               Count(x, d)' = n + 1
        PROVE  Rest(x, d, messages)' /\ todo' \in [Exchanges -> Seq(Item)]
    <2>1. todo'[x] = Tail(todo[x]) /\ todo' \in [Exchanges -> Seq(Item)]
      BY <1>t, <1>8 DEF Typing
    <2>2. /\ Len(todo'[x]) = Len(todo[x]) - 1 /\ Len(messages) - Len(todo'[x]) = n + 1
          /\ Len(todo'[x]) <= Len(messages)
      <3>1. Len(todo'[x]) = Len(todo[x]) - 1
        BY <1>t, <2>1
      <3> QED
        BY <1>1, <3>1
    <2>3. ASSUME NEW k \in 1..Len(todo'[x])
          PROVE  todo'[x][k].message = messages[(n + 1) + k]
      <3>0. k \in 1..(Len(todo[x]) - 1)
        BY <2>2
      <3>1. k + 1 \in 1..Len(todo[x]) /\ n + (k + 1) = (n + 1) + k
        BY <1>1, <1>2, <3>0
      <3>2. todo'[x][k] = todo[x][k + 1]
        BY <1>t, <2>1, <3>0
      <3>3. todo[x][k + 1].message = messages[n + (k + 1)]
        BY <1>4, <3>1
      <3> QED
        BY <3>1, <3>2, <3>3
    <2> HIDE DEF n
    <2>4. Begun(x)' = 0 /\ n + 1 = (n + 1) + 0
      BY <1>2, <1>8 DEF Begun
    <2> QED
      BY <1>8, <2>1, <2>2, <2>3, <2>4 DEF Rest
  <1>9. CASE AppendShort(x)
    <2>1. /\ file' = Append(file, w("line")) /\ todo' = [todo EXCEPT ![x] = Tail(todo[x])]
          /\ UNCHANGED <<pc, arrived, passed, partly>> /\ ~IsLong(Head(todo[x]))
      BY <1>9 DEF AppendShort, Write
    <2>2. ~partly[x]
      BY <2>1 DEF QueueSoFar
    <2>3. Count(x, d)' = n + 1
      BY <1>7, <2>1, <2>2
    <2>4. Rest(x, d, messages)' /\ todo' \in [Exchanges -> Seq(Item)]
      BY <1>8, <2>1, <2>2, <2>3
    <2>5. Typing'
      BY <1>6, <2>1, <2>4 DEF Typing
    <2>6. QueueSoFar(x)'
      BY <1>0, <2>1, <2>2 DEF QueueSoFar
    <2>7. w("line").exchange = x /\ w("line").item.message.direction = d
          /\ w("line").item.message = messages[n + 1]
      BY <1>1, <1>2
    <2> HIDE DEF w, n
    <2> QED
      BY <1>2, <1>5, <2>1, <2>3, <2>4, <2>5, <2>6, <2>7
  <1>10. CASE AppendBody(x)
    <2>1. /\ file' = Append(file, w("body")) /\ partly' = [partly EXCEPT ![x] = TRUE]
          /\ UNCHANGED <<pc, arrived, passed, todo>>
          /\ IsLong(Head(todo[x])) /\ ~partly[x]
      BY <1>10 DEF AppendBody, Write
    <2>2. Count(x, d)' = n + 1
      BY <1>7, <2>1
    <2>3. partly'[x] /\ partly' \in [Exchanges -> BOOLEAN]
      BY <2>1 DEF Typing
    <2>4. Rest(x, d, messages)'
      <3>1. Begun(x)' = 1
        BY <2>3 DEF Begun
      <3> QED
        BY <2>1, <2>2, <3>1 DEF Rest
    <2>5. Typing'
      BY <1>6, <2>1, <2>3 DEF Typing
    <2>6. QueueSoFar(x)'
      BY <1>0, <2>1 DEF QueueSoFar, IsLong
    <2>7. w("body").exchange = x /\ w("body").item.message.direction = d
          /\ w("body").item.message = messages[n + 1]
      BY <1>1, <1>2
    <2> HIDE DEF w, n
    <2> QED
      BY <1>2, <1>5, <2>1, <2>2, <2>4, <2>5, <2>6, <2>7
  <1>11. CASE AppendNewline(x)
    <2>1. /\ file' = Append(file, w("newline")) /\ partly' = [partly EXCEPT ![x] = FALSE]
          /\ todo' = [todo EXCEPT ![x] = Tail(todo[x])]
          /\ UNCHANGED <<pc, arrived, passed>> /\ partly[x]
      BY <1>11 DEF AppendNewline, Write
    <2>2. ~partly'[x] /\ partly' \in [Exchanges -> BOOLEAN]
      BY <2>1 DEF Typing
    <2>3. Count(x, d)' = n + 1
      <3>1. CapturedOf(x, d)' = CapturedOf(x, d)
        <4>1. w("newline") \in FileWrite /\ w("newline").part = "newline"
          BY <1>5
        <4> HIDE DEF w
        <4> QED
          BY <2>1, <4>1, AppendedWrite
      <3>2. Begun(x) = 1
        BY <2>1 DEF Begun
      <3> QED
        BY <1>3, <3>1, <3>2 DEF Count
    <2>4. Rest(x, d, messages)' /\ todo' \in [Exchanges -> Seq(Item)]
      BY <1>8, <2>1, <2>2, <2>3
    <2>5. Typing'
      BY <1>6, <2>1, <2>2, <2>4 DEF Typing
    <2>6. QueueSoFar(x)'
      BY <1>0, <2>1, <2>2 DEF QueueSoFar
    <2>7. w("newline").exchange = x /\ w("newline").part = "newline"
      OBVIOUS
    <2> HIDE DEF w, n
    <2> QED
      BY <1>5, <2>1, <2>4, <2>5, <2>6, <2>7
  <1> QED
    BY <1>9, <1>10, <1>11 DEF Appends

-------------------------------------------------------------------------------
(* A step of one handler and the others.                                   *)

Still(y) == UNCHANGED <<pc[y], arrived[y], passed[y], todo[y], partly[y]>>

Frame(x) ==
    /\ \A y \in Exchanges : y # x => Still(y)
    /\ \/ UNCHANGED file
       \/ \E w \in FileWrite : w.exchange = x /\ file' = Append(file, w)

(* A handler that does nothing keeps what it has captured.                 *)
LEMMA OthersKept ==
    ASSUME Typing, NEW x \in Exchanges, NEW y \in Exchanges, y # x, Frame(x), SoFar(y)
    PROVE  SoFar(y)'
  <1>1. Still(y)
    BY DEF Frame
  <1>2. /\ \A d : CapturedOf(y, d)' = CapturedOf(y, d)
        /\ \A d : \A j \in CapturedOf(y, d) :
              \A e : CountUpTo(y, e, j)' = CountUpTo(y, e, j) /\ file'[j] = file[j]
    <2>1. CASE UNCHANGED file
      BY <2>1 DEF CapturedOf, CountUpTo
    <2>2. CASE \E w \in FileWrite : w.exchange = x /\ file' = Append(file, w)
      <3>1. PICK w \in FileWrite : w.exchange = x /\ file' = Append(file, w)
        BY <2>2
      <3>2. \A d : CapturedOf(y, d) \subseteq 1..Len(file)
        BY CapturedFinite
      <3> QED
        BY <3>1, <3>2, AppendedWrite
    <2> QED
      BY <2>1, <2>2 DEF Frame
  <1>3. AnswerSoFar(y)'
    BY <1>1 DEF SoFar, AnswerSoFar, Still, Heard
  <1>4. QueueSoFar(y)'
    BY <1>1 DEF SoFar, QueueSoFar, Still, IsLong
  <1>5. CountsSoFar(y)'
    <2>1. \A d : Count(y, d)' = Count(y, d)
      BY <1>2 DEF Count
    <2>2. Begun(y)' = Begun(y) /\ Heard(y)' = Heard(y)
      BY <1>1 DEF Begun, Heard, Still
    <2> QED
      BY <1>1, <2>1, <2>2 DEF SoFar, CountsSoFar, Rest, Still, Asked
  <1>6. FileSoFar(y)'
    <2>1. Heard(y)' = Heard(y)
      BY <1>1 DEF Heard, Still
    <2> QED
      BY <1>2, <2>1 DEF SoFar, FileSoFar, StandsInOrder, Asked
  <1> QED
    BY <1>3, <1>4, <1>5, <1>6 DEF SoFar

(* A message that is appended after those before it keeps the order of its *)
(* side, and the other side its own.                                       *)
LEMMA InOrderKept ==
    ASSUME Typing, NEW x, NEW d \in Direction, NEW w \in FileWrite, NEW messages,
           file' = Append(file, w), StandsInOrder(x, d, messages),
           (w.part # "newline" /\ w.exchange = x /\ w.item.message.direction = d) =>
               /\ Count(x, d)' \in 1..Len(messages)
               /\ w.item.message = messages[Count(x, d)']
    PROVE  StandsInOrder(x, d, messages)'
  <1>1. /\ Len(file) \in Nat /\ file'[Len(file) + 1] = w
        /\ \A j \in 1..Len(file) : file'[j] = file[j] /\ CountUpTo(x, d, j)' = CountUpTo(x, d, j)
        /\ \A j : j = Len(file) + 1 => CountUpTo(x, d, j)' = Count(x, d)'
    BY AppendedWrite
  <1>2. /\ CapturedOf(x, d) \subseteq 1..Len(file)
        /\ CapturedOf(x, d)' =
              IF w.part # "newline" /\ w.exchange = x /\ w.item.message.direction = d
                THEN CapturedOf(x, d) \cup {Len(file) + 1} ELSE CapturedOf(x, d)
    BY CapturedFinite, AppendedWrite
  <1> SUFFICES ASSUME NEW j \in CapturedOf(x, d)'
               PROVE  /\ CountUpTo(x, d, j)' \in 1..Len(messages)
                      /\ file'[j].item.message = messages[CountUpTo(x, d, j)']
    BY DEF StandsInOrder
  <1>3. CASE j \in CapturedOf(x, d)
    <2>1. /\ CountUpTo(x, d, j) \in 1..Len(messages)
          /\ file[j].item.message = messages[CountUpTo(x, d, j)]
      BY <1>3 DEF StandsInOrder
    <2> QED
      BY <1>1, <1>2, <1>3, <2>1
  <1>4. CASE j \notin CapturedOf(x, d)
    <2>1. /\ j = Len(file) + 1
          /\ w.part # "newline" /\ w.exchange = x /\ w.item.message.direction = d
      BY <1>2, <1>4
    <2> QED
      BY <1>1, <2>1
  <1> QED
    BY <1>3, <1>4

(* Nothing is written: the counts stay, and while nothing of the answer is *)
(* captured the transcript says nothing of it.                             *)
LEMMA NothingWritten ==
    ASSUME Typing, UNCHANGED file, NEW x
    PROVE  /\ \A d : Count(x, d)' = Count(x, d)
           /\ FileSoFar(x) /\ Count(x, S2C) = 0 => FileSoFar(x)'
  <1>1. /\ \A d : CapturedOf(x, d)' = CapturedOf(x, d)
        /\ \A d, j : CountUpTo(x, d, j)' = CountUpTo(x, d, j)
    BY DEF CapturedOf, CountUpTo
  <1>2. Count(x, S2C) = 0 => CapturedOf(x, S2C) = {}
    BY CapturedFinite
  <1>3. StandsInOrder(x, C2S, Asked(x)) => StandsInOrder(x, C2S, Asked(x))'
    BY <1>1 DEF StandsInOrder, Asked
  <1> QED
    BY <1>1, <1>2, <1>3 DEF Count, FileSoFar, StandsInOrder

(* A queue that is empty has been captured.                                *)
LEMMA NothingLeft ==
    ASSUME NEW x \in Exchanges, NEW d, NEW messages, Len(messages) \in Nat,
           Rest(x, d, messages), QueueSoFar(x), todo[x] = <<>>
    PROVE  Count(x, d) = Len(messages)
  <1>1. Begun(x) = 0
    BY DEF QueueSoFar, Begun
  <1>2. Len(todo[x]) = 0
    OBVIOUS
  <1> QED
    BY <1>1, <1>2 DEF Rest

-------------------------------------------------------------------------------
(* The steps of one handler, one lemma per kind of step.                   *)

(* An append, of the request or of the answer.                             *)
LEMMA AppendStep ==
    ASSUME Typing, NEW x \in Exchanges, SoFar(x), Appends(x)
    PROVE  Typing' /\ Frame(x) /\ SoFar(x)'
  <1>1. /\ UNCHANGED <<pc, arrived, passed>>
        /\ pc[x] \in {"request", "response"}
        /\ \A y \in Exchanges : y # x => Still(y)
    BY DEF Appends, AppendShort, AppendBody, AppendNewline, ToAppend, Still, Typing
  <1>2. AnswerSoFar(x)' /\ Heard(x)' = Heard(x)
    BY <1>1 DEF SoFar, AnswerSoFar, Heard
  <1>3. /\ Len(Asked(x)) \in Nat /\ Len(Heard(x)) \in Nat
        /\ \A k \in 1..Len(Asked(x)) : Asked(x)[k].direction = C2S
        /\ \A k \in 1..Len(Heard(x)) : Heard(x)[k].direction = S2C
    BY AskedAndHeard DEF SoFar
  <1>4. C2S \in Direction /\ S2C \in Direction /\ C2S # S2C
    BY DEF Direction, C2S, S2C
  <1>5. CASE pc[x] = "request"
    <2>1. PICK messages : messages = Asked(x)
      OBVIOUS
    <2>2. Rest(x, C2S, messages) /\ QueueSoFar(x)
      BY <1>5, <2>1 DEF SoFar, CountsSoFar
    <2>3. /\ Typing' /\ Rest(x, C2S, messages)' /\ QueueSoFar(x)'
          /\ \E w \in FileWrite :
               /\ w.exchange = x /\ file' = Append(file, w)
               /\ w.part # "newline" =>
                     /\ w.item.message.direction = C2S
                     /\ Count(x, C2S)' \in 1..Len(messages)
                     /\ w.item.message = messages[Count(x, C2S)']
      BY <1>3, <1>4, <2>1, <2>2, RestKept
    <2>4. PICK w \in FileWrite :
               /\ w.exchange = x /\ file' = Append(file, w)
               /\ w.part # "newline" =>
                     /\ w.item.message.direction = C2S
                     /\ Count(x, C2S)' \in 1..Len(messages)
                     /\ w.item.message = messages[Count(x, C2S)']
      BY <2>3
    <2>5. CapturedOf(x, S2C) = {}
      BY <1>5, CapturedFinite DEF SoFar, CountsSoFar
    <2>6. CapturedOf(x, S2C)' = {}
      BY <1>4, <2>4, <2>5, AppendedWrite
    <2>7. FileSoFar(x)'
      <3>1. StandsInOrder(x, C2S, messages)'
        BY <1>4, <2>1, <2>4, InOrderKept DEF SoFar, FileSoFar
      <3> QED
        BY <2>1, <2>6, <3>1 DEF FileSoFar, StandsInOrder, Asked
    <2>8. CountsSoFar(x)'
      <3>1. Count(x, S2C)' = 0
        BY <1>5, <2>5, <2>6 DEF Count, SoFar, CountsSoFar
      <3>2. Rest(x, C2S, Asked(x))'
        BY <2>1, <2>3 DEF Rest, Asked
      <3> QED
        BY <1>1, <1>5, <3>1, <3>2 DEF CountsSoFar, Unread
    <2> QED
      BY <1>1, <1>2, <2>3, <2>4, <2>7, <2>8 DEF SoFar, Frame
  <1>6. CASE pc[x] = "response"
    <2>1. PICK messages : messages = Heard(x)
      OBVIOUS
    <2>2. Rest(x, S2C, messages) /\ QueueSoFar(x)
      BY <1>6, <2>1 DEF SoFar, CountsSoFar
    <2>3. /\ Typing' /\ Rest(x, S2C, messages)' /\ QueueSoFar(x)'
          /\ \E w \in FileWrite :
               /\ w.exchange = x /\ file' = Append(file, w)
               /\ w.part # "newline" =>
                     /\ w.item.message.direction = S2C
                     /\ Count(x, S2C)' \in 1..Len(messages)
                     /\ w.item.message = messages[Count(x, S2C)']
      BY <1>3, <1>4, <2>1, <2>2, RestKept
    <2>4. PICK w \in FileWrite :
               /\ w.exchange = x /\ file' = Append(file, w)
               /\ w.part # "newline" =>
                     /\ w.item.message.direction = S2C
                     /\ Count(x, S2C)' \in 1..Len(messages)
                     /\ w.item.message = messages[Count(x, S2C)']
      BY <2>3
    <2>5. Count(x, C2S) = Len(Asked(x)) /\ CapturedOf(x, C2S)' = CapturedOf(x, C2S)
      BY <1>4, <1>6, <2>4, AppendedWrite DEF SoFar, CountsSoFar, Unread
    <2>6. Count(x, C2S)' = Len(Asked(x))
      BY <2>5 DEF Count
    <2>7. StandsInOrder(x, S2C, messages)'
      BY <1>4, <2>1, <2>4, InOrderKept DEF SoFar, FileSoFar
    <2>8. StandsInOrder(x, C2S, Asked(x))'
      <3>1. PICK asked : asked = Asked(x)
        OBVIOUS
      <3>2. StandsInOrder(x, C2S, asked)'
        BY <1>4, <2>4, <3>1, InOrderKept DEF SoFar, FileSoFar
      <3> QED
        BY <3>1, <3>2 DEF Asked, StandsInOrder
    <2>9. ASSUME NEW j \in CapturedOf(x, S2C)'
          PROVE  CountUpTo(x, C2S, j)' = Len(Asked(x))
      <3>1. \/ j \in CapturedOf(x, S2C) /\ j \in 1..Len(file)
            \/ j = Len(file) + 1
        BY <2>4, <2>9, CapturedFinite, AppendedWrite
      <3>2. CASE j \in CapturedOf(x, S2C) /\ j \in 1..Len(file)
        <4>1. CountUpTo(x, C2S, j) = Len(Asked(x))
          BY <3>2 DEF SoFar, FileSoFar
        <4> QED
          BY <2>4, <3>2, <4>1, AppendedWrite
      <3>3. CASE j = Len(file) + 1
        BY <2>4, <2>6, <3>3, AppendedWrite
      <3> QED
        BY <3>1, <3>2, <3>3
    <2>10. FileSoFar(x)'
      BY <1>2, <2>1, <2>7, <2>8, <2>9 DEF FileSoFar, StandsInOrder, Asked
    <2>11. CountsSoFar(x)'
      <3>1. Rest(x, S2C, Heard(x))'
        BY <1>2, <2>1, <2>3 DEF Rest
      <3>2. Count(x, C2S)' = Len(Asked(x))'
        BY <2>6 DEF Asked
      <3> QED
        BY <1>1, <1>6, <3>1, <3>2 DEF CountsSoFar, Unread
    <2> QED
      BY <1>1, <1>2, <2>3, <2>4, <2>10, <2>11 DEF SoFar, Frame
  <1> QED
    BY <1>1, <1>5, <1>6

(* A capture: the messages of a text are to be appended, or McpMessage     *)
(* raises.  Only the place of the handler and its queue change.            *)
LEMMA CaptureStep ==
    ASSUME Typing, NEW x \in Exchanges, NEW d \in Direction, NEW text \in Texts,
           NEW place \in Places, QueueSoFar(x), todo[x] = <<>>, Count(x, d) = 0,
           place \in {"request", "response"},
           arrived' \in [Exchanges -> Nat], passed' \in [Exchanges -> Nat],
           \A y \in Exchanges : y # x => UNCHANGED <<arrived[y], passed[y]>>,
           Capture(x, d, text, place)
    PROVE  /\ Typing' /\ Frame(x) /\ QueueSoFar(x)' /\ UNCHANGED file
           /\ \/ pc'[x] = "invalid"
              \/ pc'[x] = place /\ Rest(x, d, Parse(d, text))'
  <1>1. UNCHANGED <<partly, file>> /\ ~partly[x]
    BY DEF Capture, Raise, QueueSoFar
  <1>2. CASE ParseRaises(text)
    <2>1. pc' = [pc EXCEPT ![x] = "invalid"] /\ UNCHANGED todo
      BY <1>2 DEF Capture, Raise, Goto
    <2>2. pc' \in [Exchanges -> Places] /\ pc'[x] = "invalid"
      BY <2>1 DEF Typing, Places, Ended
    <2>3. \A y \in Exchanges : y # x => pc'[y] = pc[y]
      BY <2>1 DEF Typing
    <2>4. Typing' /\ Frame(x)
      BY <1>1, <2>1, <2>2, <2>3 DEF Typing, Frame, Still
    <2>5. QueueSoFar(x)'
      BY <1>1, <2>1 DEF QueueSoFar
    <2> QED
      BY <1>1, <2>2, <2>4, <2>5
  <1>3. CASE ~ParseRaises(text)
    <2>1. todo' = [todo EXCEPT ![x] = Items(d, text)] /\ pc' = [pc EXCEPT ![x] = place]
      BY <1>3 DEF Capture, Goto
    <2>2. pc' \in [Exchanges -> Places] /\ pc'[x] = place
      BY <2>1 DEF Typing
    <2>3. todo' \in [Exchanges -> Seq(Item)]
      <3>1. Items(d, text) \in Seq(Item)
        BY Messages
      <3> QED
        BY <2>1, <3>1 DEF Typing
    <2>4. \A y \in Exchanges : y # x => pc'[y] = pc[y] /\ todo'[y] = todo[y]
      BY <2>1 DEF Typing
    <2>5. Typing' /\ Frame(x)
      BY <1>1, <2>2, <2>3, <2>4 DEF Typing, Frame, Still
    <2>6. Rest(x, d, Parse(d, text))'
      BY <1>1, <2>1, CaptureStarts
    <2>7. QueueSoFar(x)'
      BY <1>1, <2>2 DEF QueueSoFar
    <2> QED
      BY <1>1, <2>2, <2>5, <2>6, <2>7
  <1> QED
    BY <1>2, <1>3

LEMMA ReadRequestStep ==
    ASSUME Typing, NEW x \in Exchanges, SoFar(x), ReadRequest(x)
    PROVE  Typing' /\ Frame(x) /\ SoFar(x)'
  <1>1. pc[x] = "receive" /\ Capture(x, C2S, x.request, "request") /\ UNCHANGED <<arrived, passed>>
    BY DEF ReadRequest
  <1>2. /\ todo[x] = <<>> /\ QueueSoFar(x) /\ Count(x, C2S) = 0 /\ Count(x, S2C) = 0
        /\ arrived[x] = 0 /\ passed[x] = arrived[x] /\ arrived[x] <= Total(x)
    BY <1>1 DEF SoFar, QueueSoFar, CountsSoFar, AnswerSoFar, Before, Unread
  <1>3. x.request \in Texts /\ C2S \in Direction /\ "request" \in Places
    BY AnswerTexts DEF Direction, Places
  <1>4. arrived' \in [Exchanges -> Nat] /\ passed' \in [Exchanges -> Nat]
    BY <1>1 DEF Typing
  <1>5. \A y \in Exchanges : y # x => UNCHANGED <<arrived[y], passed[y]>>
    BY <1>1
  <1>6. /\ Typing' /\ Frame(x) /\ QueueSoFar(x)' /\ UNCHANGED file
        /\ \/ pc'[x] = "invalid"
           \/ pc'[x] = "request" /\ Rest(x, C2S, Parse(C2S, x.request))'
    BY <1>1, <1>2, <1>3, <1>4, <1>5, CaptureStep
  <1>7. Count(x, S2C)' = 0 /\ FileSoFar(x)'
    BY <1>2, <1>6, NothingWritten DEF SoFar
  <1>8. AnswerSoFar(x)'
    BY <1>1, <1>2, <1>6 DEF AnswerSoFar, Typing
  <1>9. CountsSoFar(x)'
    BY <1>6, <1>7 DEF CountsSoFar, Rest, Asked, Unread
  <1> QED
    BY <1>6, <1>7, <1>8, <1>9 DEF SoFar

(* The capture of an answer, as far as it has arrived.                     *)
LEMMA AnswerStep ==
    ASSUME Typing, NEW x \in Exchanges, SoFar(x), pc[x] \in {"write", "stream"},
           NEW n \in 0..Total(x),
           arrived' \in [Exchanges -> Nat], passed' \in [Exchanges -> Nat],
           \A y \in Exchanges : y # x => UNCHANGED <<arrived[y], passed[y]>>,
           arrived'[x] = n, passed'[x] = n,
           Capture(x, S2C, TextOf(x, n), "response")
    PROVE  Typing' /\ Frame(x) /\ SoFar(x)'
  <1>1. /\ todo[x] = <<>> /\ QueueSoFar(x)
        /\ Count(x, C2S) = Len(Asked(x)) /\ Count(x, S2C) = 0
    BY DEF SoFar, QueueSoFar, CountsSoFar, Unread
  <1>2. TextOf(x, n) \in Texts /\ Total(x) \in Nat /\ S2C \in Direction /\ "response" \in Places
    BY AnswerTexts DEF Direction, Places
  <1>3. /\ Typing' /\ Frame(x) /\ QueueSoFar(x)' /\ UNCHANGED file
        /\ \/ pc'[x] = "invalid"
           \/ pc'[x] = "response" /\ Rest(x, S2C, Parse(S2C, TextOf(x, n)))'
    BY <1>1, <1>2, CaptureStep
  <1>4. Count(x, C2S)' = Count(x, C2S) /\ Count(x, S2C)' = 0 /\ FileSoFar(x)'
    BY <1>1, <1>3, NothingWritten DEF SoFar
  <1>5. AnswerSoFar(x)'
    <2>1. pc'[x] \notin Before
      BY <1>3 DEF Before
    <2>2. n <= n /\ n <= Total(x)
      BY <1>2
    <2> QED
      BY <2>1, <2>2 DEF AnswerSoFar
  <1>6. CountsSoFar(x)'
    <2>1. Heard(x)' = Parse(S2C, TextOf(x, n))
      BY DEF Heard
    <2>2. pc'[x] = "response" => Rest(x, S2C, Heard(x))'
      BY <1>3, <2>1 DEF Rest
    <2> QED
      BY <1>1, <1>3, <1>4, <2>2 DEF CountsSoFar, Asked, Unread
  <1> QED
    BY <1>3, <1>4, <1>5, <1>6 DEF SoFar

(* A plain answer the client has taken.                                    *)
LEMMA PassedStep ==
    ASSUME Typing, NEW x \in Exchanges, SoFar(x), PassOn(x), x.kind = "plain"
    PROVE  Typing' /\ Frame(x) /\ SoFar(x)'
  <1>1. PICK n : n = arrived[x]
    OBVIOUS
  <1>2. /\ pc[x] = "write" /\ UNCHANGED arrived /\ passed' = [passed EXCEPT ![x] = n]
        /\ Capture(x, S2C, TextOf(x, n), "response")
    BY <1>1 DEF PassOn
  <1>3. n \in 0..Total(x)
    <2>1. n \in Nat /\ Total(x) \in Nat /\ n <= Total(x)
      BY <1>1, AnswerTexts DEF Typing, SoFar, AnswerSoFar
    <2> QED
      BY <2>1
  <1>4. /\ arrived' \in [Exchanges -> Nat] /\ passed' \in [Exchanges -> Nat]
        /\ arrived'[x] = n /\ passed'[x] = n
        /\ \A y \in Exchanges : y # x => UNCHANGED <<arrived[y], passed[y]>>
    BY <1>1, <1>2, <1>3 DEF Typing
  <1> QED
    BY <1>2, <1>3, <1>4, AnswerStep

(* What has arrived when a stream ends, or is taken for ended.             *)
LEMMA StreamStep ==
    ASSUME Typing, NEW x \in Exchanges, SoFar(x), CaptureArrived(x)
    PROVE  Typing' /\ Frame(x) /\ SoFar(x)'
  <1>0. /\ pc[x] = "stream" /\ UNCHANGED <<arrived, passed>>
        /\ Capture(x, S2C, TextOf(x, arrived[x]), "response")
    BY DEF CaptureArrived
  <1>1. PICK n : n = arrived[x]
    OBVIOUS
  <1>2. n \in 0..Total(x) /\ passed[x] = n
    <2>1. arrived[x] \in Nat /\ Total(x) \in Nat
      BY AnswerTexts DEF Typing
    <2> QED
      BY <1>0, <1>1, <2>1 DEF SoFar, AnswerSoFar
  <1>3. arrived' \in [Exchanges -> Nat] /\ passed' \in [Exchanges -> Nat]
    BY <1>0 DEF Typing
  <1>4. arrived'[x] = n /\ passed'[x] = n
    BY <1>0, <1>1, <1>2
  <1>5. \A y \in Exchanges : y # x => UNCHANGED <<arrived[y], passed[y]>>
    BY <1>0
  <1>6. Capture(x, S2C, TextOf(x, n), "response")
    BY <1>0, <1>1
  <1> QED
    BY <1>0, <1>2, <1>3, <1>4, <1>5, <1>6, AnswerStep

(* The steps that write and capture nothing.                               *)
Quiet(x) ==
    /\ UNCHANGED <<todo, partly, file>>
    /\ \A y \in Exchanges : y # x => UNCHANGED <<pc[y], arrived[y], passed[y]>>

LEMMA QuietStep ==
    ASSUME Typing, NEW x \in Exchanges, SoFar(x), Quiet(x),
           pc' \in [Exchanges -> Places], arrived' \in [Exchanges -> Nat],
           passed' \in [Exchanges -> Nat],
           pc'[x] \notin {"request", "response"}, todo[x] = <<>>
    PROVE  /\ Typing' /\ Frame(x) /\ QueueSoFar(x)'
           /\ \A d : Count(x, d)' = Count(x, d)
           /\ Count(x, S2C) = 0 => FileSoFar(x)'
  <1>1. Typing' /\ Frame(x)
    BY DEF Typing, Frame, Quiet, Still
  <1>2. QueueSoFar(x)'
    BY DEF Quiet, QueueSoFar, SoFar
  <1> QED
    BY <1>1, <1>2, NothingWritten DEF Quiet, SoFar

(* Before the request has been read nothing is captured.                   *)
LEMMA ReceiveStep ==
    ASSUME Typing, NEW x \in Exchanges, SoFar(x), Accept(x) \/ RequestBreaksOff(x)
    PROVE  Typing' /\ Frame(x) /\ SoFar(x)'
  <1>1. /\ pc[x] \in {"none", "receive"} /\ UNCHANGED <<arrived, passed, todo, partly, file>>
        /\ pc' = [pc EXCEPT ![x] = "receive"] \/ pc' = [pc EXCEPT ![x] = "cut short"]
    BY DEF Accept, RequestBreaksOff, Raise, Goto
  <1>2. /\ pc' \in [Exchanges -> Places] /\ pc'[x] \in {"receive", "cut short"} /\ Quiet(x)
        /\ arrived' \in [Exchanges -> Nat] /\ passed' \in [Exchanges -> Nat]
    BY <1>1 DEF Typing, Places, Ended, Quiet
  <1>3. todo[x] = <<>> /\ Count(x, C2S) = 0 /\ Count(x, S2C) = 0
    BY <1>1 DEF SoFar, QueueSoFar, CountsSoFar, Unread
  <1>4. /\ Typing' /\ Frame(x) /\ QueueSoFar(x)' /\ FileSoFar(x)'
        /\ \A d : Count(x, d)' = Count(x, d)
    BY <1>2, <1>3, QuietStep
  <1>5. AnswerSoFar(x)'
    BY <1>1, <1>2 DEF SoFar, AnswerSoFar, Before
  <1>6. CountsSoFar(x)'
    BY <1>2, <1>3, <1>4 DEF CountsSoFar, Unread
  <1> QED
    BY <1>4, <1>5, <1>6 DEF SoFar

LEMMA AskStep ==
    ASSUME Typing, NEW x \in Exchanges, SoFar(x), Ask(x)
    PROVE  Typing' /\ Frame(x) /\ SoFar(x)'
  <1>1. /\ pc[x] = "request" /\ todo[x] = <<>> /\ pc' = [pc EXCEPT ![x] = "upstream"]
        /\ UNCHANGED <<arrived, passed, todo, partly, file>>
    BY DEF Ask, Goto
  <1>2. /\ pc' \in [Exchanges -> Places] /\ pc'[x] = "upstream" /\ Quiet(x)
        /\ arrived' \in [Exchanges -> Nat] /\ passed' \in [Exchanges -> Nat]
    BY <1>1 DEF Typing, Places, Quiet
  <1>3. /\ Typing' /\ Frame(x) /\ QueueSoFar(x)'
        /\ \A d : Count(x, d)' = Count(x, d)
        /\ Count(x, S2C) = 0 => FileSoFar(x)'
    BY <1>1, <1>2, QuietStep
  <1>4. Count(x, C2S) = Len(Asked(x)) /\ Count(x, S2C) = 0
    <2>1. Len(Asked(x)) \in Nat
      BY AskedAndHeard DEF SoFar
    <2>2. Rest(x, C2S, Asked(x)) /\ Count(x, S2C) = 0
      BY <1>1 DEF SoFar, CountsSoFar, Unread
    <2> QED
      BY <1>1, <2>1, <2>2, NothingLeft DEF SoFar
  <1>5. AnswerSoFar(x)'
    BY <1>1, <1>2 DEF SoFar, AnswerSoFar, Before
  <1>6. CountsSoFar(x)'
    BY <1>2, <1>3, <1>4 DEF CountsSoFar, Asked, Unread
  <1> QED
    BY <1>3, <1>4, <1>5, <1>6 DEF SoFar

LEMMA FinishStep ==
    ASSUME Typing, NEW x \in Exchanges, SoFar(x), Finish(x)
    PROVE  Typing' /\ Frame(x) /\ SoFar(x)'
  <1>1. /\ pc[x] = "response" /\ todo[x] = <<>> /\ pc' = [pc EXCEPT ![x] = "done"]
        /\ UNCHANGED <<arrived, passed, todo, partly, file>>
    BY DEF Finish, Goto
  <1>2. /\ pc' \in [Exchanges -> Places] /\ pc'[x] = "done" /\ Quiet(x)
        /\ arrived' \in [Exchanges -> Nat] /\ passed' \in [Exchanges -> Nat]
    BY <1>1 DEF Typing, Places, Ended, Quiet
  <1>3. /\ Typing' /\ Frame(x) /\ QueueSoFar(x)'
        /\ \A d : Count(x, d)' = Count(x, d)
    BY <1>1, <1>2, QuietStep
  <1>4. Heard(x)' = Heard(x)
    BY <1>1 DEF Heard
  <1>5. Count(x, S2C) = Len(Heard(x)) /\ Count(x, C2S) = Len(Asked(x))
    <2>1. Len(Heard(x)) \in Nat
      BY AskedAndHeard DEF SoFar
    <2>2. Rest(x, S2C, Heard(x)) /\ Count(x, C2S) = Len(Asked(x))
      BY <1>1 DEF SoFar, CountsSoFar, Unread
    <2> QED
      BY <1>1, <2>1, <2>2, NothingLeft DEF SoFar
  <1>6. AnswerSoFar(x)'
    BY <1>1, <1>2 DEF SoFar, AnswerSoFar, Before
  <1>7. CountsSoFar(x)'
    BY <1>2, <1>3, <1>4, <1>5 DEF CountsSoFar, Asked, Unread
  <1>8. FileSoFar(x)'
    BY <1>1, <1>4 DEF SoFar, FileSoFar, StandsInOrder, CapturedOf, CountUpTo, Asked
  <1> QED
    BY <1>3, <1>6, <1>7, <1>8 DEF SoFar

(* Between the request and the capture of the answer the handler moves on, *)
(* or reads and passes on, or it ends.                                     *)
Moves(x) ==
    /\ pc[x] \in {"upstream", "read", "write", "stream"}
    /\ pc'[x] \in {"read", "write", "stream", "failed", "hung up", "broken"}
    /\ Quiet(x)
    /\ pc' \in [Exchanges -> Places]
    /\ arrived' \in [Exchanges -> Nat] /\ passed' \in [Exchanges -> Nat]

LEMMA MoveStep ==
    ASSUME Typing, NEW x \in Exchanges, SoFar(x), Moves(x), AnswerSoFar(x)'
    PROVE  Typing' /\ Frame(x) /\ SoFar(x)'
  <1>1. todo[x] = <<>> /\ Count(x, S2C) = 0 /\ Count(x, C2S) = Len(Asked(x))
    BY DEF Moves, SoFar, QueueSoFar, CountsSoFar, Unread
  <1>2. /\ Typing' /\ Frame(x) /\ QueueSoFar(x)'
        /\ \A d : Count(x, d)' = Count(x, d)
        /\ FileSoFar(x)'
    BY <1>1, QuietStep DEF Moves
  <1>3. CountsSoFar(x)'
    BY <1>1, <1>2 DEF Moves, CountsSoFar, Asked, Unread
  <1> QED
    BY <1>2, <1>3 DEF SoFar

(* It moves on, or ends, without reading or passing on anything.           *)
LEMMA TurnStep ==
    ASSUME Typing, NEW x \in Exchanges, SoFar(x), NEW from, NEW to,
           pc[x] = from, Goto(x, to), UNCHANGED <<arrived, passed, todo, partly, file>>,
           \/ from = "upstream" /\ to \in {"read", "write", "failed"}
           \/ from = "read" /\ to = "failed"
           \/ from = "write" /\ to = "hung up"
           \/ from = "stream" /\ to = "broken"
    PROVE  Typing' /\ Frame(x) /\ SoFar(x)'
  <1>1. to \in {"read", "write", "failed", "hung up", "broken"}
    OBVIOUS
  <1>2. pc' = [pc EXCEPT ![x] = to] /\ pc' \in [Exchanges -> Places] /\ pc'[x] = to
    BY <1>1 DEF Goto, Typing, Places, Ended
  <1>3. Moves(x)
    BY <1>1, <1>2 DEF Moves, Quiet, Typing
  <1>4. AnswerSoFar(x)'
    BY <1>2 DEF SoFar, AnswerSoFar, Before
  <1> QED
    BY <1>3, <1>4, MoveStep

(* It reads a plain answer or a chunk.                                     *)
LEMMA ReadStep ==
    ASSUME Typing, NEW x \in Exchanges, SoFar(x), PlainAnswer(x) \/ StreamChunk(x)
    PROVE  Typing' /\ Frame(x) /\ SoFar(x)'
  <1>1. /\ pc[x] \in {"read", "stream"} /\ pc' = [pc EXCEPT ![x] = "write"]
        /\ UNCHANGED <<passed, todo, partly, file>>
    BY DEF PlainAnswer, StreamChunk, Goto
  <1>2. /\ arrived[x] \in Nat /\ Total(x) \in Nat /\ arrived[x] <= Total(x)
        /\ passed[x] = arrived[x]
    BY <1>1, AnswerTexts DEF Typing, SoFar, AnswerSoFar
  <1>3. \E n \in arrived[x]..Total(x) : arrived' = [arrived EXCEPT ![x] = n]
    <2>1. CASE PlainAnswer(x)
      <3>1. Total(x) \in arrived[x]..Total(x)
        BY <1>2
      <3> QED
        BY <2>1, <3>1 DEF PlainAnswer
    <2>2. CASE StreamChunk(x)
      BY <2>2 DEF StreamChunk
    <2> QED
      BY <2>1, <2>2
  <1>4. PICK n \in arrived[x]..Total(x) : arrived' = [arrived EXCEPT ![x] = n]
    BY <1>3
  <1>5. n \in Nat /\ n <= Total(x) /\ passed[x] <= n
    BY <1>2
  <1>6. pc'[x] = "write" /\ arrived'[x] = n /\ Moves(x)
    BY <1>1, <1>4, <1>5 DEF Moves, Quiet, Typing, Places
  <1>7. AnswerSoFar(x)'
    BY <1>1, <1>5, <1>6 DEF AnswerSoFar, Before
  <1> QED
    BY <1>6, <1>7, MoveStep

(* The client takes the headers of a stream, or a chunk.                   *)
LEMMA ChunkPassedStep ==
    ASSUME Typing, NEW x \in Exchanges, SoFar(x), PassOn(x), x.kind # "plain"
    PROVE  Typing' /\ Frame(x) /\ SoFar(x)'
  <1>1. /\ pc[x] = "write" /\ pc' = [pc EXCEPT ![x] = "stream"]
        /\ passed' = [passed EXCEPT ![x] = arrived[x]]
        /\ UNCHANGED <<arrived, todo, partly, file>>
    BY DEF PassOn, Goto
  <1>2. arrived[x] \in Nat /\ arrived[x] <= Total(x)
    BY DEF Typing, SoFar, AnswerSoFar
  <1>3. pc'[x] = "stream" /\ passed'[x] = arrived[x] /\ Moves(x)
    BY <1>1, <1>2 DEF Moves, Quiet, Typing, Places
  <1>4. AnswerSoFar(x)'
    <2>1. pc'[x] \notin Before
      BY <1>3 DEF Before
    <2>2. arrived'[x] = arrived[x] /\ Total(x)' = Total(x)
      BY <1>1 DEF Total
    <2>3. arrived[x] <= arrived[x]
      BY <1>2
    <2> QED
      BY <1>2, <1>3, <2>1, <2>2, <2>3 DEF AnswerSoFar
  <1> QED
    BY <1>3, <1>4, MoveStep

-------------------------------------------------------------------------------
(* The inductive invariant.                                                *)

LEMMA InitIInv == Init => IInv
  <1> SUFFICES ASSUME Init
               PROVE  IInv
    OBVIOUS
  <1>1. Typing
    BY DEF Init, Typing, Places
  <1> SUFFICES ASSUME NEW x \in Exchanges
               PROVE  SoFar(x)
    BY <1>1 DEF IInv
  <1>2. \A d : CapturedOf(x, d) = {} /\ Count(x, d) = 0
    <2>1. \A d : CapturedOf(x, d) = {}
      BY DEF Init, CapturedOf
    <2> QED
      BY <2>1, FS_EmptySet DEF Count
  <1>3. AnswerSoFar(x)
    <2>1. Total(x) \in Nat
      BY AnswerTexts
    <2> QED
      BY <2>1 DEF Init, AnswerSoFar
  <1>4. QueueSoFar(x) /\ CountsSoFar(x) /\ FileSoFar(x)
    BY <1>2 DEF Init, QueueSoFar, CountsSoFar, Unread, FileSoFar, StandsInOrder
  <1> QED
    BY <1>3, <1>4 DEF SoFar

LEMMA StepIInv == IInv /\ [Next]_vars => IInv'
  <1> SUFFICES ASSUME IInv, [Next]_vars
               PROVE  IInv'
    OBVIOUS
  <1>1. CASE UNCHANGED vars
    <2>1. UNCHANGED <<pc, arrived, passed, todo, partly, file>>
      BY <1>1 DEF vars
    <2>2. Typing'
      BY <2>1 DEF IInv, Typing
    <2> SUFFICES ASSUME NEW x \in Exchanges
                 PROVE  SoFar(x)'
      BY <2>2 DEF IInv
    <2>3. SoFar(x)
      BY DEF IInv
    <2>4. AnswerSoFar(x)' /\ QueueSoFar(x)'
      BY <2>1, <2>3 DEF SoFar, AnswerSoFar, QueueSoFar, Heard, IsLong
    <2>5. CountsSoFar(x)'
      BY <2>1, <2>3 DEF SoFar, CountsSoFar, Rest, Begun, Count, CapturedOf, Asked, Heard
    <2>6. FileSoFar(x)'
      BY <2>1, <2>3 DEF SoFar, FileSoFar, StandsInOrder, CapturedOf, CountUpTo, Asked, Heard
    <2> QED
      BY <2>4, <2>5, <2>6 DEF SoFar
  <1>2. CASE Next
    <2>1. PICK x \in Exchanges : Handler(x) \/ Client(x) \/ Upstream(x)
      BY <1>2 DEF Next
    <2>2. Typing /\ SoFar(x)
      BY DEF IInv
    <2>3. Typing' /\ Frame(x) /\ SoFar(x)'
      <3>1. CASE Appends(x)
        BY <2>2, <3>1, AppendStep
      <3>2. CASE Ask(x)
        BY <2>2, <3>2, AskStep
      <3>3. CASE UpstreamFails(x)
        BY <2>2, <3>3, TurnStep DEF UpstreamFails, Raise
      <3>4. CASE CaptureArrived(x)
        BY <2>2, <3>4, StreamStep
      <3>5. CASE StreamBreaks(x) /\ ~CaptureArrived(x)
        BY <2>2, <3>5, TurnStep DEF StreamBreaks, Raise
      <3>6. CASE Finish(x)
        BY <2>2, <3>6, FinishStep
      <3>7. CASE Accept(x) \/ RequestBreaksOff(x)
        BY <2>2, <3>7, ReceiveStep
      <3>8. CASE ReadRequest(x)
        BY <2>2, <3>8, ReadRequestStep
      <3>9. CASE UpstreamResponds(x)
        BY <2>2, <3>9, TurnStep DEF UpstreamResponds
      <3>10. CASE PlainAnswer(x) \/ StreamChunk(x)
        BY <2>2, <3>10, ReadStep
      <3>11. CASE PassOn(x) /\ x.kind = "plain"
        BY <2>2, <3>11, PassedStep
      <3>12. CASE PassOn(x) /\ x.kind # "plain"
        BY <2>2, <3>12, ChunkPassedStep
      <3>13. CASE ClientHasHungUp(x)
        BY <2>2, <3>13, TurnStep DEF ClientHasHungUp, Raise
      <3>14. \/ Appends(x) \/ Ask(x) \/ UpstreamFails(x) \/ CaptureArrived(x)
             \/ StreamBreaks(x) \/ Finish(x)
             \/ Accept(x) \/ RequestBreaksOff(x) \/ ReadRequest(x)
             \/ UpstreamResponds(x) \/ PlainAnswer(x) \/ StreamChunk(x)
             \/ PassOn(x) \/ ClientHasHungUp(x)
        BY <2>1 DEF Handler, Client, Upstream, Appends, StreamTimesOut, StreamEnds
      <3> QED
        BY <3>1, <3>2, <3>3, <3>4, <3>5, <3>6, <3>7, <3>8, <3>9, <3>10, <3>11, <3>12,
           <3>13, <3>14
    <2>4. \A y \in Exchanges : y # x => SoFar(y)'
      BY <2>2, <2>3, OthersKept DEF IInv
    <2> QED
      BY <2>3, <2>4 DEF IInv
  <1> QED
    BY <1>1, <1>2

THEOREM Invariant == Spec => []IInv
  BY InitIInv, StepIInv, PTL DEF Spec

-------------------------------------------------------------------------------
(* What a reader should know.                                              *)

(* The variables have their types: nothing was passed on that had not      *)
(* arrived, and only a message that is longer than the buffer of the file  *)
(* is ever half written.                                                   *)
THEOREM TypeCorrect == Spec => []TypeOK
  <1>1. IInv => TypeOK
    BY DEF IInv, Typing, Places, SoFar, AnswerSoFar, QueueSoFar, TypeOK
  <1> QED
    BY <1>1, Invariant, PTL

(* _capture of the request comes before the upstream server is asked: in   *)
(* the transcript every message of an answer stands behind all messages of *)
(* its request, whatever other handlers write in between.                  *)
THEOREM RequestsComeFirst == Spec => []RequestsPrecedeAnswers
  <1>1. IInv => RequestsPrecedeAnswers
    BY DEF IInv, SoFar, FileSoFar, RequestsPrecedeAnswers, Asked
  <1> QED
    BY <1>1, Invariant, PTL

(* A chunk is written to the client before it is put aside for the         *)
(* capture, and a write that fails ends the handler: what is captured of   *)
(* an answer was sent, in that order and once.                             *)
THEOREM CapturesWhatWasSent == Spec => []CapturedWasPassedOn
  <1>1. IInv => CapturedWasPassedOn
    <2> SUFFICES ASSUME IInv, NEW x \in Exchanges, NEW j \in CapturedOf(x, S2C)
                 PROVE  /\ CountUpTo(x, S2C, j) \in DOMAIN Parse(S2C, TextOf(x, passed[x]))
                        /\ file[j].item.message =
                             Parse(S2C, TextOf(x, passed[x]))[CountUpTo(x, S2C, j)]
      BY DEF CapturedWasPassedOn
    <2>1. Typing /\ AnswerSoFar(x) /\ CountsSoFar(x) /\ FileSoFar(x)
      BY DEF IInv, SoFar
    <2>2. pc[x] \notin {"write", "hung up"}
      <3>1. Count(x, S2C) # 0
        <4>1. CapturedOf(x, S2C) # {} /\ (Count(x, S2C) = 0 => CapturedOf(x, S2C) = {})
          BY <2>1, CapturedFinite
        <4> QED
          BY <4>1
      <3> QED
        BY <2>1, <3>1 DEF CountsSoFar
    <2>3. passed[x] = arrived[x]
      BY <2>1, <2>2 DEF AnswerSoFar
    <2>4. DOMAIN Heard(x) = 1..Len(Heard(x))
      BY <2>1, AskedAndHeard, ParsedAssumption DEF Heard, Direction
    <2>5. /\ CountUpTo(x, S2C, j) \in 1..Len(Heard(x))
          /\ file[j].item.message = Heard(x)[CountUpTo(x, S2C, j)]
      BY <2>1 DEF FileSoFar, StandsInOrder
    <2> QED
      BY <2>3, <2>4, <2>5 DEF Heard
  <1> QED
    BY <1>1, Invariant, PTL

(* A handler that ended after its request had arrived captured it; one     *)
(* that came to its end, with the stream or with a ReadTimeout in it, or   *)
(* that got no answer, captured every message of the answer that had       *)
(* arrived whole.                                                          *)
THEOREM CapturesWhatArrived == Spec => []ArrivedIsCaptured
  <1>1. IInv => ArrivedIsCaptured
    <2> SUFFICES ASSUME IInv, NEW x \in Exchanges
                 PROVE  /\ pc[x] \in Ended \ {"invalid", "cut short"} =>
                              Count(x, C2S) = Len(Asked(x))
                        /\ pc[x] \in {"done", "failed"} => Count(x, S2C) = Len(Heard(x))
      BY DEF ArrivedIsCaptured, Count, Asked, Heard
    <2>1. AnswerSoFar(x) /\ CountsSoFar(x)
      BY DEF IInv, SoFar
    <2>2. pc[x] = "failed" => Len(Heard(x)) = 0
      <3>1. arrived[x] = 0 => Heard(x) = <<>>
        BY AnswerTexts, ParsedAssumption DEF Heard, Direction
      <3>2. arrived[x] = 0 => Len(Heard(x)) = 0
        BY <3>1
      <3> QED
        BY <2>1, <3>2 DEF AnswerSoFar, Before
    <2> QED
      BY <2>1, <2>2 DEF CountsSoFar, Unread, Ended
  <1> QED
    BY <1>1, Invariant, PTL

-------------------------------------------------------------------------------
(* The stub.  In the transcript every message stands once, as one that a   *)
(* side of an exchange has said.                                           *)

LEMMA SaidTexts ==
    ASSUME IInv, NEW x \in Exchanges, NEW d \in Direction
    PROVE  /\ Said(x, d) = IF d = C2S THEN Asked(x) ELSE Heard(x)
           /\ Len(Said(x, d)) \in Nat /\ DOMAIN Said(x, d) = 1..Len(Said(x, d))
           /\ ToSet(Said(x, d)) = {Said(x, d)[k] : k \in 1..Len(Said(x, d))}
  <1>1. Typing /\ AnswerSoFar(x)
    BY DEF IInv, SoFar
  <1>2. x.request \in Texts /\ TextOf(x, arrived[x]) \in Texts
    BY <1>1, AskedAndHeard
  <1>3. Said(x, d) = IF d = C2S THEN Asked(x) ELSE Heard(x)
    BY DEF Said, Asked, Heard, Direction
  <1>4. Len(Said(x, d)) \in Nat /\ DOMAIN Said(x, d) = 1..Len(Said(x, d))
    BY <1>2, ParsedAssumption DEF Said
  <1> QED
    BY <1>3, <1>4 DEF ToSet

(* The place of a started message tells its exchange, its side and its     *)
(* number there.                                                           *)
Number(i) == CountUpTo(file[i].exchange, file[i].item.message.direction, i)

LEMMA StartedFacts ==
    ASSUME IInv, NEW i \in Starts
    PROVE  LET x == file[i].exchange
               message == file[i].item.message
               d == message.direction
           IN  /\ x \in Received /\ d \in Direction /\ i \in CapturedOf(x, d)
               /\ Number(i) \in DOMAIN Said(x, d)
               /\ message = Said(x, d)[Number(i)]
  <1> DEFINE x == file[i].exchange
             message == file[i].item.message
             d == message.direction
  <1>1. Typing /\ i \in DOMAIN file /\ file[i].part # "newline"
    BY DEF IInv, Starts
  <1>2. file[i] \in FileWrite
    BY <1>1 DEF Typing
  <1>3. x \in Exchanges /\ file[i].item \in Item
    BY <1>2 DEF FileWrite
  <1>4. d \in Direction
    <2>1. PICK e \in Direction, text \in Texts : file[i].item \in ToSet(Items(e, text))
      BY <1>3 DEF Item
    <2>2. PICK k \in DOMAIN Items(e, text) : file[i].item = Items(e, text)[k]
      BY <2>1 DEF ToSet
    <2>3. k \in 1..Len(Parse(e, text))
      BY <2>2, ParsedAssumption DEF Items
    <2> QED
      BY <2>2, <2>3, Messages
  <1>5. i \in CapturedOf(x, d)
    BY <1>1 DEF CapturedOf
  <1>6. AnswerSoFar(x) /\ CountsSoFar(x) /\ FileSoFar(x)
    BY <1>3 DEF IInv, SoFar
  <1>7. StandsInOrder(x, d, Said(x, d))
    BY <1>3, <1>4, <1>6, SaidTexts DEF FileSoFar, Direction
  <1>8. Number(i) = CountUpTo(x, d, i)
    BY DEF Number
  <1>9. Number(i) \in DOMAIN Said(x, d) /\ message = Said(x, d)[Number(i)]
    <2>1. DOMAIN Said(x, d) = 1..Len(Said(x, d))
      BY <1>3, <1>4, SaidTexts
    <2>2. CountUpTo(x, d, i) \in 1..Len(Said(x, d)) /\ message = Said(x, d)[CountUpTo(x, d, i)]
      BY <1>5, <1>7 DEF StandsInOrder
    <2> QED
      BY <1>8, <2>1, <2>2
  <1>10. x \in Received
    <2>1. Count(x, d) # 0
      BY <1>1, <1>5, CapturedFinite
    <2>2. pc[x] \notin Unread
      BY <1>4, <1>6, <2>1 DEF CountsSoFar, Direction, Unread
    <2> QED
      BY <1>3, <2>2 DEF Received, Unread
  <1> QED
    BY <1>4, <1>5, <1>9, <1>10

(* No message stands twice.                                                *)
LEMMA StartedOnce ==
    ASSUME IInv, NEW i \in Starts, NEW j \in Starts,
           file[i].exchange = file[j].exchange,
           file[i].item.message.direction = file[j].item.message.direction,
           Number(i) = Number(j)
    PROVE  i = j
  <1> DEFINE x == file[i].exchange
             d == file[i].item.message.direction
             S == CapturedOf(x, d)
  <1>1. i \in S /\ j \in S
    BY StartedFacts
  <1>2. S \subseteq 1..Len(file) /\ Len(file) \in Nat
    BY CapturedFinite DEF IInv
  <1>3. Rank(S, i) = Number(i) /\ Rank(S, j) = Number(j)
    BY DEF Rank, Number, CountUpTo
  <1>4. i \in Nat /\ j \in Nat
    BY <1>1, <1>2
  <1> HIDE DEF S
  <1>5. i < j => Rank(S, i) < Rank(S, j)
    BY <1>1, <1>2, <1>4, RankGrows
  <1>6. j < i => Rank(S, j) < Rank(S, i)
    BY <1>1, <1>2, <1>4, RankGrows
  <1>7. Rank(S, i) \in Nat
    BY <1>2, RankFacts
  <1> QED
    BY <1>3, <1>4, <1>5, <1>6, <1>7

(* Two requests, or two responses, with one id are one.                    *)
LEMMA IdsDecide ==
    ASSUME IInv, IdsUsedOnce, NEW i \in Starts, NEW j \in Starts,
           SameId(file[i].item.message, file[j].item.message),
           \/ IsRequest(file[i].item.message) /\ IsRequest(file[j].item.message)
           \/ IsResponse(file[i].item.message) /\ IsResponse(file[j].item.message)
    PROVE  i = j
  <1> DEFINE x == file[i].exchange
             y == file[j].exchange
             d == file[i].item.message.direction
             e == file[j].item.message.direction
  <1>1. /\ x \in Received /\ d \in Direction /\ Number(i) \in DOMAIN Said(x, d)
        /\ file[i].item.message = Said(x, d)[Number(i)]
    BY StartedFacts
  <1>2. /\ y \in Received /\ e \in Direction /\ Number(j) \in DOMAIN Said(y, e)
        /\ file[j].item.message = Said(y, e)[Number(j)]
    BY StartedFacts
  <1>3. x = y /\ d = e /\ Number(i) = Number(j)
    <2> HIDE DEF x, y, d, e
    <2> QED
      BY <1>1, <1>2 DEF IdsUsedOnce
  <1> QED
    BY <1>3, StartedOnce

(* A captured response, and a request of its exchange that it answers: the *)
(* request stands before it.                                               *)
LEMMA AskedBefore ==
    ASSUME IInv, OwnAnswers, NEW j \in Starts, IsResponse(file[j].item.message),
           NEW request, IsAsked(file[j].exchange, file[j].item.message, request)
    PROVE  \E i \in Starts : i < j /\ file[i].item.message = request
  <1> DEFINE x == file[j].exchange
             S == CapturedOf(x, C2S)
  <1>1. /\ x \in Received /\ file[j].item.message.direction \in Direction
        /\ j \in CapturedOf(x, file[j].item.message.direction)
        /\ Number(j) \in DOMAIN Said(x, file[j].item.message.direction)
        /\ file[j].item.message = Said(x, file[j].item.message.direction)[Number(j)]
    BY StartedFacts
  <1>2. x \in Exchanges /\ C2S \in Direction
    BY <1>1 DEF Received, Direction
  <1>3. file[j].item.message.direction # C2S
    <2>1. ASSUME file[j].item.message.direction = C2S
          PROVE  file[j].item.message \in ToSet(Said(x, C2S))
      BY <1>1, <2>1 DEF ToSet
    <2> QED
      BY <1>1, <2>1 DEF OwnAnswers
  <1>4. j \in CapturedOf(x, S2C)
    BY <1>1, <1>3 DEF Direction
  <1>5. /\ Said(x, C2S) = Asked(x) /\ Len(Asked(x)) \in Nat
        /\ \E l \in 1..Len(Asked(x)) : request = Asked(x)[l]
    BY <1>2, SaidTexts DEF IsAsked
  <1>6. PICK l \in 1..Len(Asked(x)) : request = Asked(x)[l]
    BY <1>5
  <1>7. Rank(S, j) = Len(Asked(x)) /\ StandsInOrder(x, C2S, Asked(x))
    <2>1. FileSoFar(x)
      BY <1>2 DEF IInv, SoFar
    <2> QED
      BY <1>4, <2>1 DEF FileSoFar, Rank, CountUpTo
  <1>8. S \subseteq 1..Len(file) /\ Len(file) \in Nat /\ j \in Nat
    BY <1>4, CapturedFinite DEF IInv
  <1> HIDE DEF S
  <1>9. l \in 1..Cardinality(S)
    <2>1. Rank(S, j) <= Cardinality(S) /\ Cardinality(S) \in Nat
      BY <1>8, RankFacts
    <2> QED
      BY <1>5, <1>7, <2>1
  <1>10. PICK i \in S : Rank(S, i) = l
    BY <1>8, <1>9, NthFacts
  <1>11. i \in Nat /\ i # j /\ i \in Starts
    <2>1. i \in Nat
      BY <1>8
    <2>2. i \in Starts /\ file[i].item.message.direction = C2S
      BY DEF S, CapturedOf, Starts
    <2> QED
      BY <1>3, <2>1, <2>2
  <1>12. ~(j < i)
    <2>1. j < i => Rank(S, j) < Rank(S, i)
      BY <1>8, RankGrows
    <2> QED
      BY <1>5, <1>6, <1>7, <1>10, <2>1
  <1>13. file[i].item.message = Asked(x)[l]
    <2>1. CountUpTo(x, C2S, i) = l
      BY <1>10 DEF S, Rank, CountUpTo
    <2> QED
      BY <1>7, <2>1 DEF StandsInOrder, S
  <1> QED
    BY <1>6, <1>8, <1>11, <1>12, <1>13

(* The captured messages, numbered.                                        *)
LEMMA CapturedFacts ==
    ASSUME IInv
    PROVE  /\ IsMessages(CapturedMessages) /\ DOMAIN Captured = DOMAIN CapturedMessages
           /\ DOMAIN Captured \subseteq Nat
           /\ \A n \in DOMAIN Captured :
                 /\ Nth(Starts, n) \in Starts /\ Captured[n] = file[Nth(Starts, n)]
                 /\ CapturedMessages[n] = file[Nth(Starts, n)].item.message
                 /\ Rank(Starts, Nth(Starts, n)) = n
           /\ \A i \in Starts : /\ Rank(Starts, i) \in DOMAIN Captured
                                /\ Nth(Starts, Rank(Starts, i)) = i
           /\ \A i, j \in Starts : i < j => Rank(Starts, i) < Rank(Starts, j)
  <1>1. Starts \subseteq 1..Len(file) /\ Len(file) \in Nat
    BY DEF IInv, Typing, Starts
  <1> DEFINE c == Cardinality(Starts)
  <1>2. c \in Nat
    BY <1>1, RankFacts
  <1>3. DOMAIN Captured = 1..c /\ DOMAIN CapturedMessages = 1..c
    BY DEF Captured, CapturedMessages
  <1>4. \A n \in 1..c : Nth(Starts, n) \in Starts /\ Rank(Starts, Nth(Starts, n)) = n
    BY <1>1, NthFacts
  <1>5. \A i \in Starts : Rank(Starts, i) \in 1..c
    BY <1>1, RankFacts
  <1>6. \A i, j \in Starts : i < j => Rank(Starts, i) < Rank(Starts, j)
    <2>1. \A i \in Starts : i \in Nat
      BY <1>1
    <2> QED
      BY <1>1, <2>1, RankGrows
  <1>7. ASSUME NEW i \in Starts PROVE Nth(Starts, Rank(Starts, i)) = i
    <2>1. PICK k : k = Nth(Starts, Rank(Starts, i))
      OBVIOUS
    <2>2. k \in Starts /\ Rank(Starts, k) = Rank(Starts, i)
      BY <1>4, <1>5, <2>1
    <2>3. ~(k < i) /\ ~(i < k)
      <3>1. Rank(Starts, i) \in Nat
        BY <1>1, RankFacts
      <3> QED
        BY <1>6, <2>2, <3>1
    <2>4. k \in Nat /\ i \in Nat
      BY <1>1, <2>2
    <2> QED
      BY <2>1, <2>3, <2>4
  <1>8. IsMessages(CapturedMessages)
    <2>1. Len(CapturedMessages) = c
      BY <1>2 DEF Captured, CapturedMessages
    <2> HIDE DEF c
    <2> QED
      BY <1>2, <1>3, <2>1 DEF IsMessages
  <1>9. \A n \in 1..c : /\ Captured[n] = file[Nth(Starts, n)]
                         /\ CapturedMessages[n] = file[Nth(Starts, n)].item.message
    BY DEF Captured, CapturedMessages
  <1> HIDE DEF c
  <1>10. 1..c \subseteq Nat
    BY <1>2
  <1> QED
    BY <1>3, <1>4, <1>5, <1>6, <1>7, <1>8, <1>9, <1>10

(* A captured response is paired with the request of its own exchange, and *)
(* with no other.                                                          *)
LEMMA PairedWithOwn ==
    ASSUME IInv, IdsUsedOnce, OwnAnswers, NEW n \in DOMAIN Captured,
           IsResponse(CapturedMessages[n]),
           NEW request, IsAsked(Captured[n].exchange, CapturedMessages[n], request)
    PROVE  /\ \E k \in DOMAIN Captured :
                 Answers(CapturedMessages, k, n) /\ CapturedMessages[k] = request
           /\ \A k \in DOMAIN Captured :
                 Answers(CapturedMessages, k, n) => CapturedMessages[k] = request
  <1> DEFINE m == CapturedMessages
             At(k) == Nth(Starts, k)
             j == At(n)
  <1>1. /\ \A k \in DOMAIN Captured : At(k) \in Starts /\ m[k] = file[At(k)].item.message
        /\ DOMAIN Captured \subseteq Nat
        /\ \A k \in DOMAIN Captured : Rank(Starts, At(k)) = k
        /\ Captured[n] = file[j]
    BY CapturedFacts
  <1>2. j \in Starts /\ m[n] = file[j].item.message /\ n \in Nat
    BY <1>1
  <1>3. PICK i \in Starts : i < j /\ file[i].item.message = request
    BY <1>1, <1>2, AskedBefore
  <1>4. IsRequest(request) /\ SameId(request, m[n])
    BY DEF IsAsked
  <1>5. PICK r \in DOMAIN Captured : At(r) = i
    BY CapturedFacts
  <1>6. r \in Nat /\ r < n /\ m[r] = request
    <2>1. Rank(Starts, i) = r /\ Rank(Starts, j) = n
      BY <1>1, <1>5
    <2>2. Rank(Starts, i) < Rank(Starts, j)
      BY <1>2, <1>3, CapturedFacts
    <2> QED
      BY <1>1, <1>3, <1>5, <2>1, <2>2
  <1>7. ASSUME NEW k \in DOMAIN Captured, IsRequest(m[k]), SameId(m[k], m[n])
        PROVE  k = r
    <2>1. SameId(m[k], m[r])
      BY <1>4, <1>6, <1>7 DEF SameId
    <2>2. At(k) = At(r)
      BY <1>1, <1>4, <1>6, <1>7, <2>1, IdsDecide
    <2> QED
      BY <1>1, <2>2
  <1>8. ASSUME NEW k \in DOMAIN Captured, IsResponse(m[k]), SameId(m[k], m[n])
        PROVE  k = n
    <2>1. At(k) = At(n)
      BY <1>1, <1>8, IdsDecide
    <2> QED
      BY <1>1, <2>1
  <1>9. ASSUME NEW k \in (r + 1)..(n - 1)
        PROVE  k \in DOMAIN Captured /\ k # r /\ k # n
    <2>1. DOMAIN Captured = 1..Len(m) /\ Len(m) \in Nat
      BY CapturedFacts DEF IsMessages
    <2> HIDE DEF m
    <2>2. n <= Len(m) /\ 1 <= r
      BY <2>1
    <2> QED
      BY <1>2, <1>6, <2>1, <2>2
  <1>10. Answers(m, r, n)
    <2>1. IsRequest(m[r]) /\ IsResponse(m[n]) /\ SameId(m[r], m[n]) /\ r < n
      BY <1>4, <1>6
    <2>2. \A k \in (r + 1)..(n - 1) :
             (IsRequest(m[k]) \/ IsResponse(m[k])) => ~SameId(m[k], m[n])
      BY <1>7, <1>8, <1>9
    <2> HIDE DEF m
    <2> QED
      BY <2>1, <2>2 DEF Answers
  <1>11. ASSUME NEW k \in DOMAIN Captured, Answers(m, k, n) PROVE m[k] = request
    <2>1. IsRequest(m[k]) /\ SameId(m[k], m[n])
      BY <1>11 DEF Answers
    <2> QED
      BY <1>6, <1>7, <2>1
  <1> QED
    BY <1>6, <1>10, <1>11

(* The answers the loop of generate_stub finds for a key are those of the  *)
(* exchanges that asked for it.                                            *)
LEMMA PairingIsOwn ==
    ASSUME IInv, IdsUsedOnce, OwnAnswers, NEW key
    PROVE  AnswersTo(key) = AnswerPositions(CapturedMessages, key)
  <1> DEFINE m == CapturedMessages
  <1>1. /\ DOMAIN Captured = DOMAIN m
        /\ \A n \in DOMAIN Captured : m[n] = Captured[n].item.message
    BY CapturedFacts
  <1>2. ASSUME NEW n \in DOMAIN Captured, IsResponse(m[n])
        PROVE  \E request \in ToSet(Said(Captured[n].exchange, C2S)) :
                  IsAsked(Captured[n].exchange, m[n], request)
    <2> DEFINE i == Nth(Starts, n)
               x == file[i].exchange
               d == file[i].item.message.direction
    <2>1. i \in Starts /\ Captured[n] = file[i] /\ m[n] = file[i].item.message
      BY CapturedFacts
    <2>2. /\ x \in Received /\ d \in Direction /\ Number(i) \in DOMAIN Said(x, d)
          /\ m[n] = Said(x, d)[Number(i)]
      BY <2>1, StartedFacts
    <2> HIDE DEF m, i, x, d
    <2>3. m[n] \in ToSet(Said(x, C2S)) \/ m[n] \in ToSet(Said(x, S2C))
      BY <2>2 DEF ToSet, Direction
    <2>4. Captured[n].exchange = x
      BY <2>1 DEF x
    <2> QED
      BY <1>2, <2>2, <2>3, <2>4 DEF OwnAnswers
  <1>3. ASSUME NEW n \in AnswersTo(key)
        PROVE  n \in AnswerPositions(m, key)
    <2>1. n \in DOMAIN Captured /\ IsResponse(m[n])
      BY <1>1 DEF AnswersTo
    <2>2. PICK request : IsAsked(Captured[n].exchange, m[n], request) /\ Key(request) = key
      BY <1>1 DEF AnswersTo
    <2>3. PICK k \in DOMAIN Captured : Answers(m, k, n) /\ m[k] = request
      BY <2>1, <2>2, PairedWithOwn
    <2> QED
      BY <1>1, <2>1, <2>2, <2>3 DEF AnswerPositions
  <1>4. ASSUME NEW n \in AnswerPositions(m, key)
        PROVE  n \in AnswersTo(key)
    <2>1. PICK k \in DOMAIN m : Answers(m, k, n) /\ Key(m[k]) = key
      BY DEF AnswerPositions
    <2>2. n \in DOMAIN Captured /\ IsResponse(m[n])
      BY <1>1, <2>1 DEF AnswerPositions, Answers
    <2>3. PICK request \in ToSet(Said(Captured[n].exchange, C2S)) :
             IsAsked(Captured[n].exchange, m[n], request)
      BY <1>2, <2>2
    <2>4. m[k] = request
      BY <1>1, <2>1, <2>2, <2>3, PairedWithOwn
    <2> QED
      BY <1>1, <2>1, <2>2, <2>3, <2>4 DEF AnswersTo
  <1> QED
    BY <1>3, <1>4

(* Every exchange asks and answers with ids of its own: then the stub of   *)
(* the transcript lists for a key the answers of the exchanges that asked  *)
(* for it, whatever handlers worked at once and wherever they ended        *)
(* (mcp/proxy_http.py with mcp/stubgen.py).                                *)
THEOREM StubOfExchanges == Spec => []StubPairsExchanges
  <1>1. IInv => StubPairsExchanges
    <2> SUFFICES ASSUME IInv, IdsUsedOnce, OwnAnswers,
                        NEW key \in DOMAIN GenerateStub(CapturedMessages) \cup KeysAsked
                 PROVE  LET answers == AnswersFor(GenerateStub(CapturedMessages), key)
                            places == AnswersTo(key)
                        IN  /\ Len(answers) = Cardinality(places)
                            /\ \A n \in places :
                                  answers[Cardinality({k \in places : k <= n})] =
                                      Captured[n].item.message.answer
      BY DEF StubPairsExchanges
    <2> DEFINE m == CapturedMessages
               answers == AnswersFor(GenerateStub(m), key)
               places == AnswersTo(key)
    <2>1. /\ IsMessages(m) /\ DOMAIN m = DOMAIN Captured
          /\ \A n \in DOMAIN m : m[n] = Captured[n].item.message
      BY CapturedFacts
    <2>2. AnswersUpTo(m, key, Len(m)) = AnswerPositions(m, key)
      BY <2>1 DEF AnswersUpTo, AnswerPositions, IsMessages
    <2>3. Ranked(m, answers, AnswerPositions(m, key))
      BY <2>1, <2>2, GeneratedFits DEF MethodsFit
    <2>4. places = AnswerPositions(m, key) /\ places \subseteq DOMAIN m
      BY PairingIsOwn DEF AnswerPositions
    <2> HIDE DEF m, answers, places
    <2>5. /\ Len(answers) = Cardinality(places)
          /\ \A n \in places : answers[Cardinality({k \in places : k <= n})] = m[n].answer
      BY <2>3, <2>4 DEF Ranked
    <2>6. \A n \in places : m[n].answer = Captured[n].item.message.answer
      BY <2>1, <2>4
    <2> QED
      BY <2>5, <2>6 DEF answers, places, m
  <1> QED
    BY <1>1, Invariant, PTL
================================================================================
