---------------------------- MODULE StubGen_proofs ----------------------------
(***************************************************************************)
(* generate_stub computes the pairing of requests and responses of any     *)
(* transcript, whatever its messages and their ids.                        *)
(*                                                                         *)
(* The loop is followed message by message: what is pending after n of     *)
(* them is what waits for an answer, and the answers listed are those of   *)
(* the pairing so far (Fits).                                              *)
(*                                                                         *)
(* The first two sections, on induction and on FlattenSeq, serve the other *)
(* proofs as well.                                                         *)
(***************************************************************************)
EXTENDS StubGen, FiniteSetTheorems, WellFoundedInduction, TLAPS

(* Induction over the numbers, for a set.                                  *)
LEMMA NatSetInduction ==
    ASSUME NEW S, 0 \in S, \A n \in Nat : n \in S => n + 1 \in S
    PROVE  Nat \subseteq S
  <1> DEFINE R == OpToRel(<, Nat)
             T == Nat \ S
  <1> SUFFICES ASSUME T # {} PROVE FALSE
    OBVIOUS
  <1>1. IsWellFoundedOn(R, Nat)
    BY NatLessThanWellFounded
  <1>2. PICK x \in T : \A y \in T : ~ (<<y, x>> \in R)
    <2>1. T \subseteq Nat
      OBVIOUS
    <2> HIDE DEF R, T
    <2> QED
      BY <1>1, <2>1, WFMin
  <1>3. x # 0 /\ x - 1 \in Nat /\ x - 1 < x
    OBVIOUS
  <1>4. x - 1 \in T
    BY <1>3
  <1> QED
    BY <1>2, <1>3, <1>4 DEF OpToRel

-------------------------------------------------------------------------------
(* FlattenSeq.                                                             *)

Joined(parts, f, last) ==
    f = [i \in 1..last |-> IF i = 1 THEN parts[i] ELSE f[i - 1] \o parts[i]]

(* The recursive function in FlattenSeq is well defined ...                *)
LEMMA JoinedExists ==
    ASSUME NEW parts, NEW last \in Nat
    PROVE  \E f : Joined(parts, f, last)
  <1> DEFINE S == {k \in Nat : \E f : Joined(parts, f, k)}
  <1>1. 0 \in S
    <2>1. Joined(parts, [i \in 1..0 |-> parts], 0)
      BY DEF Joined
    <2> QED
      BY <2>1
  <1>2. ASSUME NEW k \in Nat, k \in S
        PROVE  k + 1 \in S
    <2>1. PICK f : Joined(parts, f, k)
      BY <1>2
    <2> DEFINE g == [i \in 1..(k + 1) |-> IF i <= k THEN f[i]
                                          ELSE IF k = 0 THEN parts[i] ELSE f[k] \o parts[i]]
    <2>2. \A i \in 1..k : f[i] = IF i = 1 THEN parts[i] ELSE f[i - 1] \o parts[i]
      BY <2>1 DEF Joined
    <2>3. \A i \in 1..k : g[i] = f[i] /\ (i # 1 => i - 1 \in 1..k /\ g[i - 1] = f[i - 1])
      OBVIOUS
    <2>4. g[k + 1] = IF k + 1 = 1 THEN parts[k + 1] ELSE g[(k + 1) - 1] \o parts[k + 1]
      BY <2>3
    <2>5. \A i \in 1..(k + 1) : g[i] = IF i = 1 THEN parts[i] ELSE g[i - 1] \o parts[i]
      <3> HIDE DEF g
      <3>1. \A i \in 1..(k + 1) : i \in 1..k \/ i = k + 1
        OBVIOUS
      <3> QED
        BY <2>2, <2>3, <2>4, <3>1
    <2>6. Joined(parts, g, k + 1)
      BY <2>5 DEF Joined
    <2> HIDE DEF g
    <2> QED
      BY <2>6
  <1> HIDE DEF S
  <1>3. last \in S
    BY <1>1, <1>2, NatSetInduction
  <1> QED
    BY <1>3 DEF S

(* ... and determined by the parts it joins.                               *)
LEMMA JoinedAgree ==
    ASSUME NEW parts, NEW others, NEW f, NEW g, NEW k \in Nat, NEW l \in Nat, k <= l,
           Joined(parts, f, k), Joined(others, g, l), \A i \in 1..k : parts[i] = others[i]
    PROVE  \A i \in 1..k : f[i] = g[i]
  <1> DEFINE S == {i \in Nat : i \in 1..k => f[i] = g[i]}
  <1>1. \A i \in 1..k : f[i] = IF i = 1 THEN parts[i] ELSE f[i - 1] \o parts[i]
    BY DEF Joined
  <1>2. \A i \in 1..l : g[i] = IF i = 1 THEN others[i] ELSE g[i - 1] \o others[i]
    BY DEF Joined
  <1>3. 0 \in S
    OBVIOUS
  <1>4. ASSUME NEW i \in Nat, i \in S, i + 1 \in 1..k PROVE f[i + 1] = g[i + 1]
    <2>1. i + 1 \in 1..l /\ parts[i + 1] = others[i + 1]
      BY <1>4
    <2>2. CASE i = 0
      <3>1. 1 \in 1..k /\ 1 \in 1..l /\ i + 1 = 1
        BY <2>2, <1>4
      <3>2. f[1] = parts[1] /\ g[1] = others[1]
        BY <3>1, <1>1, <1>2
      <3> QED
        BY <2>1, <3>1, <3>2
    <2>3. CASE i # 0
      <3>1. i \in 1..k /\ (i + 1) - 1 = i /\ i + 1 # 1
        BY <2>3, <1>4
      <3>2. f[i] = g[i]
        BY <3>1, <1>4
      <3>3. f[i + 1] = f[i] \o parts[i + 1]
        BY <3>1, <1>1, <1>4
      <3>4. g[i + 1] = g[i] \o others[i + 1]
        BY <3>1, <2>1, <1>2
      <3> QED
        BY <3>2, <3>3, <3>4, <2>1
    <2> QED
      BY <2>2, <2>3
  <1>5. Nat \subseteq S
    <2>1. \A i \in Nat : i \in S => i + 1 \in S
      BY <1>4
    <2> HIDE DEF S
    <2> QED
      BY <1>3, <2>1, NatSetInduction
  <1> QED
    BY <1>5

(* What FlattenSeq yields, by any function that joins the parts.           *)
LEMMA Flattened ==
    ASSUME NEW T, NEW parts \in Seq(Seq(T)), NEW f, Joined(parts, f, Len(parts))
    PROVE  FlattenSeq(parts) = IF Len(parts) = 0 THEN <<>> ELSE f[Len(parts)]
  <1>1. CASE Len(parts) = 0
    BY <1>1 DEF FlattenSeq
  <1>2. CASE Len(parts) # 0
    <2> DEFINE flat == CHOOSE h : Joined(parts, h, Len(parts))
    <2>1. Joined(parts, flat, Len(parts))
      OBVIOUS
    <2>2. FlattenSeq(parts) = flat[Len(parts)]
      BY <1>2 DEF FlattenSeq, Joined
    <2> HIDE DEF flat
    <2>3. Len(parts) \in 1..Len(parts)
      BY <1>2
    <2>4. \A i \in 1..Len(parts) : flat[i] = f[i]
      BY <2>1, JoinedAgree
    <2> QED
      BY <1>2, <2>2, <2>3, <2>4
  <1> QED
    BY <1>1, <1>2

(* A sequence of parts with one more is flattened to one longer.           *)
LEMMA FlattenAppend ==
    ASSUME NEW T, NEW parts \in Seq(Seq(T)), NEW part \in Seq(T)
    PROVE  FlattenSeq(Append(parts, part)) = FlattenSeq(parts) \o part
  <1> DEFINE L == Len(parts)
             more == Append(parts, part)
  <1>0. L \in Nat /\ L + 1 \in Nat /\ L <= L + 1
    OBVIOUS
  <1>1. L \in Nat /\ Len(more) = L + 1 /\ more[L + 1] = part /\ \A i \in 1..L : parts[i] = more[i]
    OBVIOUS
  <1>2. more \in Seq(Seq(T))
    OBVIOUS
  <1> HIDE DEF more, L
  <1>3. PICK f : Joined(parts, f, L)
    BY <1>0, JoinedExists
  <1>4. PICK g : Joined(more, g, L + 1)
    BY <1>0, JoinedExists
  <1>5. FlattenSeq(parts) = IF L = 0 THEN <<>> ELSE f[L]
    BY <1>3, Flattened DEF L
  <1>6. FlattenSeq(more) = g[L + 1]
    BY <1>1, <1>2, <1>4, Flattened
  <1>7. g[L + 1] = IF L = 0 THEN part ELSE g[L] \o part
    <2>1. L + 1 \in 1..(L + 1) /\ (L + 1) - 1 = L /\ (L + 1 = 1 <=> L = 0)
      BY <1>0
    <2> QED
      BY <2>1, <1>1, <1>4 DEF Joined
  <1>8. L # 0 => f[L] = g[L]
    <2>1. \A i \in 1..L : f[i] = g[i]
      BY <1>0, <1>1, <1>3, <1>4, JoinedAgree
    <2> QED
      BY <2>1, <1>1
  <1>9. <<>> \o part = part
    OBVIOUS
  <1> QED
    BY <1>5, <1>6, <1>7, <1>8, <1>9 DEF more, L

(* Each entry of a flattened sequence is one of a part: the parts follow   *)
(* one another, and the entries of each have their order.                  *)
ComesFrom(flat, parts, part, pos) ==
    /\ part \in [1..Len(flat) -> 1..Len(parts)] /\ pos \in [1..Len(flat) -> Nat]
    /\ \A i \in 1..Len(flat) :
          pos[i] \in 1..Len(parts[part[i]]) /\ flat[i] = parts[part[i]][pos[i]]
    /\ \A i, j \in 1..Len(flat) :
          i < j => part[i] < part[j] \/ (part[i] = part[j] /\ pos[i] < pos[j])
    /\ \A k \in 1..Len(parts) : \A q \in 1..Len(parts[k]) :
          \E i \in 1..Len(flat) : part[i] = k /\ pos[i] = q

Flat(flat, parts) == \E part, pos : ComesFrom(flat, parts, part, pos)

LEMMA LongerComesFrom ==
    ASSUME NEW T, NEW parts \in Seq(Seq(T)), NEW last \in Seq(T), NEW flat \in Seq(T),
           Flat(flat, parts)
    PROVE  Flat(flat \o last, Append(parts, last))
  <1>1. PICK part, pos : ComesFrom(flat, parts, part, pos)
    BY DEF Flat
  <1> DEFINE more == Append(parts, last)
             long == flat \o last
             L == Len(parts)
             F == Len(flat)
             G == Len(last)
             part1 == [i \in 1..Len(long) |-> IF i <= F THEN part[i] ELSE L + 1]
             pos1 == [i \in 1..Len(long) |-> IF i <= F THEN pos[i] ELSE i - F]
  <1>2. L \in Nat /\ F \in Nat /\ G \in Nat
    OBVIOUS
  <1>3. Len(more) = L + 1 /\ more[L + 1] = last /\ \A i \in 1..L : more[i] = parts[i]
    OBVIOUS
  <1>4. /\ Len(long) = F + G
        /\ \A i \in 1..F : long[i] = flat[i]
        /\ \A i \in 1..G : long[F + i] = last[i]
    OBVIOUS
  <1>5. /\ part \in [1..F -> 1..L] /\ pos \in [1..F -> Nat]
        /\ \A i \in 1..F : pos[i] \in 1..Len(parts[part[i]]) /\ flat[i] = parts[part[i]][pos[i]]
        /\ \A i, j \in 1..F : i < j => part[i] < part[j] \/ (part[i] = part[j] /\ pos[i] < pos[j])
        /\ \A k \in 1..L : \A q \in 1..Len(parts[k]) : \E i \in 1..F : part[i] = k /\ pos[i] = q
    BY <1>1 DEF ComesFrom
  <1>6. /\ \A i \in 1..F : i \in 1..(F + G) /\ part1[i] = part[i] /\ pos1[i] = pos[i]
        /\ \A i \in 1..(F + G) : ~(i <= F) => part1[i] = L + 1 /\ pos1[i] = i - F /\ i - F \in 1..G
        /\ DOMAIN part1 = 1..(F + G) /\ DOMAIN pos1 = 1..(F + G)
    BY <1>2, <1>4
  <1>7. \A i \in 1..(F + G) : i \in 1..F \/ (~(i <= F) /\ F + (i - F) = i)
    BY <1>2
  <1> HIDE DEF more, long, L, F, G, part1, pos1
  <1>8. part1 \in [1..(F + G) -> 1..(L + 1)] /\ pos1 \in [1..(F + G) -> Nat]
    <2>1. \A i \in 1..(F + G) : part1[i] \in 1..(L + 1) /\ pos1[i] \in Nat
      <3> TAKE i \in 1..(F + G)
      <3>1. CASE i \in 1..F
        <4>1. part1[i] = part[i] /\ pos1[i] = pos[i] /\ part[i] \in 1..L /\ pos[i] \in Nat
          BY <3>1, <1>5, <1>6
        <4> QED
          BY <4>1, <1>2
      <3>2. CASE ~(i <= F)
        <4>1. part1[i] = L + 1 /\ pos1[i] = i - F /\ i - F \in 1..G
          BY <3>2, <1>6
        <4> QED
          BY <4>1, <1>2
      <3> QED
        BY <3>1, <3>2, <1>7
    <2> QED
      BY <2>1, <1>4, <1>6 DEF part1, pos1
  <1>9. ASSUME NEW i \in 1..(F + G)
        PROVE  pos1[i] \in 1..Len(more[part1[i]]) /\ long[i] = more[part1[i]][pos1[i]]
    <2>1. CASE i \in 1..F
      <3>1. part1[i] = part[i] /\ pos1[i] = pos[i] /\ part[i] \in 1..L
        BY <2>1, <1>5, <1>6
      <3> QED
        BY <2>1, <3>1, <1>3, <1>4, <1>5
    <2>2. CASE ~(i <= F)
      <3>1. part1[i] = L + 1 /\ pos1[i] = i - F /\ i - F \in 1..G /\ F + (i - F) = i
        BY <2>2, <1>6, <1>7
      <3>2. long[F + (i - F)] = last[i - F]
        BY <3>1, <1>4
      <3> QED
        BY <3>1, <3>2, <1>3 DEF G
    <2> QED
      BY <2>1, <2>2, <1>7
  <1>10. ASSUME NEW i \in 1..(F + G), NEW j \in 1..(F + G), i < j
         PROVE  part1[i] < part1[j] \/ (part1[i] = part1[j] /\ pos1[i] < pos1[j])
    <2>1. CASE j \in 1..F
      <3>1. i \in 1..F
        BY <2>1, <1>2, <1>10
      <3> QED
        BY <2>1, <3>1, <1>5, <1>6, <1>10
    <2>2. CASE ~(j <= F) /\ i \in 1..F
      <3>1. part1[i] = part[i] /\ part[i] \in 1..L /\ part1[j] = L + 1
        BY <2>2, <1>5, <1>6
      <3> QED
        BY <3>1, <1>2
    <2>3. CASE ~(j <= F) /\ ~(i <= F)
      <3>1. part1[i] = part1[j] /\ pos1[i] = i - F /\ pos1[j] = j - F
        BY <2>3, <1>6
      <3> QED
        BY <3>1, <1>2, <1>10
    <2> QED
      BY <2>1, <2>2, <2>3, <1>7
  <1>11. ASSUME NEW k \in 1..(L + 1), NEW q \in 1..Len(more[k])
         PROVE  \E i \in 1..(F + G) : part1[i] = k /\ pos1[i] = q
    <2>1. CASE k \in 1..L
      <3>1. PICK i \in 1..F : part[i] = k /\ pos[i] = q
        BY <2>1, <1>3, <1>5
      <3> QED
        BY <3>1, <1>6
    <2>2. CASE k = L + 1
      <3>1. q \in 1..G
        BY <2>2, <1>3 DEF G
      <3>2. F + q \in 1..(F + G) /\ ~(F + q <= F) /\ (F + q) - F = q
        BY <3>1, <1>2
      <3> QED
        BY <2>2, <3>2, <1>6
    <2> QED
      BY <2>1, <2>2, <1>2
  <1>12. ComesFrom(long, more, part1, pos1)
    BY <1>3, <1>4, <1>8, <1>9, <1>10, <1>11 DEF ComesFrom
  <1> QED
    BY <1>12 DEF Flat, long, more

LEMMA FlattenPlaces ==
    ASSUME NEW T, NEW parts \in Seq(Seq(T))
    PROVE  FlattenSeq(parts) \in Seq(T) /\ Flat(FlattenSeq(parts), parts)
  <1> DEFINE Done(p) == FlattenSeq(p) \in Seq(T) /\ Flat(FlattenSeq(p), p)
             S == {k \in Nat : \A p \in Seq(Seq(T)) : Len(p) = k => Done(p)}
  <1>1. 0 \in S
    <2>1. ASSUME NEW p \in Seq(Seq(T)), Len(p) = 0
          PROVE  Done(p)
      <3>1. p = <<>> /\ FlattenSeq(p) = <<>>
        BY <2>1 DEF FlattenSeq
      <3> DEFINE none == [i \in 1..0 |-> 1]
      <3>2. ComesFrom(<<>>, <<>>, none, none)
        BY DEF ComesFrom
      <3>3. Flat(<<>>, <<>>)
        BY <3>2 DEF Flat
      <3>4. <<>> \in Seq(T)
        OBVIOUS
      <3>5. FlattenSeq(p) \in Seq(T)
        BY <3>1, <3>4
      <3>6. Flat(FlattenSeq(p), p)
        BY <3>1, <3>3, Zenon
      <3> QED
        BY <3>5, <3>6
    <2> HIDE DEF Done
    <2> QED
      BY <2>1
  <1>2. ASSUME NEW k \in Nat, k \in S
        PROVE  k + 1 \in S
    <2>1. ASSUME NEW p \in Seq(Seq(T)), Len(p) = k + 1
          PROVE  Done(p)
      <3> DEFINE front == SubSeq(p, 1, k)
                 last == p[k + 1]
      <3>1. front \in Seq(Seq(T)) /\ Len(front) = k /\ last \in Seq(T) /\ p = Append(front, last)
        BY <2>1
      <3> HIDE DEF front, last
      <3>2. FlattenSeq(front) \in Seq(T) /\ Flat(FlattenSeq(front), front)
        BY <3>1, <1>2
      <3>3. FlattenSeq(p) = FlattenSeq(front) \o last
        BY <3>1, FlattenAppend
      <3>4. Flat(FlattenSeq(front) \o last, p)
        BY <3>1, <3>2, LongerComesFrom
      <3>5. FlattenSeq(front) \o last \in Seq(T)
        BY <3>1, <3>2
      <3> QED
        BY <3>3, <3>4, <3>5
    <2> HIDE DEF Done
    <2> QED
      BY <2>1
  <1>3. Len(parts) \in S
    <2> HIDE DEF S
    <2> QED
      BY <1>1, <1>2, NatSetInduction
  <1> QED
    BY <1>3

(* Parts of which none has an entry, ...                                   *)
LEMMA FlattenNone ==
    ASSUME NEW T, NEW parts \in Seq(Seq(T)), \A k \in 1..Len(parts) : parts[k] = <<>>
    PROVE  FlattenSeq(parts) = <<>>
  <1> DEFINE flat == FlattenSeq(parts)
  <1>1. flat \in Seq(T) /\ Flat(flat, parts)
    BY FlattenPlaces
  <1> HIDE DEF flat
  <1>2. PICK part, pos : ComesFrom(flat, parts, part, pos)
    BY <1>1 DEF Flat
  <1>3. ASSUME NEW i \in 1..Len(flat) PROVE FALSE
    <2>1. part[i] \in 1..Len(parts) /\ pos[i] \in 1..Len(parts[part[i]])
      BY <1>2 DEF ComesFrom
    <2> QED
      BY <2>1
  <1>4. Len(flat) = 0
    <2>1. Len(flat) \in Nat
      BY <1>1
    <2> QED
      BY <2>1, <1>3
  <1> QED
    BY <1>1, <1>4 DEF flat

(* ... and parts of which only one has an entry.                           *)
LEMMA FlattenOne ==
    ASSUME NEW T, NEW parts \in Seq(Seq(T)), NEW k \in 1..Len(parts), NEW entry \in T,
           parts[k] = <<entry>>, \A l \in 1..Len(parts) : l # k => parts[l] = <<>>
    PROVE  FlattenSeq(parts) = <<entry>>
  <1> DEFINE flat == FlattenSeq(parts)
  <1>1. flat \in Seq(T) /\ Flat(flat, parts)
    BY FlattenPlaces
  <1> HIDE DEF flat
  <1>2. PICK part, pos : ComesFrom(flat, parts, part, pos)
    BY <1>1 DEF Flat
  <1>3. ASSUME NEW i \in 1..Len(flat)
        PROVE  part[i] = k /\ pos[i] = 1 /\ flat[i] = entry
    <2>1. /\ part[i] \in 1..Len(parts) /\ pos[i] \in 1..Len(parts[part[i]])
          /\ flat[i] = parts[part[i]][pos[i]]
      BY <1>2 DEF ComesFrom
    <2>2. part[i] = k
      BY <2>1
    <2>3. pos[i] \in 1..1
      BY <2>1, <2>2
    <2>4. pos[i] = 1
      BY <2>3
    <2> QED
      BY <2>1, <2>2, <2>4
  <1>4. \A i, j \in 1..Len(flat) : ~(i < j)
    <2> SUFFICES ASSUME NEW i \in 1..Len(flat), NEW j \in 1..Len(flat), i < j PROVE FALSE
      OBVIOUS
    <2>1. part[i] < part[j] \/ (part[i] = part[j] /\ pos[i] < pos[j])
      BY <1>2 DEF ComesFrom
    <2>2. part[i] = k /\ part[j] = k /\ pos[i] = 1 /\ pos[j] = 1
      BY <1>3
    <2> QED
      BY <2>1, <2>2
  <1>5. \E i \in 1..Len(flat) : TRUE
    <2>1. 1 \in 1..Len(parts[k])
      OBVIOUS
    <2> QED
      BY <2>1, <1>2 DEF ComesFrom
  <1>6. Len(flat) = 1
    <2>1. Len(flat) \in Nat
      BY <1>1
    <2>2. Len(flat) >= 1
      BY <2>1, <1>5
    <2>3. ~(Len(flat) >= 2)
      <3> SUFFICES ASSUME Len(flat) >= 2 PROVE FALSE
        OBVIOUS
      <3>1. 1 \in 1..Len(flat) /\ 2 \in 1..Len(flat)
        BY <2>1
      <3> QED
        BY <3>1, <1>4
    <2> DEFINE n == Len(flat)
    <2> HIDE DEF n
    <2>4. n \in Nat /\ n >= 1 /\ ~(n >= 2)
      BY <2>1, <2>2, <2>3 DEF n
    <2>5. n = 1
      BY <2>4
    <2> QED
      BY <2>5 DEF n
  <1>7. flat[1] = entry
    BY <1>3, <1>6
  <1> QED
    BY <1>1, <1>6, <1>7 DEF flat

-------------------------------------------------------------------------------
(* The loop of generate_stub is well defined.                              *)
LEMMA LoopSteps ==
    ASSUME NEW messages, Len(messages) \in Nat
    PROVE  LET after == StubAfter(messages)
           IN  /\ after[0] = [pending |-> <<>>, methods |-> EmptyStub]
               /\ \A n \in 1..Len(messages) : after[n] = StubStep(after[n - 1], messages[n])
  <1> DEFINE start == [pending |-> <<>>, methods |-> EmptyStub]
             Loop(f, k) == f = [n \in 0..k |-> IF n = 0 THEN start ELSE StubStep(f[n - 1], messages[n])]
             S == {k \in Nat : \E f : Loop(f, k)}
  <1>1. 0 \in S
    <2>1. Loop([n \in 0..0 |-> start], 0)
      OBVIOUS
    <2> QED
      BY <2>1
  <1>2. ASSUME NEW k \in Nat, k \in S
        PROVE  k + 1 \in S
    <2>1. PICK f : Loop(f, k)
      BY <1>2
    <2> DEFINE g == [n \in 0..(k + 1) |-> IF n = k + 1 THEN StubStep(f[k], messages[n]) ELSE f[n]]
    <2>2. \A n \in 0..k : f[n] = IF n = 0 THEN start ELSE StubStep(f[n - 1], messages[n])
      BY <2>1
    <2>3. \A n \in 0..(k + 1) : g[n] = IF n = 0 THEN start ELSE StubStep(g[n - 1], messages[n])
      <3>1. ASSUME NEW n \in 0..k
            PROVE  g[n] = f[n] /\ (n # 0 => n - 1 \in 0..k /\ g[n - 1] = f[n - 1])
        OBVIOUS
      <3>2. g[k + 1] = StubStep(g[k], messages[k + 1])
        BY <3>1
      <3> HIDE DEF g
      <3>3. ASSUME NEW n \in 0..(k + 1), n # k + 1
            PROVE  n \in 0..k
        BY <3>3
      <3> QED
        BY <2>2, <3>1, <3>2, <3>3
    <2>4. Loop(g, k + 1)
      BY <2>3
    <2>5. \E h : Loop(h, k + 1)
      <3> HIDE DEF Loop, g
      <3> QED
        BY <2>4
    <2> HIDE DEF Loop
    <2> QED
      BY <2>5
  <1>3. Len(messages) \in S
    <2> HIDE DEF S
    <2> QED
      BY <1>1, <1>2, NatSetInduction
  <1>4. Loop(StubAfter(messages), Len(messages))
    BY <1>3 DEF StubAfter
  <1> QED
    BY <1>4

(* After n messages request i is pending: it is the last message with its  *)
(* id text that is a request or a response.                                *)
Waiting(messages, n, i) ==
    /\ i \in 1..n /\ IsRequest(messages[i])
    /\ \A k \in (i + 1)..n :
          (IsRequest(messages[k]) \/ IsResponse(messages[k])) => ~SameId(messages[k], messages[i])

TextAt(messages, i) == IdText(messages[i].id)

(* The pending requests: id texts and keys of those that wait.             *)
PendingFits(messages, pending, n) ==
    /\ \A i \in 1..n : Waiting(messages, n, i) =>
          TextAt(messages, i) \in DOMAIN pending /\ pending[TextAt(messages, i)] = Key(messages[i])
    /\ \A text \in DOMAIN pending :
          \E i \in 1..n : Waiting(messages, n, i) /\ TextAt(messages, i) = text

(* What is recorded for a key after n messages, and all the answers.       *)
AnswersUpTo(messages, key, n) == {j \in AnswerPositions(messages, key) : j <= n}

AnswersOf(messages) == {messages[j].answer : j \in DOMAIN messages}

(* These answers stand at these positions, in their order.                 *)
Ranked(messages, answers, positions) ==
    /\ answers \in Seq(AnswersOf(messages)) /\ Len(answers) = Cardinality(positions)
    /\ \A j \in positions : answers[Cardinality({i \in positions : i <= j})] = messages[j].answer
    /\ \A p \in 1..Len(answers) : \E j \in positions : answers[p] = messages[j].answer

(* The stub lists what is recorded so far.                                 *)
MethodsFit(messages, methods, n) ==
    \A key : /\ key \in DOMAIN methods <=> AnswersUpTo(messages, key, n) # {}
             /\ Ranked(messages, AnswersFor(methods, key), AnswersUpTo(messages, key, n))

Fits(messages, acc, n) ==
    /\ acc = [pending |-> acc.pending, methods |-> acc.methods]
    /\ PendingFits(messages, acc.pending, n)
    /\ MethodsFit(messages, acc.methods, n)

IsMessages(messages) == Len(messages) \in Nat /\ DOMAIN messages = 1..Len(messages)

(* The kinds of messages exclude each other.                               *)
LEMMA RequestOrResponse ==
    ASSUME NEW m
    PROVE  ~(IsRequest(m) /\ IsResponse(m))
  BY DEF IsRequest, IsResponse

(* For requests and responses the id text decides.                         *)
LEMMA SameText ==
    ASSUME NEW messages, NEW i, NEW k,
           IsRequest(messages[i]) \/ IsResponse(messages[i]),
           IsRequest(messages[k]) \/ IsResponse(messages[k])
    PROVE  SameId(messages[i], messages[k]) <=> TextAt(messages, i) = TextAt(messages, k)
  BY DEF IsRequest, IsResponse, SameId, TextAt

(* Of two requests with one id text the later one is pending.              *)
LEMMA OneWaits ==
    ASSUME NEW messages, NEW n \in Nat, NEW i, NEW k,
           Waiting(messages, n, i), Waiting(messages, n, k),
           TextAt(messages, i) = TextAt(messages, k)
    PROVE  i = k
  <1>1. i \in 1..n /\ k \in 1..n /\ IsRequest(messages[i]) /\ IsRequest(messages[k])
    BY DEF Waiting
  <1>2. SameId(messages[i], messages[k]) /\ SameId(messages[k], messages[i])
    BY <1>1, SameText
  <1>3. ~(i < k)
    BY <1>1, <1>2 DEF Waiting
  <1>4. ~(k < i)
    BY <1>1, <1>2 DEF Waiting
  <1> QED
    BY <1>1, <1>3, <1>4

(* One message more.                                                       *)
LEMMA WaitingStep ==
    ASSUME NEW messages, NEW n \in Nat, NEW i \in 1..(n + 1)
    PROVE  Waiting(messages, n + 1, i) <=>
              IF i = n + 1 THEN IsRequest(messages[i])
              ELSE /\ Waiting(messages, n, i)
                   /\ (IsRequest(messages[n + 1]) \/ IsResponse(messages[n + 1])) =>
                         ~SameId(messages[n + 1], messages[i])
  <1>1. CASE i = n + 1
    BY <1>1 DEF Waiting
  <1>2. CASE i # n + 1
    <2>1. i \in 1..n /\ n + 1 \in (i + 1)..(n + 1)
      BY <1>2
    <2>2. (i + 1)..(n + 1) = (i + 1)..n \cup {n + 1}
      BY <2>1
    <2> QED
      BY <1>2, <2>1, <2>2 DEF Waiting
  <1> QED
    BY <1>1, <1>2

(* A response answers the pending request with its id text.                *)
LEMMA AnswersWaiting ==
    ASSUME NEW messages, NEW n \in Nat, NEW i
    PROVE  i \in 1..n =>
             (Answers(messages, i, n + 1) <=>
                 /\ Waiting(messages, n, i) /\ IsResponse(messages[n + 1])
                 /\ TextAt(messages, i) = TextAt(messages, n + 1))
  <1> SUFFICES ASSUME i \in 1..n
               PROVE  Answers(messages, i, n + 1) <=>
                         /\ Waiting(messages, n, i) /\ IsResponse(messages[n + 1])
                         /\ TextAt(messages, i) = TextAt(messages, n + 1)
    OBVIOUS
  <1>1. i < n + 1 /\ (n + 1) - 1 = n
    OBVIOUS
  <1>2. ASSUME IsRequest(messages[i]), IsResponse(messages[n + 1])
        PROVE  SameId(messages[i], messages[n + 1]) <=>
                  TextAt(messages, i) = TextAt(messages, n + 1)
    BY <1>2, SameText
  <1>3. ASSUME IsRequest(messages[i]), IsResponse(messages[n + 1]),
               TextAt(messages, i) = TextAt(messages, n + 1), NEW k
        PROVE  (IsRequest(messages[k]) \/ IsResponse(messages[k])) =>
                  (SameId(messages[k], messages[n + 1]) <=> SameId(messages[k], messages[i]))
    <2> SUFFICES ASSUME IsRequest(messages[k]) \/ IsResponse(messages[k])
                 PROVE  SameId(messages[k], messages[n + 1]) <=> SameId(messages[k], messages[i])
      OBVIOUS
    <2>1. SameId(messages[k], messages[n + 1]) <=> TextAt(messages, k) = TextAt(messages, n + 1)
      BY <1>3, SameText
    <2>2. SameId(messages[k], messages[i]) <=> TextAt(messages, k) = TextAt(messages, i)
      BY <1>3, SameText
    <2> QED
      BY <1>3, <2>1, <2>2
  <1> QED
    BY <1>1, <1>2, <1>3 DEF Answers, Waiting

(* Another message adds an answer for a key, or nothing.                   *)
LEMMA AnswersStep ==
    ASSUME NEW messages, IsMessages(messages), NEW n \in Nat, n + 1 \in DOMAIN messages, NEW key
    PROVE  AnswersUpTo(messages, key, n + 1) =
             AnswersUpTo(messages, key, n) \cup
                (IF \E i \in 1..n : Answers(messages, i, n + 1) /\ Key(messages[i]) = key
                   THEN {n + 1} ELSE {})
  <1>1. DOMAIN messages = 1..Len(messages) /\ Len(messages) \in Nat /\ n + 1 <= Len(messages)
    BY DEF IsMessages
  <1>2. AnswersUpTo(messages, key, n) \subseteq 1..n
    BY <1>1 DEF AnswersUpTo, AnswerPositions
  <1>3. \A j \in DOMAIN messages : j <= n + 1 <=> j <= n \/ j = n + 1
    BY <1>1
  <1>4. n + 1 \in AnswerPositions(messages, key) <=>
           \E i \in 1..n : Answers(messages, i, n + 1) /\ Key(messages[i]) = key
    <2>1. \A i \in DOMAIN messages : Answers(messages, i, n + 1) => i \in 1..n
      BY <1>1 DEF Answers
    <2>2. 1..n \subseteq DOMAIN messages
      BY <1>1
    <2> QED
      BY <2>1, <2>2 DEF AnswerPositions
  <1>5. AnswerPositions(messages, key) \subseteq DOMAIN messages
    BY DEF AnswerPositions
  <1> QED
    BY <1>3, <1>4, <1>5 DEF AnswersUpTo

(* Positions can be counted.                                               *)
LEMMA PositionsFinite ==
    ASSUME NEW messages, IsMessages(messages), NEW n \in Nat, NEW key
    PROVE  /\ AnswersUpTo(messages, key, n) \subseteq 1..n
           /\ AnswersUpTo(messages, key, n) \subseteq DOMAIN messages
           /\ IsFiniteSet(AnswersUpTo(messages, key, n))
           /\ Cardinality(AnswersUpTo(messages, key, n)) \in Nat
  <1>1. AnswersUpTo(messages, key, n) \subseteq 1..n
    BY DEF AnswersUpTo, AnswerPositions, IsMessages
  <1>2. IsFiniteSet(1..n)
    BY FS_Interval
  <1>3. IsFiniteSet(AnswersUpTo(messages, key, n))
    BY <1>1, <1>2, FS_Subset
  <1> QED
    BY <1>1, <1>3, FS_CardinalityType DEF AnswersUpTo, AnswerPositions

(* An answer more, at a position behind the others.                        *)
LEMMA RankedAppend ==
    ASSUME NEW messages, NEW n \in Nat, NEW P, P \subseteq 1..n, n + 1 \in DOMAIN messages,
           NEW answers, Ranked(messages, answers, P)
    PROVE  Ranked(messages, Append(answers, messages[n + 1].answer), P \cup {n + 1})
  <1> DEFINE Q == P \cup {n + 1}
             a == Append(answers, messages[n + 1].answer)
             c == Cardinality(P)
  <1>1. IsFiniteSet(P) /\ c \in Nat
    <2>1. IsFiniteSet(1..n)
      BY FS_Interval
    <2>2. IsFiniteSet(P)
      BY <2>1, FS_Subset
    <2> QED
      BY <2>2, FS_CardinalityType
  <1>2. n + 1 \notin P
    OBVIOUS
  <1>3. Cardinality(Q) = c + 1
    BY <1>1, <1>2, FS_AddElement
  <1>4. answers \in Seq(AnswersOf(messages)) /\ Len(answers) = c
    BY DEF Ranked
  <1>5. messages[n + 1].answer \in AnswersOf(messages)
    BY DEF AnswersOf
  <1>6. /\ a \in Seq(AnswersOf(messages)) /\ Len(a) = c + 1
        /\ \A p \in 1..c : a[p] = answers[p]
        /\ a[c + 1] = messages[n + 1].answer
    <2> HIDE DEF c
    <2> QED
      BY <1>1, <1>4, <1>5
  <1>7. ASSUME NEW j \in P
        PROVE  a[Cardinality({i \in Q : i <= j})] = messages[j].answer
    <2>1. {i \in Q : i <= j} = {i \in P : i <= j}
      OBVIOUS
    <2> DEFINE B == {i \in P : i <= j}
    <2>2. j \in B /\ B \subseteq P
      OBVIOUS
    <2>3. IsFiniteSet(B) /\ Cardinality(B) \in Nat /\ Cardinality(B) <= c
      <3> HIDE DEF B
      <3> QED
        BY <1>1, <2>2, FS_Subset, FS_CardinalityType
    <2>4. Cardinality(B) # 0
      <3> HIDE DEF B
      <3> QED
        BY <2>2, <2>3, FS_EmptySet
    <2>5. answers[Cardinality(B)] = messages[j].answer
      BY DEF Ranked
    <2>6. Cardinality(B) \in 1..c
      <3> HIDE DEF B, c
      <3> QED
        BY <1>1, <2>3, <2>4
    <2> HIDE DEF a, B, c, Q
    <2> QED
      BY <1>6, <2>1, <2>5, <2>6 DEF B
  <1>8. a[Cardinality({i \in Q : i <= n + 1})] = messages[n + 1].answer
    <2>1. {i \in Q : i <= n + 1} = Q
      <3>1. \A i \in Q : i <= n + 1
        OBVIOUS
      <3> HIDE DEF Q
      <3> QED
        BY <3>1
    <2> HIDE DEF Q, a, c
    <2> QED
      BY <1>3, <1>6, <2>1
  <1>9. \A p \in 1..Len(a) : \E j \in Q : a[p] = messages[j].answer
    <2> SUFFICES ASSUME NEW p \in 1..(c + 1)
                 PROVE  \E j \in Q : a[p] = messages[j].answer
      <3> HIDE DEF a, c
      <3> QED
        BY <1>6
    <2>1. CASE p = c + 1
      <3> HIDE DEF a, c
      <3> QED
        BY <1>6, <2>1
    <2>2. CASE p # c + 1
      <3>1. p \in 1..c
        <4> HIDE DEF c
        <4> QED
          BY <1>1, <2>2
      <3>2. \E j \in P : answers[p] = messages[j].answer
        BY <1>4, <3>1 DEF Ranked
      <3> HIDE DEF a, c
      <3> QED
        BY <1>6, <3>1, <3>2
    <2> QED
      BY <2>1, <2>2
  <1>10. \A j \in Q : a[Cardinality({i \in Q : i <= j})] = messages[j].answer
    <2> HIDE DEF a
    <2> QED
      BY <1>7, <1>8
  <1> HIDE DEF a, c, Q
  <1>11. Ranked(messages, a, Q)
    BY <1>3, <1>6, <1>9, <1>10 DEF Ranked
  <1> QED
    BY <1>11 DEF a, Q

(* The loop keeps the pending requests and the answers of the pairing.     *)
LEMMA FitsStep ==
    ASSUME NEW messages, IsMessages(messages), NEW n \in Nat, n + 1 \in DOMAIN messages,
           NEW acc, Fits(messages, acc, n)
    PROVE  Fits(messages, StubStep(acc, messages[n + 1]), n + 1)
  <1> DEFINE m == messages[n + 1]
             text == TextAt(messages, n + 1)
             next == StubStep(acc, m)
             Answered(key) == \E i \in 1..n : Answers(messages, i, n + 1) /\ Key(messages[i]) = key
  <1>1. /\ acc = [pending |-> acc.pending, methods |-> acc.methods]
        /\ PendingFits(messages, acc.pending, n) /\ MethodsFit(messages, acc.methods, n)
    BY DEF Fits
  <1>2. text = IdText(m.id)
    BY DEF TextAt
  <1>3. \A key : AnswersUpTo(messages, key, n + 1) =
                    AnswersUpTo(messages, key, n) \cup (IF Answered(key) THEN {n + 1} ELSE {})
    BY AnswersStep
  <1>4. ASSUME IsRequest(m) \/ IsResponse(m), NEW i \in 1..n, Waiting(messages, n, i)
        PROVE  SameId(m, messages[i]) <=> text = TextAt(messages, i)
    <2>1. IsRequest(messages[i])
      BY <1>4 DEF Waiting
    <2> QED
      BY <1>4, <2>1, SameText
  <1>5. ASSUME ~(IsResponse(m) /\ text \in DOMAIN acc.pending), NEW key
        PROVE  ~Answered(key)
    <2> SUFFICES ASSUME NEW i \in 1..n, Answers(messages, i, n + 1)
                 PROVE  FALSE
      OBVIOUS
    <2>1. Waiting(messages, n, i) /\ IsResponse(m) /\ TextAt(messages, i) = text
      BY AnswersWaiting
    <2> QED
      BY <1>1, <1>5, <2>1 DEF PendingFits
  <1>6. ASSUME NEW methods, methods = acc.methods, \A key : ~Answered(key)
        PROVE  MethodsFit(messages, methods, n + 1)
    <2>1. \A key : AnswersUpTo(messages, key, n + 1) = AnswersUpTo(messages, key, n)
      BY <1>3, <1>6
    <2> QED
      BY <1>1, <1>6, <2>1 DEF MethodsFit
  <1>7. CASE IsRequest(m)
    <2> DEFINE pending == Await(acc.pending, text, Key(m))
    <2>1. next = [pending |-> pending, methods |-> acc.methods]
      <3>1. next = [acc EXCEPT !.pending = Await(@, text, Key(m))]
        BY <1>2, <1>7, RequestOrResponse DEF StubStep
      <3> HIDE DEF next
      <3> QED
        BY <1>1, <3>1
    <2>2. MethodsFit(messages, acc.methods, n + 1)
      BY <1>5, <1>6, <1>7, RequestOrResponse
    <2>3. /\ DOMAIN pending = DOMAIN acc.pending \cup {text}
          /\ \A t \in DOMAIN pending : pending[t] = IF t = text THEN Key(m) ELSE acc.pending[t]
      BY DEF Await
    <2>4. \A i \in 1..(n + 1) : Waiting(messages, n + 1, i) <=>
             i = n + 1 \/ (i \in 1..n /\ Waiting(messages, n, i) /\ TextAt(messages, i) # text)
      <3> SUFFICES ASSUME NEW i \in 1..(n + 1)
                   PROVE  Waiting(messages, n + 1, i) <=>
                            i = n + 1 \/ (i \in 1..n /\ Waiting(messages, n, i) /\ TextAt(messages, i) # text)
        OBVIOUS
      <3>1. Waiting(messages, n + 1, i) <=>
              IF i = n + 1 THEN IsRequest(messages[i])
              ELSE /\ Waiting(messages, n, i)
                   /\ (IsRequest(m) \/ IsResponse(m)) => ~SameId(m, messages[i])
        BY WaitingStep
      <3>2. i = n + 1 \/ i \in 1..n
        OBVIOUS
      <3> HIDE DEF text
      <3> QED
        BY <1>4, <1>7, <3>1, <3>2
    <2>5. PendingFits(messages, pending, n + 1)
      <3> HIDE DEF pending
      <3>1. ASSUME NEW i \in 1..(n + 1), Waiting(messages, n + 1, i)
            PROVE  TextAt(messages, i) \in DOMAIN pending
                   /\ pending[TextAt(messages, i)] = Key(messages[i])
        BY <1>1, <2>3, <2>4, <3>1 DEF PendingFits
      <3>2. ASSUME NEW t \in DOMAIN pending
            PROVE  \E i \in 1..(n + 1) : Waiting(messages, n + 1, i) /\ TextAt(messages, i) = t
        <4>1. CASE t = text
          BY <2>4, <4>1
        <4>2. CASE t # text
          BY <1>1, <2>3, <2>4, <4>2 DEF PendingFits
        <4> QED
          BY <4>1, <4>2
      <3> QED
        BY <3>1, <3>2 DEF PendingFits
    <2> HIDE DEF next, pending
    <2>6. Fits(messages, next, n + 1)
      BY <2>1, <2>2, <2>5 DEF Fits
    <2> QED
      BY <2>6 DEF next
  <1>8. CASE IsResponse(m) /\ text \in DOMAIN acc.pending
    <2> DEFINE key0 == acc.pending[text]
               pending == Restrict(acc.pending, DOMAIN acc.pending \ {text})
               methods == AddAnswer(acc.methods, key0, m.answer)
    <2>1. next = [pending |-> pending, methods |-> methods]
      BY <1>2, <1>8, RequestOrResponse DEF StubStep
    <2>2. PICK i \in 1..n : Waiting(messages, n, i) /\ TextAt(messages, i) = text
      BY <1>1, <1>8 DEF PendingFits
    <2>3. key0 = Key(messages[i])
      BY <1>1, <2>2 DEF PendingFits
    <2>4. ASSUME NEW key
          PROVE  Answered(key) <=> key = key0
      <3>1. Answers(messages, i, n + 1)
        BY <1>8, <2>2, AnswersWaiting
      <3>2. ASSUME NEW k \in 1..n, Answers(messages, k, n + 1)
            PROVE  k = i
        <4>1. Waiting(messages, n, k) /\ TextAt(messages, k) = text
          BY <3>2, AnswersWaiting
        <4> QED
          BY <2>2, <4>1, OneWaits
      <3> HIDE DEF key0
      <3> QED
        BY <2>3, <3>1, <3>2
    <2>5. MethodsFit(messages, methods, n + 1)
      <3>1. /\ DOMAIN methods = DOMAIN acc.methods \cup {key0}
            /\ \A k \in DOMAIN methods :
                  methods[k] = IF k = key0 THEN Append(AnswersFor(acc.methods, key0), m.answer)
                               ELSE acc.methods[k]
        BY DEF AddAnswer
      <3> HIDE DEF methods, key0
      <3> SUFFICES ASSUME NEW key
                   PROVE  /\ key \in DOMAIN methods <=> AnswersUpTo(messages, key, n + 1) # {}
                          /\ Ranked(messages, AnswersFor(methods, key), AnswersUpTo(messages, key, n + 1))
        BY DEF MethodsFit
      <3>2. /\ key \in DOMAIN acc.methods <=> AnswersUpTo(messages, key, n) # {}
            /\ Ranked(messages, AnswersFor(acc.methods, key), AnswersUpTo(messages, key, n))
        BY <1>1 DEF MethodsFit
      <3>3. CASE key = key0
        <4>1. AnswersUpTo(messages, key, n + 1) = AnswersUpTo(messages, key, n) \cup {n + 1}
          BY <1>3, <2>4, <3>3
        <4>2. AnswersFor(methods, key) = Append(AnswersFor(acc.methods, key), m.answer)
          BY <3>1, <3>3 DEF AnswersFor
        <4>3. AnswersUpTo(messages, key, n) \subseteq 1..n
          BY PositionsFinite
        <4>4. Ranked(messages, Append(AnswersFor(acc.methods, key), m.answer),
                     AnswersUpTo(messages, key, n) \cup {n + 1})
          BY <3>2, <4>3, RankedAppend
        <4> QED
          BY <3>1, <3>3, <4>1, <4>2, <4>4
      <3>4. CASE key # key0
        <4>1. AnswersUpTo(messages, key, n + 1) = AnswersUpTo(messages, key, n)
          BY <1>3, <2>4, <3>4
        <4>2. AnswersFor(methods, key) = AnswersFor(acc.methods, key)
          BY <3>1, <3>4 DEF AnswersFor
        <4> QED
          BY <3>1, <3>2, <3>4, <4>1, <4>2
      <3> QED
        BY <3>3, <3>4
    <2>6. \A k \in 1..(n + 1) : Waiting(messages, n + 1, k) <=>
             k \in 1..n /\ Waiting(messages, n, k) /\ TextAt(messages, k) # text
      <3> SUFFICES ASSUME NEW k \in 1..(n + 1)
                   PROVE  Waiting(messages, n + 1, k) <=>
                            k \in 1..n /\ Waiting(messages, n, k) /\ TextAt(messages, k) # text
        OBVIOUS
      <3>1. Waiting(messages, n + 1, k) <=>
              IF k = n + 1 THEN IsRequest(messages[k])
              ELSE /\ Waiting(messages, n, k)
                   /\ (IsRequest(m) \/ IsResponse(m)) => ~SameId(m, messages[k])
        BY WaitingStep
      <3>2. k = n + 1 \/ (k \in 1..n /\ k # n + 1)
        OBVIOUS
      <3>3. ~IsRequest(m)
        BY <1>8, RequestOrResponse
      <3>4. (n + 1) \notin 1..n
        OBVIOUS
      <3> HIDE DEF text
      <3> QED
        BY <1>4, <1>8, <3>1, <3>2, <3>3, <3>4
    <2>7. PendingFits(messages, pending, n + 1)
      <3>1. /\ DOMAIN pending = DOMAIN acc.pending \ {text}
            /\ \A t \in DOMAIN pending : pending[t] = acc.pending[t]
        BY DEF Restrict
      <3> HIDE DEF pending
      <3>2. ASSUME NEW k \in 1..(n + 1), Waiting(messages, n + 1, k)
            PROVE  TextAt(messages, k) \in DOMAIN pending
                   /\ pending[TextAt(messages, k)] = Key(messages[k])
        BY <1>1, <2>6, <3>1, <3>2 DEF PendingFits
      <3>3. ASSUME NEW t \in DOMAIN pending
            PROVE  \E k \in 1..(n + 1) : Waiting(messages, n + 1, k) /\ TextAt(messages, k) = t
        <4>1. t \in DOMAIN acc.pending /\ t # text
          BY <3>1
        <4>2. PICK k \in 1..n : Waiting(messages, n, k) /\ TextAt(messages, k) = t
          BY <1>1, <4>1 DEF PendingFits
        <4>3. k \in 1..(n + 1)
          OBVIOUS
        <4> QED
          BY <2>6, <4>1, <4>2, <4>3
      <3> QED
        BY <3>2, <3>3 DEF PendingFits
    <2> HIDE DEF next, pending, methods
    <2>8. Fits(messages, next, n + 1)
      BY <2>1, <2>5, <2>7 DEF Fits
    <2> QED
      BY <2>8 DEF next
  <1>9. CASE ~IsRequest(m) /\ ~(IsResponse(m) /\ text \in DOMAIN acc.pending)
    <2>1. next = acc
      BY <1>2, <1>9 DEF StubStep
    <2>2. MethodsFit(messages, acc.methods, n + 1)
      BY <1>5, <1>6, <1>9
    <2>3. \A k \in 1..(n + 1) : Waiting(messages, n + 1, k) <=> k \in 1..n /\ Waiting(messages, n, k)
      <3> SUFFICES ASSUME NEW k \in 1..(n + 1)
                   PROVE  Waiting(messages, n + 1, k) <=> k \in 1..n /\ Waiting(messages, n, k)
        OBVIOUS
      <3>1. Waiting(messages, n + 1, k) <=>
              IF k = n + 1 THEN IsRequest(messages[k])
              ELSE /\ Waiting(messages, n, k)
                   /\ (IsRequest(m) \/ IsResponse(m)) => ~SameId(m, messages[k])
        BY WaitingStep
      <3>2. k = n + 1 \/ (k \in 1..n /\ k # n + 1)
        OBVIOUS
      <3>3. ASSUME IsResponse(m), k \in 1..n, Waiting(messages, n, k)
            PROVE  text # TextAt(messages, k)
        BY <1>1, <1>9, <3>3 DEF PendingFits
      <3>4. (n + 1) \notin 1..n
        OBVIOUS
      <3> HIDE DEF text
      <3> QED
        BY <1>4, <1>9, <3>1, <3>2, <3>3, <3>4
    <2>4. PendingFits(messages, acc.pending, n + 1)
      <3>1. \A k \in 1..n : k \in 1..(n + 1)
        OBVIOUS
      <3> QED
        BY <1>1, <2>3, <3>1 DEF PendingFits
    <2> HIDE DEF next
    <2>5. Fits(messages, next, n + 1)
      BY <1>1, <2>1, <2>2, <2>4 DEF Fits
    <2> QED
      BY <2>5 DEF next
  <1> QED
    BY <1>7, <1>8, <1>9

(* generate_stub computes the pairing of any sequence of messages.         *)
LEMMA GeneratedFits ==
    ASSUME NEW messages, IsMessages(messages)
    PROVE  MethodsFit(messages, GenerateStub(messages), Len(messages))
  <1> DEFINE after == StubAfter(messages)
             S == {n \in Nat : n <= Len(messages) => Fits(messages, after[n], n)}
  <1>1. /\ Len(messages) \in Nat /\ DOMAIN messages = 1..Len(messages)
        /\ after[0] = [pending |-> <<>>, methods |-> EmptyStub]
        /\ \A n \in 1..Len(messages) : after[n] = StubStep(after[n - 1], messages[n])
    BY LoopSteps DEF IsMessages
  <1>2. Fits(messages, after[0], 0)
    <2>1. PendingFits(messages, <<>>, 0)
      BY DEF PendingFits, Waiting
    <2>2. ASSUME NEW key
          PROVE  AnswersUpTo(messages, key, 0) = {}
      BY PositionsFinite
    <2>3. Ranked(messages, <<>>, {})
      <3>1. Cardinality({}) = 0
        BY FS_EmptySet
      <3> QED
        BY <3>1 DEF Ranked
    <2>4. \A key : AnswersFor(<<>>, key) = <<>> /\ key \notin DOMAIN <<>>
      BY DEF AnswersFor
    <2>5. MethodsFit(messages, <<>>, 0)
      BY <2>2, <2>3, <2>4 DEF MethodsFit
    <2> HIDE DEF after
    <2> QED
      BY <1>1, <2>1, <2>5 DEF Fits, EmptyStub
  <1>3. ASSUME NEW n \in Nat, n \in S
        PROVE  n + 1 \in S
    <2> SUFFICES ASSUME n + 1 <= Len(messages)
                 PROVE  Fits(messages, after[n + 1], n + 1)
      OBVIOUS
    <2>1. n <= Len(messages) /\ n + 1 \in 1..Len(messages) /\ (n + 1) - 1 = n
      BY <1>1
    <2>2. Fits(messages, after[n], n)
      BY <1>3, <2>1
    <2> HIDE DEF after
    <2>3. after[n + 1] = StubStep(after[n], messages[n + 1])
      BY <1>1, <2>1
    <2> QED
      BY <1>1, <2>1, <2>2, <2>3, FitsStep
  <1>4. Len(messages) \in S
    <2>1. 0 \in S
      BY <1>2
    <2> HIDE DEF S
    <2> QED
      BY <1>1, <1>3, <2>1, NatSetInduction
  <1>5. Fits(messages, after[Len(messages)], Len(messages))
    <2> HIDE DEF after
    <2> QED
      BY <1>1, <1>4
  <1> QED
    BY <1>5 DEF Fits, GenerateStub

(* generate_stub lists for each key the answers of its answered requests,  *)
(* in the order of the responses, and has no entry for a key without one,  *)
(* whatever the transcript (mcp/stubgen.py, generate_stub).                *)
THEOREM GeneratedPairs ==
    ASSUME NEW messages, IsMessages(messages)
    PROVE  IsPairing(GenerateStub(messages), messages)
  <1>1. ASSUME NEW key
        PROVE  AnswersUpTo(messages, key, Len(messages)) = AnswerPositions(messages, key)
    BY DEF AnswersUpTo, AnswerPositions, IsMessages
  <1> DEFINE methods == GenerateStub(messages)
  <1>2. MethodsFit(messages, methods, Len(messages))
    BY GeneratedFits
  <1> HIDE DEF methods
  <1>3. ASSUME NEW key
        PROVE  LET positions == AnswerPositions(messages, key)
                   answers == AnswersFor(methods, key)
               IN  /\ key \in DOMAIN methods <=> positions # {}
                   /\ Len(answers) = Cardinality(positions)
                   /\ \A j \in positions :
                         answers[Cardinality({i \in positions : i <= j})] = messages[j].answer
    BY <1>1, <1>2 DEF MethodsFit, Ranked
  <1>4. IsPairing(methods, messages)
    BY <1>3 DEF IsPairing
  <1> QED
    BY <1>4 DEF methods

-------------------------------------------------------------------------------
(* Sets of positions.                                                      *)
Rank(S, x) == Cardinality({y \in S : y <= x})

(* Ranks are numbers, and those of two positions of the set are in their   *)
(* order.                                                                  *)
LEMMA RankFacts ==
    ASSUME NEW n \in Nat, NEW S, S \subseteq 1..n, NEW x
    PROVE  /\ IsFiniteSet(S) /\ Cardinality(S) \in Nat
           /\ IsFiniteSet({y \in S : y <= x}) /\ Rank(S, x) \in Nat /\ Rank(S, x) <= Cardinality(S)
           /\ x \in S => Rank(S, x) \in 1..Cardinality(S)
  <1> DEFINE B == {y \in S : y <= x}
  <1>1. IsFiniteSet(S) /\ Cardinality(S) \in Nat
    <2>1. IsFiniteSet(1..n)
      BY FS_Interval
    <2>2. IsFiniteSet(S)
      BY <2>1, FS_Subset
    <2> QED
      BY <2>2, FS_CardinalityType
  <1>2. B \subseteq S /\ (x \in S => x \in B)
    <2>1. B \subseteq S
      OBVIOUS
    <2>2. \A y \in S : y <= y
      OBVIOUS
    <2> QED
      BY <2>1, <2>2
  <1> HIDE DEF B
  <1>3. IsFiniteSet(B) /\ Cardinality(B) \in Nat /\ Cardinality(B) <= Cardinality(S)
    BY <1>1, <1>2, FS_Subset, FS_CardinalityType
  <1>4. x \in S => Cardinality(B) # 0
    BY <1>2, <1>3, FS_EmptySet
  <1> QED
    BY <1>1, <1>3, <1>4 DEF B, Rank

LEMMA RankGrows ==
    ASSUME NEW n \in Nat, NEW S, S \subseteq 1..n, NEW x \in Nat, NEW y \in S, x < y
    PROVE  Rank(S, x) < Rank(S, y)
  <1> DEFINE B(z) == {w \in S : w <= z}
  <1>1. B(x) \subseteq B(y) /\ y \in B(y) /\ y \notin B(x)
    <2>1. y <= y /\ ~(y <= x) /\ \A w \in S : w <= x => w <= y
      OBVIOUS
    <2> QED
      BY <2>1
  <1>2. /\ IsFiniteSet(B(y)) /\ Cardinality(B(x)) \in Nat /\ Cardinality(B(y)) \in Nat
        /\ Cardinality(B(x)) = Rank(S, x) /\ Cardinality(B(y)) = Rank(S, y)
    BY RankFacts DEF Rank
  <1> HIDE DEF B
  <1>3. Cardinality(B(x)) <= Cardinality(B(y)) /\ Cardinality(B(x)) # Cardinality(B(y))
    BY <1>1, <1>2, FS_Subset
  <1> QED
    BY <1>2, <1>3

(* Another position behind the others.                                     *)
LEMMA RankStep ==
    ASSUME NEW n \in Nat, NEW S, S \subseteq 1..n
    PROVE  /\ Cardinality(S \cup {n + 1}) = Cardinality(S) + 1
           /\ Rank(S \cup {n + 1}, n + 1) = Cardinality(S) + 1
           /\ \A x \in S : Rank(S \cup {n + 1}, x) = Rank(S, x)
  <1> DEFINE Q == S \cup {n + 1}
  <1>1. n + 1 \notin S /\ IsFiniteSet(S)
    <2>1. n + 1 \notin 1..n
      OBVIOUS
    <2>2. IsFiniteSet(S)
      BY RankFacts
    <2> QED
      BY <2>1, <2>2
  <1>2. Cardinality(Q) = Cardinality(S) + 1
    BY <1>1, FS_AddElement
  <1>3. {y \in Q : y <= n + 1} = Q
    <2>1. \A y \in Q : y <= n + 1
      OBVIOUS
    <2> HIDE DEF Q
    <2> QED
      BY <2>1
  <1>4. \A x \in S : {y \in Q : y <= x} = {y \in S : y <= x}
    OBVIOUS
  <1> HIDE DEF Q
  <1>5. /\ Cardinality(Q) = Cardinality(S) + 1
        /\ Rank(Q, n + 1) = Cardinality(S) + 1
        /\ \A x \in S : Rank(Q, x) = Rank(S, x)
    BY <1>2, <1>3, <1>4 DEF Rank
  <1> QED
    BY <1>5 DEF Q

(* The n-th of a set of positions is there, and is the one of rank n.      *)
LEMMA NthFacts ==
    ASSUME NEW k \in Nat, NEW S, S \subseteq 1..k, NEW n \in 1..Cardinality(S)
    PROVE  Nth(S, n) \in S /\ Rank(S, Nth(S, n)) = n
  <1> DEFINE N == 1..Cardinality(S)
             f == [x \in S |-> Rank(S, x)]
  <1>1. IsFiniteSet(S) /\ Cardinality(S) \in Nat
    BY RankFacts
  <1>2. f \in [S -> N]
    BY RankFacts
  <1>3. f \in Injection(S, N)
    <2>1. ASSUME NEW x \in S, NEW y \in S, x # y PROVE f[x] # f[y]
      <3>1. (x < y \/ y < x) /\ x \in Nat /\ y \in Nat
        BY <2>1
      <3>2. Rank(S, x) \in Nat /\ Rank(S, y) \in Nat
        BY RankFacts
      <3>3. Rank(S, x) < Rank(S, y) \/ Rank(S, y) < Rank(S, x)
        BY <3>1, RankGrows
      <3>4. Rank(S, x) # Rank(S, y)
        <4> HIDE DEF f
        <4> QED
          BY <3>2, <3>3
      <3> QED
        BY <3>4
    <2> HIDE DEF f, N
    <2> QED
      BY <1>2, <2>1 DEF Injection, IsInjective
  <1>4. f \in Surjection(S, N)
    <2>1. IsFiniteSet(N) /\ Cardinality(N) = Cardinality(S)
      BY <1>1, FS_Interval
    <2> HIDE DEF f, N
    <2> QED
      BY <1>3, <2>1, FS_Injection
  <1>5. \E x \in S : Rank(S, x) = n
    BY <1>4 DEF Surjection
  <1> QED
    BY <1>5 DEF Nth, Rank
===============================================================================
