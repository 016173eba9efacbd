-------------------------- MODULE SessionLog_proofs --------------------------
(***************************************************************************)
(* The theorems of TurnLog and of Watch, for any log, any interleaving of  *)
(* sessions, any limit and any bound.                                      *)
(*                                                                         *)
(* The first half proves what build_turns and iter_events make of a log:   *)
(* TurnsFit is the invariant of the loop over its rows, shown by induction *)
(* over their number, and FlattenPlaces says where each event comes from.  *)
(* The second half proves the watcher with what the ingestors do: events   *)
(* are made of rows of the log, and without turns they only grow at the    *)
(* end.                                                                    *)
(***************************************************************************)
EXTENDS Watch, TurnLog, StubGen_proofs

-------------------------------------------------------------------------------
(* The loop of build_turns.                                                *)

(* A row of a log: its content, its type and its session.                  *)
LogRow == [id : Nat, type : RowTypes, key : RowKeys]

(* The loop is well defined, ...                                           *)
LEMMA TurnSteps ==
    ASSUME NEW rows, Len(rows) \in Nat
    PROVE  LET after == TurnsAfter(rows)
           IN  /\ after[0] = NoTurns
               /\ \A n \in 1..Len(rows) : after[n] = TurnStep(after[n - 1], rows, n)
  <1> DEFINE Loop(f, k) == f = [n \in 0..k |-> IF n = 0 THEN NoTurns ELSE TurnStep(f[n - 1], rows, n)]
             S == {k \in Nat : \E f : Loop(f, k)}
  <1>1. 0 \in S
    <2>1. Loop([n \in 0..0 |-> NoTurns], 0)
      OBVIOUS
    <2> QED
      BY <2>1
  <1>2. ASSUME NEW k \in Nat, k \in S
        PROVE  k + 1 \in S
    <2>1. PICK f : Loop(f, k)
      BY <1>2
    <2> DEFINE g == [n \in 0..(k + 1) |-> IF n = k + 1 THEN TurnStep(f[k], rows, n) ELSE f[n]]
    <2>2. \A n \in 0..k : f[n] = IF n = 0 THEN NoTurns ELSE TurnStep(f[n - 1], rows, n)
      BY <2>1
    <2>3. \A n \in 0..(k + 1) : g[n] = IF n = 0 THEN NoTurns ELSE TurnStep(g[n - 1], rows, n)
      <3>1. ASSUME NEW n \in 0..k
            PROVE  g[n] = f[n] /\ (n # 0 => n - 1 \in 0..k /\ g[n - 1] = f[n - 1])
        OBVIOUS
      <3>2. g[k + 1] = TurnStep(g[k], rows, k + 1)
        BY <3>1
      <3> HIDE DEF g
      <3>3. ASSUME NEW n \in 0..(k + 1), n # k + 1
            PROVE  n \in 0..k
        BY <3>3
      <3> QED
        BY <2>2, <3>1, <3>2, <3>3
    <2>4. Loop(g, k + 1)
      BY <2>3
    <2>5. \E h : Loop(h, k + 1)
      <3> HIDE DEF Loop, g
      <3> QED
        BY <2>4
    <2> HIDE DEF Loop
    <2> QED
      BY <2>5
  <1>3. Len(rows) \in S
    <2> HIDE DEF S
    <2> QED
      BY <1>1, <1>2, NatSetInduction
  <1>4. Loop(TurnsAfter(rows), Len(rows))
    BY <1>3 DEF TurnsAfter
  <1> QED
    BY <1>4

(* ... its step looks at one row only, ...                                 *)
LEMMA StepOfRow ==
    ASSUME NEW acc, NEW rows, NEW others, NEW n, rows[n] = others[n]
    PROVE  TurnStep(acc, rows, n) = TurnStep(acc, others, n)
  BY DEF TurnStep, OnRequest, OnToolCall, OnToolResult, OnResponse, TurnFor, Turn

(* ... so that a row more leaves what went before.                         *)
LEMMA TurnsSoFar ==
    ASSUME NEW rows \in Seq(LogRow), NEW row \in LogRow
    PROVE  \A n \in 0..Len(rows) : TurnsAfter(Append(rows, row))[n] = TurnsAfter(rows)[n]
  <1> DEFINE more == Append(rows, row)
             L == Len(rows)
             S == {n \in Nat : n \in 0..L => TurnsAfter(more)[n] = TurnsAfter(rows)[n]}
  <1>1. L \in Nat /\ Len(more) = L + 1 /\ Len(more) \in Nat /\ \A n \in 1..L : rows[n] = more[n]
    OBVIOUS
  <1> HIDE DEF more
  <1>2. TurnsAfter(more)[0] = NoTurns /\ TurnsAfter(rows)[0] = NoTurns
    BY <1>1, TurnSteps
  <1>3. \A n \in 1..L : TurnsAfter(rows)[n] = TurnStep(TurnsAfter(rows)[n - 1], rows, n)
    BY <1>1, TurnSteps
  <1>4. \A n \in 1..(L + 1) : TurnsAfter(more)[n] = TurnStep(TurnsAfter(more)[n - 1], more, n)
    BY <1>1, TurnSteps
  <1> HIDE DEF L
  <1>5. 0 \in S
    BY <1>2
  <1>6. ASSUME NEW n \in Nat, n \in S, n + 1 \in 0..L
        PROVE  TurnsAfter(more)[n + 1] = TurnsAfter(rows)[n + 1]
    <2>1. n + 1 \in 1..L /\ n + 1 \in 1..(L + 1) /\ (n + 1) - 1 = n /\ n \in 0..L
      BY <1>1, <1>6
    <2>2. TurnsAfter(more)[n] = TurnsAfter(rows)[n]
      BY <2>1, <1>6
    <2>3. TurnsAfter(more)[n + 1] = TurnStep(TurnsAfter(more)[n], more, n + 1)
      BY <2>1, <1>4
    <2>4. TurnsAfter(rows)[n + 1] = TurnStep(TurnsAfter(rows)[n], rows, n + 1)
      BY <2>1, <1>3
    <2>5. rows[n + 1] = more[n + 1]
      BY <2>1, <1>1
    <2> QED
      BY <2>2, <2>3, <2>4, <2>5, StepOfRow
  <1>7. Nat \subseteq S
    <2>1. \A n \in Nat : n \in S => n + 1 \in S
      BY <1>6
    <2> HIDE DEF S
    <2> QED
      BY <1>5, <2>1, NatSetInduction
  <1> QED
    BY <1>1, <1>7 DEF more, L

(* What the loop keeps, and what is true of it after each row.             *)
TurnRecord == [key : RowKeys, req : Nat, resp : Nat, uses : Seq(Nat), results : Seq(Nat)]

Turning ==
    [active : UNION {[keys -> TurnRecord] : keys \in SUBSET RowKeys},
     pending : [RowKeys -> Seq(Nat)], built : Seq(TurnRecord)]

(* The rows of a key that are for a turn not built yet.                    *)
Held(acc, key) ==
    IF key \in DOMAIN acc.active THEN MembersOf(acc.active[key]) ELSE ToSet(acc.pending[key])

Precede(S, T) == \A m \in S, n \in T : m < n

(* A turn has rows of its key, of which its response is the last.          *)
IsTurn(rows, n, turn) ==
    /\ \A m \in MembersOf(turn) : m \in 1..n /\ rows[m].key = turn.key /\ rows[m].type # "other"
    /\ turn.resp # Unanswered => \A m \in MembersOf(turn) : m <= turn.resp

(* An active turn has no response, and nothing is pending beside it; what  *)
(* is pending has no row after it that a turn could begin with.            *)
ShapeFits(rows, acc, n) ==
    /\ acc \in Turning
    /\ \A key \in DOMAIN acc.active :
          /\ acc.active[key].key = key /\ acc.active[key].resp = Unanswered
          /\ acc.pending[key] = <<>>
    /\ \A key \in RowKeys \ DOMAIN acc.active : \A m \in ToSet(acc.pending[key]), k \in 1..n :
          (k >= m /\ rows[k].key = key) => rows[k].type \in {"tool.result", "other"}

(* Of the first n rows each that belongs to a turn is in one built or is   *)
(* held; of the turns of a key, each comes after the ones before, and what *)
(* is held after all.                                                      *)
RowsFit(rows, acc, n) ==
    /\ \A key \in RowKeys : \A m \in Held(acc, key) :
          m \in 1..n /\ rows[m].key = key /\ rows[m].type # "other"
    /\ \A i \in DOMAIN acc.built : IsTurn(rows, n, acc.built[i])
    /\ \A i, j \in DOMAIN acc.built :
          (i < j /\ acc.built[i].key = acc.built[j].key) =>
             Precede(MembersOf(acc.built[i]), MembersOf(acc.built[j]))
    /\ \A i \in DOMAIN acc.built :
          Precede(MembersOf(acc.built[i]), Held(acc, acc.built[i].key))
    /\ \A m \in 1..n : rows[m].type # "other" =>
          (\E i \in DOMAIN acc.built : m \in MembersOf(acc.built[i])) \/ m \in Held(acc, rows[m].key)

TurnsFit(rows, acc, n) == ShapeFits(rows, acc, n) /\ RowsFit(rows, acc, n)

(* One entry more is one element more.                                     *)
LEMMA ToSetAppend ==
    ASSUME NEW T, NEW s \in Seq(T), NEW x \in T
    PROVE  ToSet(Append(s, x)) = ToSet(s) \cup {x}
  <1>1. DOMAIN s = 1..Len(s) /\ DOMAIN Append(s, x) = 1..(Len(s) + 1) /\ Len(s) \in Nat
    OBVIOUS
  <1>2. Append(s, x)[Len(s) + 1] = x /\ \A i \in 1..Len(s) : Append(s, x)[i] = s[i]
    OBVIOUS
  <1>3. 1..(Len(s) + 1) = 1..Len(s) \cup {Len(s) + 1}
    BY <1>1
  <1> QED
    BY <1>1, <1>2, <1>3 DEF ToSet

(* The rows of a log are rows, ...                                         *)
LEMMA RowType ==
    ASSUME NEW rows \in Seq(LogRow), NEW n \in 1..Len(rows)
    PROVE  rows[n] \in LogRow /\ rows[n].key \in RowKeys /\ rows[n].type \in RowTypes
  <1>1. rows[n] \in LogRow
    OBVIOUS
  <1> QED
    BY <1>1 DEF LogRow

(* ... and the turns built are turns.                                      *)
LEMMA BuiltType ==
    ASSUME NEW acc \in Turning
    PROVE  /\ acc.built \in Seq(TurnRecord) /\ Len(acc.built) \in Nat
           /\ DOMAIN acc.built = 1..Len(acc.built)
           /\ \A i \in 1..Len(acc.built) : acc.built[i] \in TurnRecord /\ acc.built[i].key \in RowKeys
  <1>1. acc.built \in Seq(TurnRecord)
    BY DEF Turning
  <1>2. \A i \in 1..Len(acc.built) : acc.built[i] \in TurnRecord
    BY <1>1
  <1>3. \A turn \in TurnRecord : turn.key \in RowKeys
    BY DEF TurnRecord
  <1> QED
    BY <1>1, <1>2, <1>3

(* A row joins what is held of its key.                                    *)
LEMMA GrowsFits ==
    ASSUME NEW rows \in Seq(LogRow), NEW n \in Nat, n + 1 \in 1..Len(rows),
           NEW acc \in Turning, NEW new \in Turning, NEW key, key = rows[n + 1].key,
           RowsFit(rows, acc, n), rows[n + 1].type # "other", new.built = acc.built,
           Held(new, key) = Held(acc, key) \cup {n + 1},
           \A k \in RowKeys \ {key} : Held(new, k) = Held(acc, k)
    PROVE  RowsFit(rows, new, n + 1)
  <1>1. key \in RowKeys /\ DOMAIN acc.built = 1..Len(acc.built) /\ 1..n \subseteq 1..(n + 1)
    BY RowType, BuiltType
  <1>2. \A i \in DOMAIN acc.built : acc.built[i].key \in RowKeys /\ IsTurn(rows, n, acc.built[i])
    BY <1>1, BuiltType DEF RowsFit
  <1>3. ASSUME NEW k \in RowKeys, NEW m \in Held(new, k)
        PROVE  m \in 1..(n + 1) /\ rows[m].key = k /\ rows[m].type # "other"
    <2>1. m \in Held(acc, k) \/ (k = key /\ m = n + 1)
      BY <1>3
    <2>2. m \in Held(acc, k) => m \in 1..n /\ rows[m].key = k /\ rows[m].type # "other"
      BY DEF RowsFit
    <2>3. n + 1 \in 1..(n + 1)
      OBVIOUS
    <2> QED
      BY <2>1, <2>2, <2>3, <1>1
  <1>4. ASSUME NEW i \in DOMAIN acc.built PROVE IsTurn(rows, n + 1, acc.built[i])
    BY <1>1, <1>2 DEF IsTurn
  <1>5. ASSUME NEW i \in DOMAIN acc.built
        PROVE  Precede(MembersOf(acc.built[i]), Held(new, acc.built[i].key))
    <2>1. Precede(MembersOf(acc.built[i]), Held(acc, acc.built[i].key))
      BY DEF RowsFit
    <2>2. \A m \in MembersOf(acc.built[i]) : m \in 1..n /\ m < n + 1
      BY <1>2 DEF IsTurn
    <2>3. \A m \in Held(new, acc.built[i].key) : m \in Held(acc, acc.built[i].key) \/ m = n + 1
      BY <1>2
    <2> QED
      BY <2>1, <2>2, <2>3 DEF Precede
  <1>6. ASSUME NEW m \in 1..(n + 1), rows[m].type # "other"
        PROVE  (\E i \in DOMAIN new.built : m \in MembersOf(new.built[i])) \/ m \in Held(new, rows[m].key)
    <2>1. CASE m = n + 1
      BY <2>1
    <2>2. CASE m \in 1..n
      <3>1. (\E i \in DOMAIN acc.built : m \in MembersOf(acc.built[i])) \/ m \in Held(acc, rows[m].key)
        BY <2>2, <1>6 DEF RowsFit
      <3>2. rows[m].key \in RowKeys
        <4>1. m \in 1..Len(rows)
          BY <2>2
        <4> QED
          BY <4>1, RowType
      <3>3. Held(acc, rows[m].key) \subseteq Held(new, rows[m].key)
        BY <3>2
      <3> QED
        BY <3>1, <3>3
    <2> QED
      BY <2>1, <2>2
  <1>7. \A i, j \in DOMAIN acc.built :
          (i < j /\ acc.built[i].key = acc.built[j].key) =>
             Precede(MembersOf(acc.built[i]), MembersOf(acc.built[j]))
    BY DEF RowsFit
  <1> QED
    BY <1>3, <1>4, <1>5, <1>6, <1>7 DEF RowsFit

(* A turn is built of what is held, with the row or in front of it.        *)
LEMMA BuildsFits ==
    ASSUME NEW rows \in Seq(LogRow), NEW n \in Nat, n + 1 \in 1..Len(rows),
           NEW acc \in Turning, NEW new \in Turning, NEW key, key = rows[n + 1].key,
           NEW turn \in TurnRecord,
           RowsFit(rows, acc, n), rows[n + 1].type # "other",
           new.built = Append(acc.built, turn), turn.key = key,
           turn.resp # Unanswered => turn.resp = n + 1,
           MembersOf(turn) \cup Held(new, key) = Held(acc, key) \cup {n + 1},
           Precede(MembersOf(turn), Held(new, key)),
           \A k \in RowKeys \ {key} : Held(new, k) = Held(acc, k)
    PROVE  RowsFit(rows, new, n + 1)
  <1> DEFINE L == Len(acc.built)
  <1>1. key \in RowKeys /\ DOMAIN acc.built = 1..L /\ L \in Nat /\ 1..n \subseteq 1..(n + 1)
    BY RowType, BuiltType
  <1>2. \A i \in 1..L : acc.built[i].key \in RowKeys /\ IsTurn(rows, n, acc.built[i])
    BY <1>1, BuiltType DEF RowsFit
  <1>3. /\ DOMAIN new.built = 1..(L + 1) /\ new.built[L + 1] = turn
        /\ \A i \in 1..L : new.built[i] = acc.built[i]
    BY DEF Turning
  <1> HIDE DEF L
  <1>4. \A i \in 1..(L + 1) : i \in 1..L \/ i = L + 1
    BY <1>1
  <1>5. \A m \in Held(acc, key) \cup {n + 1} :
           m \in 1..(n + 1) /\ rows[m].key = key /\ rows[m].type # "other"
    <2>1. \A m \in Held(acc, key) : m \in 1..n /\ rows[m].key = key /\ rows[m].type # "other"
      BY <1>1 DEF RowsFit
    <2>2. n + 1 \in 1..(n + 1)
      OBVIOUS
    <2> QED
      BY <2>1, <2>2, <1>1
  <1>6. ASSUME NEW k \in RowKeys, NEW m \in Held(new, k)
        PROVE  m \in 1..(n + 1) /\ rows[m].key = k /\ rows[m].type # "other"
    <2>1. CASE k = key
      BY <2>1, <1>5, <1>6
    <2>2. CASE k # key
      <3>1. m \in Held(acc, k)
        BY <2>2, <1>6
      <3> QED
        BY <3>1, <1>1 DEF RowsFit
    <2> QED
      BY <2>1, <2>2
  <1>7. ASSUME NEW i \in 1..(L + 1) PROVE IsTurn(rows, n + 1, new.built[i])
    <2>1. CASE i \in 1..L
      BY <2>1, <1>1, <1>2, <1>3 DEF IsTurn
    <2>2. CASE i = L + 1
      <3>1. \A m \in MembersOf(turn) : m \in 1..(n + 1) /\ rows[m].key = key /\ rows[m].type # "other"
        BY <1>5
      <3>2. \A m \in 1..(n + 1) : m <= n + 1
        OBVIOUS
      <3> QED
        BY <2>2, <3>1, <3>2, <1>3 DEF IsTurn
    <2> QED
      BY <2>1, <2>2, <1>4
  <1>8. ASSUME NEW i \in 1..L, acc.built[i].key = key
        PROVE  Precede(MembersOf(acc.built[i]), Held(acc, key) \cup {n + 1})
    <2>1. Precede(MembersOf(acc.built[i]), Held(acc, key))
      BY <1>1, <1>8 DEF RowsFit
    <2>2. \A m \in MembersOf(acc.built[i]) : m \in 1..n
      BY <1>2 DEF IsTurn
    <2>3. \A m \in 1..n : m < n + 1
      OBVIOUS
    <2> QED
      BY <2>1, <2>2, <2>3 DEF Precede
  <1>9. ASSUME NEW i \in 1..(L + 1), NEW j \in 1..(L + 1), i < j, new.built[i].key = new.built[j].key
        PROVE  Precede(MembersOf(new.built[i]), MembersOf(new.built[j]))
    <2>1. i \in 1..L
      BY <1>1, <1>9
    <2>2. CASE j \in 1..L
      BY <2>1, <2>2, <1>1, <1>3, <1>9 DEF RowsFit
    <2>3. CASE j = L + 1
      <3>1. Precede(MembersOf(acc.built[i]), Held(acc, key) \cup {n + 1})
        BY <2>1, <2>3, <1>3, <1>8, <1>9
      <3> QED
        BY <2>1, <2>3, <3>1, <1>3 DEF Precede
    <2> QED
      BY <2>2, <2>3, <1>4
  <1>10. ASSUME NEW i \in 1..(L + 1)
         PROVE  Precede(MembersOf(new.built[i]), Held(new, new.built[i].key))
    <2>1. CASE i = L + 1
      BY <2>1, <1>3
    <2>2. CASE i \in 1..L /\ acc.built[i].key = key
      <3>1. Precede(MembersOf(acc.built[i]), Held(acc, key) \cup {n + 1})
        BY <2>2, <1>8
      <3> QED
        BY <2>2, <3>1, <1>3 DEF Precede
    <2>3. CASE i \in 1..L /\ acc.built[i].key # key
      <3>1. Precede(MembersOf(acc.built[i]), Held(acc, acc.built[i].key))
        BY <2>3, <1>1 DEF RowsFit
      <3>2. Held(new, acc.built[i].key) = Held(acc, acc.built[i].key)
        BY <2>3, <1>2
      <3> QED
        BY <2>3, <3>1, <3>2, <1>3
    <2> QED
      BY <2>1, <2>2, <2>3, <1>4
  <1>11. ASSUME NEW m \in 1..(n + 1), rows[m].type # "other"
         PROVE  (\E i \in 1..(L + 1) : m \in MembersOf(new.built[i])) \/ m \in Held(new, rows[m].key)
    <2>0. rows[m].key \in RowKeys
      <3>1. m \in 1..Len(rows)
        OBVIOUS
      <3> QED
        BY <3>1, RowType
    <2>1. CASE m \in Held(acc, key) \cup {n + 1}
      <3>1. rows[m].key = key
        BY <2>1, <1>5
      <3>2. L + 1 \in 1..(L + 1)
        BY <1>1
      <3> QED
        BY <2>1, <3>1, <3>2, <1>3
    <2>2. CASE m \notin Held(acc, key) \cup {n + 1}
      <3>1. m \in 1..n
        BY <2>2
      <3>2. (\E i \in 1..L : m \in MembersOf(acc.built[i])) \/ m \in Held(acc, rows[m].key)
        BY <3>1, <1>1, <1>11 DEF RowsFit
      <3>3. CASE m \in Held(acc, rows[m].key)
        <4>1. rows[m].key # key
          BY <2>2, <3>3
        <4> QED
          BY <4>1, <2>0, <3>3
      <3>4. CASE \E i \in 1..L : m \in MembersOf(acc.built[i])
        <4>1. PICK i \in 1..L : m \in MembersOf(acc.built[i])
          BY <3>4
        <4>2. i \in 1..(L + 1) /\ m \in MembersOf(new.built[i])
          BY <4>1, <1>1, <1>3
        <4> QED
          BY <4>2
      <3> QED
        BY <3>2, <3>3, <3>4
    <2> QED
      BY <2>1, <2>2
  <1> QED
    BY <1>3, <1>6, <1>7, <1>9, <1>10, <1>11 DEF RowsFit

(* A row that belongs to no turn.                                          *)
LEMMA OtherFits ==
    ASSUME NEW rows \in Seq(LogRow), NEW n \in Nat, n + 1 \in 1..Len(rows),
           NEW acc \in Turning, RowsFit(rows, acc, n), rows[n + 1].type = "other"
    PROVE  RowsFit(rows, acc, n + 1)
  <1>1. 1..n \subseteq 1..(n + 1) /\ \A m \in 1..(n + 1) : m \in 1..n \/ m = n + 1
    OBVIOUS
  <1>2. \A i \in DOMAIN acc.built : IsTurn(rows, n + 1, acc.built[i])
    BY <1>1 DEF RowsFit, IsTurn
  <1>3. \A key \in RowKeys : \A m \in Held(acc, key) :
          m \in 1..(n + 1) /\ rows[m].key = key /\ rows[m].type # "other"
    BY <1>1 DEF RowsFit
  <1>4. \A m \in 1..(n + 1) : rows[m].type # "other" => m \in 1..n
    BY <1>1
  <1> QED
    BY <1>2, <1>3, <1>4 DEF RowsFit

(* Nothing of the other keys changes.                                      *)
SameBut(key, acc, new) ==
    \A k \in RowKeys \ {key} :
        /\ k \in DOMAIN new.active <=> k \in DOMAIN acc.active
        /\ k \in DOMAIN acc.active => new.active[k] = acc.active[k]
        /\ new.pending[k] = acc.pending[k]

(* A row changes the shape of its key only.                                *)
LEMMA ShapeKept ==
    ASSUME NEW rows \in Seq(LogRow), NEW n \in Nat, n + 1 \in 1..Len(rows),
           NEW acc, NEW new \in Turning, NEW key, key = rows[n + 1].key,
           ShapeFits(rows, acc, n), SameBut(key, acc, new),
           key \in DOMAIN new.active =>
              /\ new.active[key].key = key /\ new.active[key].resp = Unanswered
              /\ new.pending[key] = <<>>,
           key \notin DOMAIN new.active =>
              \A m \in ToSet(new.pending[key]), k \in 1..(n + 1) :
                 (k >= m /\ rows[k].key = key) => rows[k].type \in {"tool.result", "other"}
    PROVE  /\ ShapeFits(rows, new, n + 1)
           /\ \A k \in RowKeys \ {key} : Held(new, k) = Held(acc, k)
  <1>1. DOMAIN new.active \subseteq RowKeys
    BY DEF Turning
  <1>2. ASSUME NEW k \in DOMAIN new.active
        PROVE  /\ new.active[k].key = k /\ new.active[k].resp = Unanswered
               /\ new.pending[k] = <<>>
    <2>1. CASE k = key
      BY <2>1
    <2>2. CASE k # key
      <3>1. k \in DOMAIN acc.active /\ new.active[k] = acc.active[k] /\ new.pending[k] = acc.pending[k]
        BY <2>2, <1>1 DEF SameBut
      <3> QED
        BY <3>1 DEF ShapeFits
    <2> QED
      BY <2>1, <2>2
  <1>3. ASSUME NEW k \in RowKeys \ DOMAIN new.active, NEW m \in ToSet(new.pending[k]),
               NEW l \in 1..(n + 1), l >= m, rows[l].key = k
        PROVE  rows[l].type \in {"tool.result", "other"}
    <2>1. CASE k = key
      BY <2>1, <1>3
    <2>2. CASE k # key
      <3>1. k \in RowKeys \ DOMAIN acc.active /\ new.pending[k] = acc.pending[k]
        BY <2>2 DEF SameBut
      <3>2. l # n + 1
        BY <2>2, <1>3
      <3>3. l \in 1..n
        BY <3>2
      <3> QED
        BY <3>1, <3>3, <1>3 DEF ShapeFits
    <2> QED
      BY <2>1, <2>2
  <1>4. \A k \in RowKeys \ {key} : Held(new, k) = Held(acc, k)
    BY DEF SameBut, Held
  <1> QED
    BY <1>2, <1>3, <1>4 DEF ShapeFits

(* The rows of a new turn, and of one with a row more.                     *)
LEMMA RowsOfNewTurn ==
    ASSUME NEW rows \in Seq(LogRow), NEW n \in 1..Len(rows), NEW results \in Seq(Nat)
    PROVE  LET turn == Turn(rows, n, results)
           IN  /\ turn \in TurnRecord /\ turn.key = rows[n].key /\ turn.resp = Unanswered
               /\ MembersOf(turn) = ToSet(results) \cup {n}
  <1>1. rows[n].key \in RowKeys /\ n \in Nat
    BY RowType
  <1>2. ToSet(<<>>) = {}
    BY DEF ToSet
  <1>3. <<>> \in Seq(Nat)
    OBVIOUS
  <1> QED
    BY <1>1, <1>2, <1>3 DEF Turn, TurnRecord, Unanswered, MembersOf

(* A call, a result or a response joins a turn, which keeps its key.       *)
LEMMA RowJoinsTurn ==
    ASSUME NEW turn \in TurnRecord, NEW n \in Nat \ {0}
    PROVE  /\ LET joined == [turn EXCEPT !.uses = Append(@, n)]
              IN  /\ joined \in TurnRecord /\ joined.key = turn.key /\ joined.resp = turn.resp
                  /\ MembersOf(joined) = MembersOf(turn) \cup {n}
           /\ LET joined == [turn EXCEPT !.results = Append(@, n)]
              IN  /\ joined \in TurnRecord /\ joined.key = turn.key /\ joined.resp = turn.resp
                  /\ MembersOf(joined) = MembersOf(turn) \cup {n}
           /\ turn.resp = Unanswered =>
              LET joined == [turn EXCEPT !.resp = n]
              IN  /\ joined \in TurnRecord /\ joined.key = turn.key /\ joined.resp = n
                  /\ MembersOf(joined) = MembersOf(turn) \cup {n}
  <1>1. turn.uses \in Seq(Nat) /\ turn.results \in Seq(Nat)
    BY DEF TurnRecord
  <1>2. /\ ToSet(Append(turn.uses, n)) = ToSet(turn.uses) \cup {n}
        /\ ToSet(Append(turn.results, n)) = ToSet(turn.results) \cup {n}
    BY <1>1, ToSetAppend
  <1>3. Append(turn.uses, n) \in Seq(Nat) /\ Append(turn.results, n) \in Seq(Nat)
    BY <1>1
  <1>4. LET joined == [turn EXCEPT !.uses = Append(@, n)]
        IN  /\ joined \in TurnRecord /\ joined.key = turn.key /\ joined.resp = turn.resp
            /\ joined.req = turn.req /\ joined.uses = Append(turn.uses, n)
            /\ joined.results = turn.results
    BY <1>3 DEF TurnRecord
  <1>5. LET joined == [turn EXCEPT !.results = Append(@, n)]
        IN  /\ joined \in TurnRecord /\ joined.key = turn.key /\ joined.resp = turn.resp
            /\ joined.req = turn.req /\ joined.uses = turn.uses
            /\ joined.results = Append(turn.results, n)
    BY <1>3 DEF TurnRecord
  <1>6. LET joined == [turn EXCEPT !.resp = n]
        IN  /\ joined \in TurnRecord /\ joined.key = turn.key /\ joined.resp = n
            /\ joined.req = turn.req /\ joined.uses = turn.uses
            /\ joined.results = turn.results
    BY DEF TurnRecord
  <1> QED
    BY <1>2, <1>4, <1>5, <1>6 DEF MembersOf, Unanswered

(* The parts of a step.                                                    *)
LEMMA Activated ==
    ASSUME NEW acc \in Turning, NEW turn \in TurnRecord
    PROVE  LET new == Activate(acc, turn)
           IN  /\ new \in Turning /\ new.built = acc.built /\ SameBut(turn.key, acc, new)
               /\ turn.key \in DOMAIN new.active /\ new.active[turn.key] = turn
               /\ new.pending[turn.key] = <<>>
  <1> DEFINE keys == DOMAIN acc.active \cup {turn.key}
             active == [key \in keys |-> IF key = turn.key THEN turn ELSE acc.active[key]]
             pending == [acc.pending EXCEPT ![turn.key] = <<>>]
             new == Activate(acc, turn)
  <1>1. turn.key \in RowKeys /\ acc.pending \in [RowKeys -> Seq(Nat)]
    BY DEF TurnRecord, Turning
  <1>2. PICK ks \in SUBSET RowKeys : acc.active \in [ks -> TurnRecord]
    BY DEF Turning
  <1>3. keys \in SUBSET RowKeys /\ active \in [keys -> TurnRecord]
    BY <1>1, <1>2
  <1>4. pending \in [RowKeys -> Seq(Nat)]
    BY <1>1
  <1>5. /\ new = [acc EXCEPT !.active = active, !.pending = pending]
        /\ DOMAIN active = keys /\ active[turn.key] = turn
        /\ \A k \in DOMAIN acc.active : k # turn.key => active[k] = acc.active[k]
        /\ pending[turn.key] = <<>> /\ \A k \in RowKeys \ {turn.key} : pending[k] = acc.pending[k]
    BY <1>1 DEF Activate, Turning
  <1> HIDE DEF active, pending, new
  <1>6. new \in Turning /\ new.built = acc.built /\ new.active = active /\ new.pending = pending
    BY <1>3, <1>4, <1>5 DEF Turning
  <1> QED
    BY <1>5, <1>6 DEF new, SameBut

(* What Deactivate leaves, ...                                             *)
LEMMA Deactivated ==
    ASSUME NEW acc \in Turning, NEW key \in RowKeys
    PROVE  LET new == Deactivate(acc, key)
           IN  /\ new \in Turning /\ new.built = acc.built /\ SameBut(key, acc, new)
               /\ key \notin DOMAIN new.active /\ new.pending[key] = <<>>
  <1> DEFINE keys == DOMAIN acc.active \ {key}
             active == [k \in keys |-> acc.active[k]]
             pending == [acc.pending EXCEPT ![key] = <<>>]
             new == Deactivate(acc, key)
  <1>1. acc.pending \in [RowKeys -> Seq(Nat)]
    BY DEF Turning
  <1>2. PICK ks \in SUBSET RowKeys : acc.active \in [ks -> TurnRecord]
    BY DEF Turning
  <1>3. keys \in SUBSET RowKeys /\ active \in [keys -> TurnRecord]
    BY <1>2
  <1>4. pending \in [RowKeys -> Seq(Nat)]
    BY <1>1
  <1>5. /\ new = [acc EXCEPT !.active = active, !.pending = pending]
        /\ DOMAIN active = keys /\ \A k \in keys : active[k] = acc.active[k]
        /\ pending[key] = <<>> /\ \A k \in RowKeys \ {key} : pending[k] = acc.pending[k]
    BY <1>1 DEF Deactivate, Restrict, Turning
  <1> HIDE DEF active, pending, new
  <1>6. new \in Turning /\ new.built = acc.built /\ new.active = active /\ new.pending = pending
    BY <1>3, <1>4, <1>5 DEF Turning
  <1> QED
    BY <1>5, <1>6 DEF new, SameBut

(* ... and Build.                                                          *)
LEMMA Built ==
    ASSUME NEW acc \in Turning, NEW turn \in TurnRecord
    PROVE  LET new == Build(acc, turn)
           IN  /\ new \in Turning /\ new.built = Append(acc.built, turn)
               /\ new.active = acc.active /\ new.pending = acc.pending
  <1>1. Append(acc.built, turn) \in Seq(TurnRecord)
    BY BuiltType
  <1> QED
    BY <1>1 DEF Build, Turning

(* The turn for a row has what is held of its key.                         *)
LEMMA TurnForRow ==
    ASSUME NEW rows \in Seq(LogRow), NEW n \in Nat, n + 1 \in 1..Len(rows),
           NEW acc, ShapeFits(rows, acc, n), NEW key, key = rows[n + 1].key
    PROVE  LET turn == TurnFor(acc, rows, n + 1)
           IN  /\ turn \in TurnRecord /\ turn.key = key /\ turn.resp = Unanswered
               /\ MembersOf(turn) \cup {n + 1} = Held(acc, key) \cup {n + 1}
  <1>1. key \in RowKeys /\ acc \in Turning
    BY RowType DEF ShapeFits
  <1>2. CASE key \in DOMAIN acc.active
    <2>1. acc.active[key] \in TurnRecord
      BY <1>1, <1>2 DEF Turning
    <2>2. TurnFor(acc, rows, n + 1) = acc.active[key]
      BY <1>2 DEF TurnFor
    <2> QED
      BY <1>2, <2>1, <2>2 DEF ShapeFits, Held
  <1>3. CASE key \notin DOMAIN acc.active
    <2>1. acc.pending[key] \in Seq(Nat)
      BY <1>1 DEF Turning
    <2>2. TurnFor(acc, rows, n + 1) = Turn(rows, n + 1, acc.pending[key])
      BY <1>3 DEF TurnFor
    <2> QED
      BY <1>3, <2>1, <2>2, RowsOfNewTurn DEF Held
  <1> QED
    BY <1>2, <1>3

(* The step of build_turns, by the type of the row.                        *)
LEMMA RequestFits ==
    ASSUME NEW rows \in Seq(LogRow), NEW n \in Nat, n + 1 \in 1..Len(rows),
           NEW acc, TurnsFit(rows, acc, n), rows[n + 1].type = "model.request"
    PROVE  TurnsFit(rows, OnRequest(acc, rows, n + 1), n + 1)
  <1> DEFINE key == rows[n + 1].key
             opened == Turn(rows, n + 1, acc.pending[key])
             flushed == IF key \in DOMAIN acc.active THEN Build(acc, acc.active[key]) ELSE acc
             new == OnRequest(acc, rows, n + 1)
  <1>1. key \in RowKeys /\ acc \in Turning /\ ShapeFits(rows, acc, n) /\ RowsFit(rows, acc, n)
    BY RowType DEF TurnsFit, ShapeFits
  <1>2. /\ opened \in TurnRecord /\ opened.key = key /\ opened.resp = Unanswered
        /\ MembersOf(opened) = ToSet(acc.pending[key]) \cup {n + 1}
    <2>1. acc.pending[key] \in Seq(Nat)
      BY <1>1 DEF Turning
    <2> QED
      BY <2>1, RowsOfNewTurn
  <1>3. key \in DOMAIN acc.active =>
           /\ acc.active[key] \in TurnRecord /\ acc.active[key].key = key
           /\ acc.active[key].resp = Unanswered /\ acc.pending[key] = <<>>
           /\ Held(acc, key) = MembersOf(acc.active[key])
    BY <1>1 DEF ShapeFits, Turning, Held
  <1>4. new = Activate(flushed, opened)
    BY DEF OnRequest
  <1>5. /\ flushed \in Turning /\ flushed.active = acc.active /\ flushed.pending = acc.pending
        /\ flushed.built = IF key \in DOMAIN acc.active THEN Append(acc.built, acc.active[key])
                           ELSE acc.built
    BY <1>1, <1>3, Built
  <1> HIDE DEF opened, flushed, new, key
  <1>6. /\ new \in Turning /\ new.built = flushed.built /\ SameBut(key, flushed, new)
        /\ key \in DOMAIN new.active /\ new.active[key] = opened /\ new.pending[key] = <<>>
    BY <1>2, <1>4, <1>5, Activated
  <1>7. SameBut(key, acc, new)
    BY <1>5, <1>6 DEF SameBut
  <1>8. ShapeFits(rows, new, n + 1) /\ \A k \in RowKeys \ {key} : Held(new, k) = Held(acc, k)
    BY <1>1, <1>2, <1>6, <1>7, ShapeKept DEF key
  <1>9. Held(new, key) = ToSet(acc.pending[key]) \cup {n + 1}
    BY <1>2, <1>6 DEF Held
  <1>10. rows[n + 1].type # "other" /\ key = rows[n + 1].key
    BY DEF key
  <1>11. CASE key \in DOMAIN acc.active
    <2>1. ToSet(acc.pending[key]) = {}
      BY <1>3, <1>11 DEF ToSet
    <2>2. Held(new, key) = {n + 1}
      BY <1>9, <2>1
    <2>3. new.built = Append(acc.built, acc.active[key])
      BY <1>5, <1>6, <1>11
    <2>4. Precede(MembersOf(acc.active[key]), Held(new, key))
      <3>1. \A m \in Held(acc, key) : m \in 1..n
        BY <1>1 DEF RowsFit
      <3>2. \A m \in 1..n : m < n + 1
        OBVIOUS
      <3> QED
        BY <2>2, <3>1, <3>2, <1>3, <1>11 DEF Precede
    <2>5. MembersOf(acc.active[key]) \cup Held(new, key) = Held(acc, key) \cup {n + 1}
      BY <2>2, <1>3, <1>11
    <2>6. acc.active[key] \in TurnRecord /\ acc.active[key].key = key
          /\ acc.active[key].resp = Unanswered
      BY <1>3, <1>11
    <2>7. RowsFit(rows, new, n + 1)
      BY <2>3, <2>4, <2>5, <2>6, <1>1, <1>6, <1>8, <1>10, BuildsFits
    <2> QED
      BY <2>7, <1>8 DEF TurnsFit, new
  <1>12. CASE key \notin DOMAIN acc.active
    <2>1. Held(new, key) = Held(acc, key) \cup {n + 1}
      BY <1>9, <1>12 DEF Held
    <2>2. new.built = acc.built
      BY <1>5, <1>6, <1>12
    <2>3. RowsFit(rows, new, n + 1)
      BY <2>1, <2>2, <1>1, <1>6, <1>8, <1>10, GrowsFits
    <2> QED
      BY <2>3, <1>8 DEF TurnsFit, new
  <1> QED
    BY <1>11, <1>12

(* A tool call, ...                                                        *)
LEMMA CallFits ==
    ASSUME NEW rows \in Seq(LogRow), NEW n \in Nat, n + 1 \in 1..Len(rows),
           NEW acc, TurnsFit(rows, acc, n), rows[n + 1].type = "tool.call"
    PROVE  TurnsFit(rows, OnToolCall(acc, rows, n + 1), n + 1)
  <1> DEFINE key == rows[n + 1].key
             old == TurnFor(acc, rows, n + 1)
             turn == [old EXCEPT !.uses = Append(@, n + 1)]
             new == OnToolCall(acc, rows, n + 1)
  <1>1. key \in RowKeys /\ acc \in Turning /\ ShapeFits(rows, acc, n) /\ RowsFit(rows, acc, n)
    BY RowType DEF TurnsFit, ShapeFits
  <1>2. /\ old \in TurnRecord /\ old.key = key /\ old.resp = Unanswered
        /\ MembersOf(old) \cup {n + 1} = Held(acc, key) \cup {n + 1}
    BY <1>1, TurnForRow
  <1>3. new = Activate(acc, turn)
    BY DEF OnToolCall
  <1> HIDE DEF old
  <1>4. /\ turn \in TurnRecord /\ turn.key = key /\ turn.resp = Unanswered
        /\ MembersOf(turn) = Held(acc, key) \cup {n + 1}
    <2>1. n + 1 \in Nat \ {0}
      OBVIOUS
    <2> QED
      BY <2>1, <1>2, RowJoinsTurn
  <1> HIDE DEF turn, new, key
  <1>5. /\ new \in Turning /\ new.built = acc.built /\ SameBut(key, acc, new)
        /\ key \in DOMAIN new.active /\ new.active[key] = turn /\ new.pending[key] = <<>>
    BY <1>1, <1>3, <1>4, Activated
  <1>6. ShapeFits(rows, new, n + 1) /\ \A k \in RowKeys \ {key} : Held(new, k) = Held(acc, k)
    BY <1>1, <1>4, <1>5, ShapeKept DEF key
  <1>7. Held(new, key) = Held(acc, key) \cup {n + 1}
    BY <1>4, <1>5 DEF Held
  <1>8. rows[n + 1].type # "other" /\ key = rows[n + 1].key
    BY DEF key
  <1>9. RowsFit(rows, new, n + 1)
    BY <1>1, <1>5, <1>6, <1>7, <1>8, GrowsFits
  <1> QED
    BY <1>6, <1>9 DEF TurnsFit, new

(* ... a response, ...                                                     *)
LEMMA ResponseFits ==
    ASSUME NEW rows \in Seq(LogRow), NEW n \in Nat, n + 1 \in 1..Len(rows),
           NEW acc, TurnsFit(rows, acc, n), rows[n + 1].type = "model.response"
    PROVE  TurnsFit(rows, OnResponse(acc, rows, n + 1), n + 1)
  <1> DEFINE key == rows[n + 1].key
             old == TurnFor(acc, rows, n + 1)
             turn == [old EXCEPT !.resp = n + 1]
             closed == Deactivate(acc, key)
             new == OnResponse(acc, rows, n + 1)
  <1>1. key \in RowKeys /\ acc \in Turning /\ ShapeFits(rows, acc, n) /\ RowsFit(rows, acc, n)
    BY RowType DEF TurnsFit, ShapeFits
  <1>2. /\ old \in TurnRecord /\ old.key = key /\ old.resp = Unanswered
        /\ MembersOf(old) \cup {n + 1} = Held(acc, key) \cup {n + 1}
    BY <1>1, TurnForRow
  <1>3. new = Build(closed, turn)
    BY DEF OnResponse
  <1> HIDE DEF old
  <1>4. /\ turn \in TurnRecord /\ turn.key = key /\ turn.resp = n + 1
        /\ MembersOf(turn) = Held(acc, key) \cup {n + 1}
    <2>1. n + 1 \in Nat \ {0}
      OBVIOUS
    <2> QED
      BY <2>1, <1>2, RowJoinsTurn
  <1>5. /\ closed \in Turning /\ closed.built = acc.built /\ SameBut(key, acc, closed)
        /\ key \notin DOMAIN closed.active /\ closed.pending[key] = <<>>
    BY <1>1, Deactivated
  <1> HIDE DEF turn, new, key, closed
  <1>6. /\ new \in Turning /\ new.built = Append(acc.built, turn) /\ SameBut(key, acc, new)
        /\ key \notin DOMAIN new.active /\ new.pending[key] = <<>>
    BY <1>3, <1>4, <1>5, Built DEF SameBut
  <1>7. ToSet(<<>>) = {}
    BY DEF ToSet
  <1>8. ShapeFits(rows, new, n + 1) /\ \A k \in RowKeys \ {key} : Held(new, k) = Held(acc, k)
    BY <1>1, <1>6, <1>7, ShapeKept DEF key
  <1>9. Held(new, key) = {}
    BY <1>6, <1>7 DEF Held
  <1>10. rows[n + 1].type # "other" /\ key = rows[n + 1].key
    BY DEF key
  <1>11. MembersOf(turn) \cup Held(new, key) = Held(acc, key) \cup {n + 1}
         /\ Precede(MembersOf(turn), Held(new, key))
    BY <1>4, <1>9 DEF Precede
  <1>12. RowsFit(rows, new, n + 1)
    BY <1>1, <1>4, <1>6, <1>8, <1>10, <1>11, BuildsFits
  <1> QED
    BY <1>8, <1>12 DEF TurnsFit, new

(* ... and a tool result keep TurnsFit too, ...                            *)
LEMMA ResultFits ==
    ASSUME NEW rows \in Seq(LogRow), NEW n \in Nat, n + 1 \in 1..Len(rows),
           NEW acc, TurnsFit(rows, acc, n), rows[n + 1].type = "tool.result"
    PROVE  TurnsFit(rows, OnToolResult(acc, rows, n + 1), n + 1)
  <1> DEFINE key == rows[n + 1].key
             new == OnToolResult(acc, rows, n + 1)
  <1>1. key \in RowKeys /\ acc \in Turning /\ ShapeFits(rows, acc, n) /\ RowsFit(rows, acc, n)
    BY RowType DEF TurnsFit, ShapeFits
  <1>2. acc.pending \in [RowKeys -> Seq(Nat)]
    BY <1>1 DEF Turning
  <1>3. rows[n + 1].type # "other" /\ key = rows[n + 1].key
    OBVIOUS
  <1>4. CASE key \in DOMAIN acc.active
    <2> DEFINE turn == [acc.active[key] EXCEPT !.results = Append(@, n + 1)]
               active == [acc.active EXCEPT ![key] = turn]
    <2>1. acc.active[key] \in TurnRecord /\ acc.active[key].key = key
          /\ acc.active[key].resp = Unanswered /\ acc.pending[key] = <<>>
      BY <1>1, <1>4 DEF ShapeFits, Turning
    <2>2. /\ turn \in TurnRecord /\ turn.key = key /\ turn.resp = Unanswered
          /\ MembersOf(turn) = MembersOf(acc.active[key]) \cup {n + 1}
      <3>1. n + 1 \in Nat \ {0}
        OBVIOUS
      <3> QED
        BY <2>1, <3>1, RowJoinsTurn
    <2>3. new = [acc EXCEPT !.active = active]
      BY <1>4 DEF OnToolResult
    <2> HIDE DEF turn, new
    <2>4. PICK ks \in SUBSET RowKeys : acc.active \in [ks -> TurnRecord]
      BY <1>1 DEF Turning
    <2>5. /\ active \in [ks -> TurnRecord] /\ DOMAIN active = DOMAIN acc.active
          /\ active[key] = turn /\ \A k \in DOMAIN acc.active : k # key => active[k] = acc.active[k]
      BY <2>2, <2>4, <1>4
    <2> HIDE DEF active
    <2>6. new \in Turning /\ new.built = acc.built /\ new.active = active
          /\ new.pending = acc.pending
      BY <2>3, <2>5, <1>1 DEF Turning
    <2>7. SameBut(key, acc, new)
      BY <2>5, <2>6 DEF SameBut
    <2>8. key \in DOMAIN new.active /\ new.active[key] = turn /\ new.pending[key] = <<>>
      BY <2>1, <2>5, <2>6, <1>4
    <2>9. ShapeFits(rows, new, n + 1) /\ \A k \in RowKeys \ {key} : Held(new, k) = Held(acc, k)
      BY <2>2, <2>6, <2>7, <2>8, <1>1, ShapeKept
    <2>10. Held(new, key) = Held(acc, key) \cup {n + 1}
      BY <2>2, <2>8, <1>4 DEF Held
    <2>11. RowsFit(rows, new, n + 1)
      BY <2>6, <2>9, <2>10, <1>1, <1>3, GrowsFits
    <2> QED
      BY <2>9, <2>11 DEF TurnsFit, new
  <1>5. CASE key \notin DOMAIN acc.active
    <2> DEFINE pending == [acc.pending EXCEPT ![key] = Append(@, n + 1)]
    <2>1. acc.pending[key] \in Seq(Nat) /\ n + 1 \in Nat
      BY <1>1, <1>2
    <2>2. new = [acc EXCEPT !.pending = pending]
      BY <1>5 DEF OnToolResult
    <2> HIDE DEF new
    <2>3. Append(acc.pending[key], n + 1) \in Seq(Nat)
      BY <2>1
    <2>4. /\ pending \in [RowKeys -> Seq(Nat)] /\ pending[key] = Append(acc.pending[key], n + 1)
          /\ \A k \in RowKeys \ {key} : pending[k] = acc.pending[k]
      BY <2>3, <1>1, <1>2
    <2> HIDE DEF pending
    <2>5. new \in Turning /\ new.built = acc.built /\ new.active = acc.active
          /\ new.pending = pending
      BY <2>2, <2>4, <1>1 DEF Turning
    <2>6. SameBut(key, acc, new)
      BY <2>4, <2>5 DEF SameBut
    <2>7. ToSet(new.pending[key]) = ToSet(acc.pending[key]) \cup {n + 1}
      <3>1. ToSet(Append(acc.pending[key], n + 1)) = ToSet(acc.pending[key]) \cup {n + 1}
        BY <2>1, ToSetAppend
      <3> QED
        BY <3>1, <2>4, <2>5
    <2>8. ASSUME NEW m \in ToSet(new.pending[key]), NEW k \in 1..(n + 1),
                 k >= m, rows[k].key = key
          PROVE  rows[k].type \in {"tool.result", "other"}
      <3>1. CASE k = n + 1
        BY <3>1
      <3>2. CASE k # n + 1
        <4>1. k \in 1..n /\ ~(k >= n + 1)
          BY <3>2
        <4>2. m \in ToSet(acc.pending[key])
          BY <4>1, <2>7, <2>8
        <4> QED
          BY <4>1, <4>2, <2>8, <1>1, <1>5 DEF ShapeFits
      <3> QED
        BY <3>1, <3>2
    <2>9. ShapeFits(rows, new, n + 1) /\ \A k \in RowKeys \ {key} : Held(new, k) = Held(acc, k)
      BY <2>5, <2>6, <2>8, <1>1, <1>5, ShapeKept
    <2>10. Held(new, key) = Held(acc, key) \cup {n + 1}
      BY <2>5, <2>7, <1>5 DEF Held
    <2>11. RowsFit(rows, new, n + 1)
      BY <2>5, <2>9, <2>10, <1>1, <1>3, GrowsFits
    <2> QED
      BY <2>9, <2>11 DEF TurnsFit, new
  <1> QED
    BY <1>4, <1>5

(* ... so that each row does.                                              *)
LEMMA StepFits ==
    ASSUME NEW rows \in Seq(LogRow), NEW n \in Nat, n + 1 \in 1..Len(rows),
           NEW acc, TurnsFit(rows, acc, n)
    PROVE  TurnsFit(rows, TurnStep(acc, rows, n + 1), n + 1)
  <1> DEFINE type == rows[n + 1].type
  <1>1. type \in {"model.request", "model.response", "tool.call", "tool.result", "other"}
    BY RowType, RowTypesAssumption
  <1>2. CASE type = "model.request"
    BY <1>2, RequestFits DEF TurnStep
  <1>3. CASE type = "tool.call"
    BY <1>3, CallFits DEF TurnStep
  <1>4. CASE type = "tool.result"
    BY <1>4, ResultFits DEF TurnStep
  <1>5. CASE type = "model.response"
    BY <1>5, ResponseFits DEF TurnStep
  <1>6. CASE type = "other"
    <2>1. TurnStep(acc, rows, n + 1) = acc
      BY <1>6 DEF TurnStep
    <2>2. acc \in Turning /\ ShapeFits(rows, acc, n) /\ RowsFit(rows, acc, n)
      BY DEF TurnsFit, ShapeFits
    <2>3. ASSUME NEW key \in RowKeys \ DOMAIN acc.active, NEW m \in ToSet(acc.pending[key]),
                 NEW k \in 1..(n + 1), k >= m, rows[k].key = key
          PROVE  rows[k].type \in {"tool.result", "other"}
      <3>1. CASE k = n + 1
        BY <3>1, <1>6
      <3>2. CASE k # n + 1
        <4>1. k \in 1..n
          BY <3>2
        <4> QED
          BY <4>1, <2>2, <2>3 DEF ShapeFits
      <3> QED
        BY <3>1, <3>2
    <2>4. ShapeFits(rows, acc, n + 1)
      BY <2>2, <2>3 DEF ShapeFits
    <2>5. RowsFit(rows, acc, n + 1)
      BY <2>2, <1>6, OtherFits
    <2> QED
      BY <2>1, <2>4, <2>5 DEF TurnsFit
  <1> QED
    BY <1>1, <1>2, <1>3, <1>4, <1>5, <1>6

(* The invariant of the loop.                                              *)
LEMMA TurnsFitAll ==
    ASSUME NEW rows \in Seq(LogRow)
    PROVE  \A n \in 0..Len(rows) : TurnsFit(rows, TurnsAfter(rows)[n], n)
  <1> DEFINE S == {n \in Nat : n \in 0..Len(rows) => TurnsFit(rows, TurnsAfter(rows)[n], n)}
  <1>1. Len(rows) \in Nat
    OBVIOUS
  <1>2. TurnsAfter(rows)[0] = NoTurns
    BY <1>1, TurnSteps
  <1>3. \A n \in 1..Len(rows) : TurnsAfter(rows)[n] = TurnStep(TurnsAfter(rows)[n - 1], rows, n)
    BY <1>1, TurnSteps
  <1>4. TurnsFit(rows, NoTurns, 0)
    <2> DEFINE none == [key \in RowKeys |-> <<>>]
    <2>1. none \in [RowKeys -> Seq(Nat)] /\ \A key \in RowKeys : none[key] = <<>>
      OBVIOUS
    <2>2. <<>> \in [{} -> TurnRecord] /\ DOMAIN <<>> = {} /\ <<>> \in Seq(TurnRecord)
      OBVIOUS
    <2>3. NoTurns = [active |-> <<>>, pending |-> none, built |-> <<>>]
      BY DEF NoTurns
    <2> HIDE DEF none
    <2>4. NoTurns \in Turning
      BY <2>1, <2>2, <2>3 DEF Turning
    <2>5. ToSet(<<>>) = {}
      BY DEF ToSet
    <2>6. NoTurns.active = <<>> /\ NoTurns.built = <<>> /\ NoTurns.pending = none
      BY <2>3
    <2>7. ShapeFits(rows, NoTurns, 0)
      BY <2>1, <2>2, <2>4, <2>5, <2>6 DEF ShapeFits
    <2>8. \A key \in RowKeys : Held(NoTurns, key) = {}
      BY <2>1, <2>2, <2>5, <2>6 DEF Held
    <2>9. RowsFit(rows, NoTurns, 0)
      BY <2>2, <2>6, <2>8 DEF RowsFit
    <2> QED
      BY <2>7, <2>9 DEF TurnsFit
  <1>5. 0 \in S
    BY <1>2, <1>4
  <1>6. ASSUME NEW n \in Nat, n \in S, n + 1 \in 0..Len(rows)
        PROVE  TurnsFit(rows, TurnsAfter(rows)[n + 1], n + 1)
    <2>1. n \in 0..Len(rows) /\ n + 1 \in 1..Len(rows) /\ (n + 1) - 1 = n
      BY <1>6
    <2>2. TurnsFit(rows, TurnsAfter(rows)[n], n)
      BY <2>1, <1>6
    <2>3. TurnsAfter(rows)[n + 1] = TurnStep(TurnsAfter(rows)[n], rows, n + 1)
      BY <2>1, <1>3
    <2> QED
      BY <2>1, <2>2, <2>3, StepFits
  <1>7. Nat \subseteq S
    <2>1. \A n \in Nat : n \in S => n + 1 \in S
      BY <1>6
    <2> HIDE DEF S
    <2> QED
      BY <1>5, <2>1, NatSetInduction
  <1> QED
    BY <1>1, <1>7

-------------------------------------------------------------------------------
(* The turns of a log.                                                     *)

(* Turns of rows of one key each, which follow one another, and have all   *)
(* the rows but results after which none of their key begins one.          *)
AreTurns(rows, turns) ==
    /\ turns \in Seq(TurnRecord)
    /\ \A i \in 1..Len(turns) : IsTurn(rows, Len(rows), turns[i])
    /\ \A i, j \in 1..Len(turns) :
          (i # j /\ turns[i].key = turns[j].key) =>
             \/ Precede(MembersOf(turns[i]), MembersOf(turns[j]))
             \/ Precede(MembersOf(turns[j]), MembersOf(turns[i]))
    /\ \A m \in 1..Len(rows) : rows[m].type # "other" =>
          \/ \E i \in 1..Len(turns) : m \in MembersOf(turns[i])
          \/ \A k \in 1..Len(rows) : (k >= m /\ rows[k].key = rows[m].key) =>
                rows[k].type \in {"tool.result", "other"}

(* A turn still active has what is held of its key.                        *)
LEMMA ActiveTurn ==
    ASSUME NEW rows, NEW n \in Nat, NEW acc, TurnsFit(rows, acc, n),
           NEW key \in DOMAIN acc.active
    PROVE  LET turn == acc.active[key]
           IN  /\ key \in RowKeys /\ turn \in TurnRecord /\ turn.key = key
               /\ turn.resp = Unanswered
               /\ MembersOf(turn) = Held(acc, key) /\ IsTurn(rows, n, turn)
               /\ turn.req \in 1..n /\ rows[turn.req].key = key
  <1> DEFINE turn == acc.active[key]
  <1>1. acc \in Turning /\ turn.key = key /\ turn.resp = Unanswered
    BY DEF TurnsFit, ShapeFits
  <1>2. key \in RowKeys /\ turn \in TurnRecord
    BY <1>1 DEF Turning
  <1>3. MembersOf(turn) = Held(acc, key)
    BY DEF Held
  <1> HIDE DEF turn
  <1>4. \A m \in MembersOf(turn) : m \in 1..n /\ rows[m].key = key /\ rows[m].type # "other"
    BY <1>2, <1>3 DEF TurnsFit, RowsFit
  <1>5. turn.req \in MembersOf(turn)
    BY DEF MembersOf
  <1> QED
    BY <1>1, <1>2, <1>3, <1>4, <1>5 DEF IsTurn, turn

(* The turns added at the end are the active ones, one of each key.        *)
LEMMA StillActiveTurns ==
    ASSUME NEW rows \in Seq(LogRow), NEW acc, TurnsFit(rows, acc, Len(rows))
    PROVE  LET rest == StillActive(acc, rows)
           IN  /\ rest \in Seq(TurnRecord)
               /\ \A i \in 1..Len(rest) :
                     rest[i].key \in DOMAIN acc.active /\ rest[i] = acc.active[rest[i].key]
               /\ \A i, j \in 1..Len(rest) : i # j => rest[i].key # rest[j].key
               /\ \A key \in DOMAIN acc.active : \E i \in 1..Len(rest) : rest[i] = acc.active[key]
  <1> DEFINE L == Len(rows)
             Part(n) == IF OpenedBy(acc, n) = {} THEN <<>>
                        ELSE <<acc.active[CHOOSE key \in OpenedBy(acc, n) : TRUE]>>
             parts == [n \in 1..L |-> Part(n)]
             rest == StillActive(acc, rows)
  <1>1. L \in Nat /\ DOMAIN rows = 1..L
    OBVIOUS
  <1>2. rest = FlattenSeq(parts)
    BY <1>1 DEF StillActive
  <1>3. ASSUME NEW n \in 1..L
        PROVE  /\ Part(n) \in Seq(TurnRecord)
               /\ \A q \in 1..Len(Part(n)) : q = 1 /\
                    \E key \in DOMAIN acc.active : Part(n)[q] = acc.active[key]
                                                   /\ acc.active[key].req = n
    <2>1. CASE OpenedBy(acc, n) = {}
      BY <2>1
    <2>2. CASE OpenedBy(acc, n) # {}
      <3> DEFINE key == CHOOSE k \in OpenedBy(acc, n) : TRUE
      <3>1. key \in OpenedBy(acc, n)
        BY <2>2
      <3>2. Part(n) = <<acc.active[key]>>
        BY <2>2
      <3> HIDE DEF key, Part
      <3>3. key \in DOMAIN acc.active /\ acc.active[key].req = n
        BY <3>1 DEF OpenedBy
      <3>4. acc.active[key] \in TurnRecord
        BY <3>3, <1>1, ActiveTurn
      <3>5. Len(Part(n)) = 1 /\ Part(n)[1] = acc.active[key]
        BY <3>2
      <3>6. \A q \in 1..1 : q = 1
        OBVIOUS
      <3> QED
        BY <3>2, <3>3, <3>4, <3>5, <3>6
    <2> QED
      BY <2>1, <2>2
  <1>4. \A key \in DOMAIN acc.active :
           /\ acc.active[key].req \in 1..L /\ rows[acc.active[key].req].key = key
           /\ acc.active[key].key = key
    BY <1>1, ActiveTurn
  <1>5. ASSUME NEW key \in DOMAIN acc.active
        PROVE  Part(acc.active[key].req) = <<acc.active[key]>>
    <2>1. OpenedBy(acc, acc.active[key].req) = {key}
      BY <1>4 DEF OpenedBy
    <2> QED
      BY <2>1
  <1> HIDE DEF Part
  <1>6. parts \in Seq(Seq(TurnRecord)) /\ Len(parts) = L
        /\ \A n \in 1..L : parts[n] = Part(n)
    <2>1. parts \in [1..L -> Seq(TurnRecord)]
      BY <1>3
    <2> QED
      BY <2>1, <1>1
  <1> HIDE DEF parts, rest, L
  <1>7. rest \in Seq(TurnRecord) /\ Flat(rest, parts)
    BY <1>2, <1>6, FlattenPlaces
  <1>8. PICK part, pos : ComesFrom(rest, parts, part, pos)
    BY <1>7 DEF Flat
  <1>9. ASSUME NEW i \in 1..Len(rest)
        PROVE  /\ rest[i].key \in DOMAIN acc.active /\ rest[i] = acc.active[rest[i].key]
               /\ rest[i].req = part[i] /\ pos[i] = 1
    <2>1. part[i] \in 1..L /\ pos[i] \in 1..Len(Part(part[i])) /\ rest[i] = Part(part[i])[pos[i]]
      BY <1>6, <1>8 DEF ComesFrom
    <2> QED
      BY <2>1, <1>3, <1>4
  <1>10. ASSUME NEW i \in 1..Len(rest), NEW j \in 1..Len(rest), i < j
         PROVE  rest[i].key # rest[j].key
    <2>1. part[i] < part[j] \/ (part[i] = part[j] /\ pos[i] < pos[j])
      BY <1>8, <1>10 DEF ComesFrom
    <2>2. part[i] < part[j]
      BY <2>1, <1>9
    <2>3. part[i] \in Nat /\ part[j] \in Nat
      <3>1. part[i] \in 1..Len(parts) /\ part[j] \in 1..Len(parts)
        BY <1>8 DEF ComesFrom
      <3> QED
        BY <3>1
    <2>4. part[i] # part[j]
      BY <2>2, <2>3
    <2> QED
      BY <2>4, <1>9
  <1>11. ASSUME NEW i \in 1..Len(rest), NEW j \in 1..Len(rest), i # j
         PROVE  rest[i].key # rest[j].key
    <2>1. i < j \/ j < i
      BY <1>11
    <2> QED
      BY <2>1, <1>10
  <1>12. ASSUME NEW key \in DOMAIN acc.active
         PROVE  \E i \in 1..Len(rest) : rest[i] = acc.active[key]
    <2> DEFINE n == acc.active[key].req
    <2>1. n \in 1..L /\ parts[n] = <<acc.active[key]>>
      BY <1>4, <1>5, <1>6
    <2>2. 1 \in 1..Len(parts[n])
      BY <2>1
    <2>3. PICK i \in 1..Len(rest) : part[i] = n /\ pos[i] = 1
      BY <2>1, <2>2, <1>6, <1>8 DEF ComesFrom
    <2>4. rest[i] = parts[n][1]
      BY <2>3, <1>8 DEF ComesFrom
    <2> QED
      BY <2>1, <2>4
  <1> QED
    BY <1>7, <1>9, <1>11, <1>12 DEF rest

(* Whatever the log, build_turns makes such turns of it.                   *)
LEMMA TurnsOfLog ==
    ASSUME NEW rows \in Seq(LogRow)
    PROVE  AreTurns(rows, BuildTurns(rows))
  <1> DEFINE L == Len(rows)
             acc == TurnsAfter(rows)[L]
             built == acc.built
             rest == StillActive(acc, rows)
             turns == BuildTurns(rows)
             B == Len(built)
             R == Len(rest)
  <1>1. L \in Nat /\ TurnsFit(rows, acc, L)
    <2>1. L \in 0..L
      OBVIOUS
    <2> QED
      BY <2>1, TurnsFitAll
  <1>2. turns = built \o rest
    BY DEF BuildTurns
  <1> HIDE DEF acc, turns
  <1>3. /\ acc \in Turning /\ built \in Seq(TurnRecord) /\ B \in Nat /\ DOMAIN built = 1..B
        /\ \A i \in 1..B : built[i].key \in RowKeys
    BY <1>1, BuiltType DEF TurnsFit, ShapeFits
  <1>4. /\ rest \in Seq(TurnRecord)
        /\ \A i \in 1..R : rest[i].key \in DOMAIN acc.active /\ rest[i] = acc.active[rest[i].key]
        /\ \A i, j \in 1..R : i # j => rest[i].key # rest[j].key
        /\ \A key \in DOMAIN acc.active : \E i \in 1..R : rest[i] = acc.active[key]
    BY <1>1, StillActiveTurns
  <1>5. R \in Nat
    BY <1>4
  <1>6. /\ turns \in Seq(TurnRecord) /\ Len(turns) = B + R
        /\ \A i \in 1..B : turns[i] = built[i]
        /\ \A i \in 1..R : turns[B + i] = rest[i]
    BY <1>2, <1>3, <1>4
  <1> HIDE DEF built, rest, B, R, L
  <1>7. ASSUME NEW i \in 1..(B + R), ~(i \in 1..B)
        PROVE  i - B \in 1..R /\ turns[i] = rest[i - B]
    <2>1. i - B \in 1..R /\ B + (i - B) = i
      BY <1>3, <1>5, <1>7
    <2>2. turns[B + (i - B)] = rest[i - B]
      BY <2>1, <1>6
    <2> QED
      BY <2>1, <2>2
  <1>8. ASSUME NEW i \in 1..R
        PROVE  /\ rest[i].key \in DOMAIN acc.active /\ rest[i].key \in RowKeys
               /\ MembersOf(rest[i]) = Held(acc, rest[i].key) /\ IsTurn(rows, L, rest[i])
    BY <1>1, <1>4, ActiveTurn
  <1>9. ASSUME NEW i \in 1..(B + R) PROVE IsTurn(rows, L, turns[i])
    <2>1. CASE i \in 1..B
      BY <2>1, <1>1, <1>3, <1>6 DEF TurnsFit, RowsFit, built
    <2>2. CASE ~(i \in 1..B)
      BY <2>2, <1>7, <1>8
    <2> QED
      BY <2>1, <2>2
  <1>10. ASSUME NEW i \in 1..(B + R), NEW j \in 1..(B + R), i < j, turns[i].key = turns[j].key
         PROVE  Precede(MembersOf(turns[i]), MembersOf(turns[j]))
    <2>1. CASE j \in 1..B
      <3>1. i \in 1..B
        BY <2>1, <1>3, <1>10
      <3> QED
        BY <2>1, <3>1, <1>1, <1>3, <1>6, <1>10 DEF TurnsFit, RowsFit, built
    <2>2. CASE i \in 1..B /\ ~(j \in 1..B)
      <3>1. turns[j] = rest[j - B] /\ j - B \in 1..R
        BY <2>2, <1>7
      <3>2. MembersOf(turns[j]) = Held(acc, turns[i].key)
        BY <3>1, <1>8, <1>10
      <3>3. Precede(MembersOf(built[i]), Held(acc, built[i].key))
        BY <2>2, <1>1, <1>3 DEF TurnsFit, RowsFit, built
      <3> QED
        BY <2>2, <3>2, <3>3, <1>6
    <2>3. CASE ~(i \in 1..B) /\ ~(j \in 1..B)
      <3>1. /\ turns[i] = rest[i - B] /\ turns[j] = rest[j - B]
            /\ i - B \in 1..R /\ j - B \in 1..R
        BY <2>3, <1>7
      <3>2. i - B # j - B
        BY <1>3, <1>5, <1>10
      <3> QED
        BY <3>1, <3>2, <1>4, <1>10
    <2>4. i \in 1..B \/ ~(j \in 1..B)
      BY <1>3, <1>10
    <2> QED
      BY <2>1, <2>2, <2>3, <2>4
  <1>11. ASSUME NEW i \in 1..(B + R), NEW j \in 1..(B + R), i # j, turns[i].key = turns[j].key
         PROVE  \/ Precede(MembersOf(turns[i]), MembersOf(turns[j]))
                \/ Precede(MembersOf(turns[j]), MembersOf(turns[i]))
    <2>1. i < j \/ j < i
      BY <1>3, <1>5, <1>11
    <2> QED
      BY <2>1, <1>10, <1>11
  <1>12. ASSUME NEW m \in 1..L, rows[m].type # "other",
                ~ \E i \in 1..(B + R) : m \in MembersOf(turns[i]),
                NEW k \in 1..L, k >= m, rows[k].key = rows[m].key
         PROVE  rows[k].type \in {"tool.result", "other"}
    <2>1. \A i \in 1..B : i \in 1..(B + R) /\ turns[i] = built[i]
      BY <1>3, <1>5, <1>6
    <2>2. \A i \in 1..R : B + i \in 1..(B + R) /\ turns[B + i] = rest[i]
      BY <1>3, <1>5, <1>6
    <2>3. m \in Held(acc, rows[m].key)
      BY <2>1, <1>1, <1>3, <1>12 DEF TurnsFit, RowsFit, built
    <2>4. rows[m].key \in RowKeys
      BY RowType DEF L
    <2>5. rows[m].key \notin DOMAIN acc.active
      <3> SUFFICES ASSUME rows[m].key \in DOMAIN acc.active PROVE FALSE
        OBVIOUS
      <3>1. PICK i \in 1..R : rest[i] = acc.active[rows[m].key]
        BY <1>4
      <3>2. m \in MembersOf(rest[i])
        BY <2>3, <3>1 DEF Held
      <3> QED
        BY <2>2, <3>2, <1>12
    <2>6. m \in ToSet(acc.pending[rows[m].key])
      BY <2>3, <2>5 DEF Held
    <2> QED
      BY <2>4, <2>5, <2>6, <1>1, <1>12 DEF TurnsFit, ShapeFits
  <1>13. AreTurns(rows, turns)
    BY <1>6, <1>9, <1>11, <1>12 DEF AreTurns, L
  <1> QED
    BY <1>13 DEF turns

(* No row is in two turns.                                                 *)
LEMMA OneTurn ==
    ASSUME NEW rows, NEW turns, AreTurns(rows, turns), NEW i \in 1..Len(turns), NEW j \in 1..Len(turns),
           NEW m \in MembersOf(turns[i]), m \in MembersOf(turns[j])
    PROVE  i = j
  <1>1. IsTurn(rows, Len(rows), turns[i]) /\ IsTurn(rows, Len(rows), turns[j])
    BY DEF AreTurns
  <1>2. turns[i].key = turns[j].key /\ ~(m < m)
    BY <1>1 DEF IsTurn
  <1> SUFFICES ASSUME i # j PROVE FALSE
    OBVIOUS
  <1>3. \/ Precede(MembersOf(turns[i]), MembersOf(turns[j]))
        \/ Precede(MembersOf(turns[j]), MembersOf(turns[i]))
    BY <1>2 DEF AreTurns
  <1> QED
    BY <1>2, <1>3 DEF Precede

-------------------------------------------------------------------------------
(* The events of a log.                                                    *)

(* The turn with a row is the only one that has a model event at its line. *)
LEMMA ModelEventsOf ==
    ASSUME NEW rows, NEW turns, AreTurns(rows, turns), NEW role \in {"request", "response"},
           NEW n
    PROVE  /\ (\A i \in 1..Len(turns) : ModelEvent(turns[i], role).line # n) =>
                 ModelEvents(turns, role, n) = <<>>
           /\ \A k \in 1..Len(turns) : ModelEvent(turns[k], role).line = n =>
                 ModelEvents(turns, role, n) = <<ModelEvent(turns[k], role)>>
  <1> DEFINE K == Len(turns)
             At(i) == ModelEvent(turns[i], role)
             T == {At(i) : i \in 1..K}
             parts == [i \in 1..K |-> IF At(i).line = n THEN <<At(i)>> ELSE <<>>]
  <1>1. turns \in Seq(TurnRecord) /\ DOMAIN turns = 1..K /\ K \in Nat
    BY DEF AreTurns
  <1>2. ModelEvents(turns, role, n) = FlattenSeq(parts)
    BY <1>1 DEF ModelEvents
  <1>3. ASSUME NEW i \in 1..K
        PROVE  At(i).line \in MembersOf(turns[i])
    BY DEF ModelEvent, RequestEvent, ResponseEvent, MembersOf
  <1>4. \A i \in 1..K : At(i) \in T
    OBVIOUS
  <1> HIDE DEF At, T
  <1>5. parts \in Seq(Seq(T)) /\ Len(parts) = K
        /\ \A i \in 1..K : parts[i] = IF At(i).line = n THEN <<At(i)>> ELSE <<>>
    <2>1. parts \in [1..K -> Seq(T)]
      BY <1>4
    <2> QED
      BY <2>1, <1>1
  <1> HIDE DEF parts, K
  <1>6. ASSUME \A i \in 1..K : At(i).line # n
        PROVE  ModelEvents(turns, role, n) = <<>>
    BY <1>2, <1>5, <1>6, FlattenNone
  <1>7. ASSUME NEW k \in 1..K, At(k).line = n
        PROVE  ModelEvents(turns, role, n) = <<At(k)>>
    <2>1. \A l \in 1..K : l # k => At(l).line # n
      BY <1>3, <1>7, OneTurn DEF K
    <2> QED
      BY <2>1, <1>2, <1>4, <1>5, <1>7, FlattenOne
  <1> QED
    BY <1>6, <1>7 DEF K, At

(* The events of a row: the request of a turn, then the row's own, then    *)
(* the response of a turn.                                                 *)
RowEvent(rows, turns, n) ==
    {OwnEvent(rows, n)} \cup {RequestEvent(turns[i]) : i \in 1..Len(turns)}
                        \cup {ResponseEvent(turns[i]) : i \in 1..Len(turns)}

ResponseLine(turn) == IF turn.resp = Unanswered THEN turn.req ELSE turn.resp

(* In the events of a row, the request comes first and the response last.  *)
LEMMA RowEvents ==
    ASSUME NEW rows \in Seq(LogRow), NEW turns, AreTurns(rows, turns), NEW n \in 1..Len(rows)
    PROVE  LET events == EventsOfRow(rows, turns, n)
           IN  /\ events \in Seq(RowEvent(rows, turns, n))
               /\ \A q \in 1..Len(events) :
                     /\ events[q].line = n
                     /\ events[q].role = "request" => q = 1
                     /\ events[q].role = "response" => q = Len(events)
               /\ \A k \in 1..Len(turns) :
                     /\ turns[k].req = n => Len(events) >= 1 /\ events[1] = RequestEvent(turns[k])
                     /\ ResponseLine(turns[k]) = n =>
                           Len(events) >= 1 /\ events[Len(events)] = ResponseEvent(turns[k])
                     /\ (turns[k].req = n /\ ResponseLine(turns[k]) = n) => Len(events) >= 2
  <1> DEFINE T == RowEvent(rows, turns, n)
             requests == ModelEvents(turns, "request", n)
             own == IF rows[n].type \in {"model.request", "model.response"}
                      THEN <<>> ELSE <<OwnEvent(rows, n)>>
             responses == ModelEvents(turns, "response", n)
             events == EventsOfRow(rows, turns, n)
  <1>1. events = requests \o own \o responses
    BY DEF EventsOfRow
  <1>2. \A k : /\ ModelEvent(turns[k], "request") = RequestEvent(turns[k])
               /\ ModelEvent(turns[k], "response") = ResponseEvent(turns[k])
               /\ RequestEvent(turns[k]).role = "request" /\ RequestEvent(turns[k]).line = turns[k].req
               /\ ResponseEvent(turns[k]).role = "response"
               /\ ResponseEvent(turns[k]).line = ResponseLine(turns[k])
    BY DEF ModelEvent, RequestEvent, ResponseEvent, ResponseLine
  <1>3. /\ requests \in Seq(T) /\ Len(requests) \in 0..1
        /\ Len(requests) = 1 => requests[1].role = "request" /\ requests[1].line = n
        /\ \A k \in 1..Len(turns) : turns[k].req = n => requests = <<RequestEvent(turns[k])>>
    <2>1. CASE \A i \in 1..Len(turns) : turns[i].req # n
      <3>1. requests = <<>>
        BY <2>1, <1>2, ModelEventsOf
      <3> HIDE DEF requests, T
      <3>2. requests \in Seq(T) /\ Len(requests) = 0
        BY <3>1
      <3> QED
        BY <2>1, <3>2
    <2>2. CASE ~ \A i \in 1..Len(turns) : turns[i].req # n
      <3>1. PICK k \in 1..Len(turns) : turns[k].req = n
        BY <2>2
      <3>2. \A l \in 1..Len(turns) : turns[l].req = n => requests = <<RequestEvent(turns[l])>>
        BY <1>2, ModelEventsOf
      <3>3. requests = <<RequestEvent(turns[k])>> /\ RequestEvent(turns[k]) \in T
        BY <3>1, <3>2 DEF RowEvent
      <3> HIDE DEF requests, T
      <3>4. Len(requests) = 1 /\ requests[1] = RequestEvent(turns[k]) /\ requests \in Seq(T)
        BY <3>3
      <3> QED
        BY <3>1, <3>2, <3>4, <1>2
    <2> QED
      BY <2>1, <2>2
  <1>4. /\ responses \in Seq(T) /\ Len(responses) \in 0..1
        /\ Len(responses) = 1 => responses[1].role = "response" /\ responses[1].line = n
        /\ \A k \in 1..Len(turns) : ResponseLine(turns[k]) = n =>
              responses = <<ResponseEvent(turns[k])>>
    <2>1. CASE \A i \in 1..Len(turns) : ResponseLine(turns[i]) # n
      <3>1. responses = <<>>
        BY <2>1, <1>2, ModelEventsOf
      <3> HIDE DEF responses, T
      <3>2. responses \in Seq(T) /\ Len(responses) = 0
        BY <3>1
      <3> QED
        BY <2>1, <3>2
    <2>2. CASE ~ \A i \in 1..Len(turns) : ResponseLine(turns[i]) # n
      <3>1. PICK k \in 1..Len(turns) : ResponseLine(turns[k]) = n
        BY <2>2
      <3>2. \A l \in 1..Len(turns) : ResponseLine(turns[l]) = n => responses = <<ResponseEvent(turns[l])>>
        BY <1>2, ModelEventsOf
      <3>3. responses = <<ResponseEvent(turns[k])>> /\ ResponseEvent(turns[k]) \in T
        BY <3>1, <3>2 DEF RowEvent
      <3> HIDE DEF responses, T
      <3>4. Len(responses) = 1 /\ responses[1] = ResponseEvent(turns[k]) /\ responses \in Seq(T)
        BY <3>3
      <3> QED
        BY <3>1, <3>2, <3>4, <1>2
    <2> QED
      BY <2>1, <2>2
  <1>5. /\ own \in Seq(T) /\ Len(own) \in 0..1
        /\ Len(own) = 1 => own[1].line = n /\ own[1].role \notin {"request", "response"}
    <2>1. OwnEvent(rows, n) \in T
      BY DEF RowEvent
    <2>2. OwnEvent(rows, n).line = n /\ OwnEvent(rows, n).role \notin {"request", "response"}
      <3>1. rows[n].type \in {"model.request", "model.response", "tool.call", "tool.result", "other"}
        BY RowType, RowTypesAssumption
      <3> QED
        BY <3>1 DEF OwnEvent
    <2> HIDE DEF T
    <2> QED
      BY <2>1, <2>2
  <1>6. \A k \in 1..Len(turns) : turns[k].req = n => Len(requests) = 1
    <2> HIDE DEF requests
    <2> QED
      BY <1>3
  <1>7. \A k \in 1..Len(turns) : ResponseLine(turns[k]) = n => Len(responses) = 1
    <2> HIDE DEF responses
    <2> QED
      BY <1>4
  <1>8. \A k \in 1..Len(turns) : turns[k].req = n => requests[1] = RequestEvent(turns[k])
    <2> HIDE DEF requests
    <2> QED
      BY <1>3
  <1>9. \A k \in 1..Len(turns) : ResponseLine(turns[k]) = n => responses[1] = ResponseEvent(turns[k])
    <2> HIDE DEF responses
    <2> QED
      BY <1>4
  <1> DEFINE a == Len(requests)
             b == Len(own)
             c == Len(responses)
  <1> HIDE DEF T, requests, own, responses, events
  <1>10. /\ events \in Seq(T) /\ Len(events) = a + b + c
         /\ \A q \in 1..a : events[q] = requests[q]
         /\ \A q \in 1..b : events[a + q] = own[q]
         /\ \A q \in 1..c : events[a + b + q] = responses[q]
    BY <1>1, <1>3, <1>4, <1>5
  <1>11. a \in 0..1 /\ b \in 0..1 /\ c \in 0..1
    BY <1>3, <1>4, <1>5
  <1>12. /\ a = 1 => events[1].role = "request" /\ events[1].line = n
         /\ b = 1 => events[a + 1].role \notin {"request", "response"} /\ events[a + 1].line = n
         /\ c = 1 => events[a + b + 1].role = "response" /\ events[a + b + 1].line = n
    BY <1>3, <1>4, <1>5, <1>10
  <1> HIDE DEF a, b, c
  <1>13. ASSUME NEW q \in 1..Len(events)
         PROVE  /\ events[q].line = n
                /\ events[q].role = "request" => q = 1
                /\ events[q].role = "response" => q = Len(events)
    <2>1. \/ a = 1 /\ q = 1
          \/ b = 1 /\ q = a + 1
          \/ c = 1 /\ q = a + b + 1 /\ q = Len(events)
      BY <1>10, <1>11
    <2>2. a = 0 => a + 1 = 1
      BY <1>11
    <2> QED
      BY <2>1, <2>2, <1>12
  <1>14. ASSUME NEW k \in 1..Len(turns), turns[k].req = n
         PROVE  a = 1 /\ Len(events) >= 1 /\ events[1] = RequestEvent(turns[k])
    <2>1. a = 1
      BY <1>6, <1>14 DEF a
    <2>2. Len(events) >= 1 /\ 1 \in 1..a
      BY <2>1, <1>10, <1>11
    <2>3. events[1] = requests[1]
      BY <2>2, <1>10
    <2> QED
      BY <2>1, <2>2, <2>3, <1>8, <1>14
  <1>15. ASSUME NEW k \in 1..Len(turns), ResponseLine(turns[k]) = n
         PROVE  /\ c = 1 /\ Len(events) >= 1
                /\ events[Len(events)] = ResponseEvent(turns[k])
    <2>1. c = 1
      BY <1>7, <1>15 DEF c
    <2>2. Len(events) >= 1 /\ 1 \in 1..c /\ Len(events) = a + b + 1
      BY <2>1, <1>10, <1>11
    <2>3. events[a + b + 1] = responses[1]
      BY <2>2, <1>10
    <2> QED
      BY <2>1, <2>2, <2>3, <1>9, <1>15
  <1>16. ASSUME NEW k \in 1..Len(turns), turns[k].req = n, ResponseLine(turns[k]) = n
         PROVE  Len(events) >= 2
    <2>1. a = 1 /\ c = 1
      BY <1>14, <1>15, <1>16
    <2> QED
      BY <2>1, <1>10, <1>11
  <1> QED
    BY <1>10, <1>13, <1>14, <1>15, <1>16 DEF events, T

(* What AppendLine leaves the log.                                         *)
LEMMA LinesAreRows == TurnLogSpec => [](lines \in Seq(LogRow))
  <1>1. TurnLogInit => lines \in Seq(LogRow)
    BY DEF TurnLogInit
  <1>2. lines \in Seq(LogRow) /\ [AppendLine]_lines => (lines \in Seq(LogRow))'
    <2> SUFFICES ASSUME lines \in Seq(LogRow), [AppendLine]_lines
                 PROVE  (lines \in Seq(LogRow))'
      OBVIOUS
    <2>1. ASSUME NEW type \in RowTypes, NEW key \in RowKeys,
                 lines' = Append(lines, [id |-> Len(lines) + 1, type |-> type, key |-> key])
          PROVE  lines' \in Seq(LogRow)
      <3> DEFINE row == [id |-> Len(lines) + 1, type |-> type, key |-> key]
      <3>1. row \in LogRow
        BY DEF LogRow
      <3> HIDE DEF row
      <3>2. lines' = Append(lines, row)
        BY <2>1 DEF row
      <3> QED
        BY <3>1, <3>2
    <2> QED
      BY <2>1 DEF AppendLine
  <1> QED
    BY <1>1, <1>2, PTL DEF TurnLogSpec

(* build_turns (llm/turn_builders/claude_code.py:219-306): each row in one *)
(* turn, and no result lost that a later turn could have taken.            *)
THEOREM EachRowInOneTurn == TurnLogSpec => []RowsBelongToTurns
  <1>1. lines \in Seq(LogRow) => RowsBelongToTurns
    <2> SUFFICES ASSUME lines \in Seq(LogRow) PROVE RowsBelongToTurns
      OBVIOUS
    <2> DEFINE turns == BuildTurns(lines)
               With(n) == {i \in DOMAIN turns : n \in MembersOf(turns[i])}
    <2>1. AreTurns(lines, turns)
      BY TurnsOfLog
    <2> HIDE DEF turns
    <2>2. DOMAIN lines = 1..Len(lines) /\ DOMAIN turns = 1..Len(turns)
      BY <2>1 DEF AreTurns
    <2>3. ASSUME NEW n \in DOMAIN lines PROVE Cardinality(With(n)) <= 1
      <3>1. \A i, j \in With(n) : i = j
        BY <2>1, <2>2, OneTurn
      <3> HIDE DEF With
      <3>2. CASE With(n) = {}
        BY <3>2, FS_EmptySet
      <3>3. CASE With(n) # {}
        <4>1. PICK i : i \in With(n)
          BY <3>3
        <4>2. With(n) = {i}
          BY <3>1, <4>1
        <4>3. Cardinality({i}) = 1
          BY FS_Singleton
        <4> QED
          BY <4>2, <4>3
      <3> QED
        BY <3>2, <3>3
    <2>4. ASSUME NEW n \in DOMAIN lines, lines[n].type # "other", With(n) = {}
          PROVE  \A k \in DOMAIN lines : (k >= n /\ lines[k].key = lines[n].key) =>
                    lines[k].type \in {"tool.result", "other"}
      <3>1. ~ \E i \in 1..Len(turns) : n \in MembersOf(turns[i])
        BY <2>2, <2>4
      <3> QED
        BY <3>1, <2>1, <2>2, <2>4 DEF AreTurns
    <2>5. ASSUME NEW n \in DOMAIN lines, lines[n].type \notin {"tool.result", "other"}
          PROVE  With(n) # {}
      <3>1. n >= n
        BY <2>2
      <3> QED
        BY <3>1, <2>4, <2>5
    <2>6. ASSUME NEW n \in RowsOf("tool.result"), With(n) = {}, NEW m \in DOMAIN lines,
                 m > n, lines[m].key = lines[n].key
          PROVE  lines[m].type \in {"tool.result", "other"}
      <3>1. n \in DOMAIN lines /\ lines[n].type = "tool.result" /\ m >= n
        BY <2>2, <2>6 DEF RowsOf
      <3> QED
        BY <3>1, <2>4, <2>6
    <2> QED
      BY <2>3, <2>5, <2>6 DEF RowsBelongToTurns, Turns, turns
  <1> QED
    BY <1>1, LinesAreRows, PTL

(* The turns that interleaved sessions make: those of one session and run  *)
(* never interleave, and a response ends its turn.                         *)
THEOREM TurnsFollowOneAnother == TurnLogSpec => []TurnsDoNotOverlap
  <1>1. lines \in Seq(LogRow) => TurnsDoNotOverlap
    <2> SUFFICES ASSUME lines \in Seq(LogRow) PROVE TurnsDoNotOverlap
      OBVIOUS
    <2> DEFINE turns == BuildTurns(lines)
    <2>1. AreTurns(lines, turns)
      BY TurnsOfLog
    <2> HIDE DEF turns
    <2>2. DOMAIN turns = 1..Len(turns)
      BY <2>1 DEF AreTurns
    <2>3. ASSUME NEW i \in 1..Len(turns)
          PROVE  /\ \A n \in MembersOf(turns[i]) : n \in 1..Len(lines)
                 /\ turns[i].req \in MembersOf(turns[i])
                 /\ turns[i].resp # Unanswered => \A n \in MembersOf(turns[i]) : n <= turns[i].resp
      BY <2>1 DEF AreTurns, IsTurn, MembersOf
    <2>4. ASSUME NEW i \in 1..Len(turns), NEW j \in 1..Len(turns),
                 turns[i].key = turns[j].key, turns[i].req < turns[j].req,
                 NEW n \in MembersOf(turns[i])
          PROVE  n < turns[j].req
      <3>0. turns[i].req \in 1..Len(lines) /\ turns[j].req \in 1..Len(lines)
        BY <2>3
      <3>1. i # j
        BY <3>0, <2>4
      <3>2. ~(turns[j].req < turns[i].req)
        BY <3>0, <2>4
      <3>3. \/ Precede(MembersOf(turns[i]), MembersOf(turns[j]))
            \/ Precede(MembersOf(turns[j]), MembersOf(turns[i]))
        BY <3>1, <2>1, <2>4 DEF AreTurns
      <3> QED
        BY <3>2, <3>3, <2>3 DEF Precede
    <2> QED
      BY <2>2, <2>3, <2>4 DEF TurnsDoNotOverlap, Turns, turns
  <1> QED
    BY <1>1, LinesAreRows, PTL

(* The events of the whole log, row by row.                                *)
LogEvent(rows, turns) == UNION {RowEvent(rows, turns, n) : n \in 1..Len(rows)}

EventsByRow(rows, turns) == [n \in 1..Len(rows) |-> EventsOfRow(rows, turns, n)]

(* iter_events joins the events of the rows.                               *)
LEMMA EventsRowByRow ==
    ASSUME NEW rows \in Seq(LogRow), NEW turns, turns = BuildTurns(rows)
    PROVE  /\ EventsByRow(rows, turns) \in Seq(Seq(LogEvent(rows, turns)))
           /\ Len(EventsByRow(rows, turns)) = Len(rows)
           /\ ClaudeEvents(rows) = FlattenSeq(EventsByRow(rows, turns))
           /\ ClaudeEvents(rows) \in Seq(LogEvent(rows, turns))
           /\ Flat(ClaudeEvents(rows), EventsByRow(rows, turns))
  <1> DEFINE T == LogEvent(rows, turns)
             parts == EventsByRow(rows, turns)
  <1>1. DOMAIN rows = 1..Len(rows) /\ Len(rows) \in Nat /\ AreTurns(rows, turns)
    BY TurnsOfLog
  <1>2. ASSUME NEW n \in 1..Len(rows)
        PROVE  EventsOfRow(rows, turns, n) \in Seq(T)
    <2>1. EventsOfRow(rows, turns, n) \in Seq(RowEvent(rows, turns, n))
      BY <1>1, RowEvents
    <2>2. RowEvent(rows, turns, n) \subseteq T
      BY DEF LogEvent
    <2> HIDE DEF T
    <2> QED
      BY <2>1, <2>2
  <1>3. parts \in [1..Len(rows) -> Seq(T)]
    <2> HIDE DEF T
    <2> QED
      BY <1>2 DEF EventsByRow
  <1>4. parts \in Seq(Seq(T)) /\ Len(parts) = Len(rows)
    <2> HIDE DEF T, parts
    <2> QED
      BY <1>1, <1>3
  <1>5. ClaudeEvents(rows) = FlattenSeq(parts)
    BY <1>1 DEF ClaudeEvents, EventsByRow
  <1>6. FlattenSeq(parts) \in Seq(T) /\ Flat(FlattenSeq(parts), parts)
    BY <1>4, FlattenPlaces
  <1> QED
    BY <1>4, <1>5, <1>6

(* The request event and the response event of a turn.                     *)
LEMMA ModelEventOfTurn ==
    ASSUME NEW rows \in Seq(LogRow), NEW turns, NEW n \in 1..Len(rows), NEW turn,
           NEW event \in RowEvent(rows, turns, n), event.turn = turn
    PROVE  /\ event.role = "request" => event.line = turn.req
           /\ event.role = "response" => event.line = ResponseLine(turn)
  <1>1. CASE event = OwnEvent(rows, n)
    <2>1. rows[n].type \in {"model.request", "model.response", "tool.call", "tool.result", "other"}
      BY RowType, RowTypesAssumption
    <2> QED
      BY <2>1, <1>1 DEF OwnEvent
  <1>2. ASSUME NEW i \in 1..Len(turns), event = RequestEvent(turns[i])
        PROVE  event.role # "response" /\ event.line = turn.req
    BY <1>2 DEF RequestEvent
  <1>3. ASSUME NEW i \in 1..Len(turns), event = ResponseEvent(turns[i])
        PROVE  event.role # "request" /\ event.line = ResponseLine(turn)
    BY <1>3 DEF ResponseEvent, ResponseLine
  <1> QED
    BY <1>1, <1>2, <1>3 DEF RowEvent

(* A turn has one request event and, after it, one response event.         *)
EventsAt(events, role, turn) ==
    {i \in DOMAIN events : events[i].role = role /\ events[i].turn = turn}

OneOfEach(events, turn) ==
    \E i, j \in DOMAIN events :
        /\ EventsAt(events, "request", turn) = {i} /\ EventsAt(events, "response", turn) = {j}
        /\ i < j

(* Events are in the order of their lines, and each turn has its two.      *)
LEMMA LogOrder ==
    ASSUME NEW rows \in Seq(LogRow), NEW turns, turns = BuildTurns(rows),
           NEW events, events = ClaudeEvents(rows)
    PROVE  /\ DOMAIN events = 1..Len(events) /\ DOMAIN turns = 1..Len(turns)
           /\ \A i, j \in 1..Len(events) : i < j => events[i].line <= events[j].line
           /\ \A k \in 1..Len(turns) : OneOfEach(events, turns[k])
  <1> DEFINE L == Len(rows)
             parts == EventsByRow(rows, turns)
  <1>1. /\ AreTurns(rows, turns) /\ events \in Seq(LogEvent(rows, turns))
        /\ Flat(events, parts) /\ Len(parts) = L /\ L \in Nat /\ turns \in Seq(TurnRecord)
    <2>1. AreTurns(rows, turns) /\ turns \in Seq(TurnRecord) /\ L \in Nat
      BY TurnsOfLog DEF AreTurns
    <2>2. events \in Seq(LogEvent(rows, turns)) /\ Flat(events, parts) /\ Len(parts) = L
      BY EventsRowByRow
    <2> QED
      BY <2>1, <2>2
  <1>2. \A n \in 1..L : parts[n] = EventsOfRow(rows, turns, n)
    BY DEF EventsByRow
  <1> HIDE DEF parts, L
  <1>3. PICK part, pos : ComesFrom(events, parts, part, pos)
    BY <1>1 DEF Flat
  <1>4. /\ \A i \in 1..Len(events) :
              part[i] \in 1..L /\ pos[i] \in 1..Len(parts[part[i]]) /\ events[i] = parts[part[i]][pos[i]]
        /\ \A i, j \in 1..Len(events) :
              i < j => part[i] < part[j] \/ (part[i] = part[j] /\ pos[i] < pos[j])
        /\ \A k \in 1..L : \A q \in 1..Len(parts[k]) :
              \E i \in 1..Len(events) : part[i] = k /\ pos[i] = q
    BY <1>1, <1>3 DEF ComesFrom
  <1>5. \A i, j \in 1..Len(events) : (part[i] = part[j] /\ pos[i] = pos[j]) => i = j
    <2> SUFFICES ASSUME NEW i \in 1..Len(events), NEW j \in 1..Len(events),
                        part[i] = part[j], pos[i] = pos[j], i # j
                 PROVE  FALSE
      OBVIOUS
    <2>1. part[i] \in Nat /\ pos[i] \in Nat
      <3>1. part[i] \in 1..L /\ pos[i] \in 1..Len(parts[part[i]])
        BY <1>4
      <3> QED
        BY <3>1
    <2>2. i < j \/ j < i
      OBVIOUS
    <2>3. ~(part[i] < part[j]) /\ ~(part[j] < part[i]) /\ ~(pos[i] < pos[j]) /\ ~(pos[j] < pos[i])
      BY <2>1
    <2> QED
      BY <2>2, <2>3, <1>4
  <1>6. ASSUME NEW n \in 1..L
        PROVE  /\ parts[n] \in Seq(RowEvent(rows, turns, n))
               /\ \A q \in 1..Len(parts[n]) :
                     /\ parts[n][q] \in RowEvent(rows, turns, n)
                     /\ parts[n][q].line = n
                     /\ parts[n][q].role = "request" => q = 1
                     /\ parts[n][q].role = "response" => q = Len(parts[n])
               /\ \A k \in 1..Len(turns) :
                     /\ turns[k].req = n => Len(parts[n]) >= 1 /\ parts[n][1] = RequestEvent(turns[k])
                     /\ ResponseLine(turns[k]) = n =>
                           Len(parts[n]) >= 1 /\ parts[n][Len(parts[n])] = ResponseEvent(turns[k])
                     /\ (turns[k].req = n /\ ResponseLine(turns[k]) = n) => Len(parts[n]) >= 2
    BY <1>1, <1>2, RowEvents DEF L
  <1>7. ASSUME NEW i \in 1..Len(events), NEW j \in 1..Len(events), i < j
        PROVE  events[i].line <= events[j].line
    <2>1. part[i] <= part[j] /\ part[i] \in 1..L /\ part[j] \in 1..L
      BY <1>4, <1>7
    <2>2. \A l \in 1..Len(events) : events[l].line = part[l]
      <3> TAKE l \in 1..Len(events)
      <3>1. /\ part[l] \in 1..L /\ pos[l] \in 1..Len(parts[part[l]])
            /\ events[l] = parts[part[l]][pos[l]]
        BY <1>4
      <3> QED
        BY <3>1, <1>6
    <2> QED
      BY <2>1, <2>2
  <1>8. ASSUME NEW k \in 1..Len(turns)
        PROVE  OneOfEach(events, turns[k])
    <2> DEFINE t == turns[k]
               n == t.req
               r == ResponseLine(t)
    <2>1. n \in 1..L /\ r \in 1..L /\ n <= r
      <3>1. IsTurn(rows, L, t)
        BY <1>1 DEF AreTurns, L
      <3>2. t.req \in MembersOf(t) /\ (t.resp # Unanswered => t.resp \in MembersOf(t))
        BY DEF MembersOf
      <3>3. t.req \in 1..L /\ (t.resp # Unanswered => t.resp \in 1..L /\ t.req <= t.resp)
        BY <3>1, <3>2 DEF IsTurn
      <3> QED
        BY <3>3 DEF ResponseLine
    <2>2. /\ Len(parts[n]) >= 1 /\ parts[n][1] = RequestEvent(t)
          /\ Len(parts[r]) >= 1 /\ parts[r][Len(parts[r])] = ResponseEvent(t)
          /\ n = r => Len(parts[n]) >= 2
          /\ Len(parts[n]) \in Nat /\ Len(parts[r]) \in Nat
      BY <2>1, <1>6
    <2> HIDE DEF t, n, r
    <2>3. PICK i \in 1..Len(events) : part[i] = n /\ pos[i] = 1
      BY <2>1, <2>2, <1>4
    <2>4. PICK j \in 1..Len(events) : part[j] = r /\ pos[j] = Len(parts[r])
      <3>1. \A q \in 1..Len(parts[r]) : \E l \in 1..Len(events) : part[l] = r /\ pos[l] = q
        BY <2>1, <1>4
      <3> DEFINE q == Len(parts[r])
      <3>2. q \in Nat /\ q >= 1
        BY <2>2
      <3> HIDE DEF q
      <3>3. q \in 1..q
        BY <3>2
      <3> QED
        BY <3>1, <3>3 DEF q
    <2>5. events[i] = RequestEvent(t) /\ events[j] = ResponseEvent(t)
      <3>1. events[i] = parts[part[i]][pos[i]] /\ events[j] = parts[part[j]][pos[j]]
        BY <1>4
      <3> QED
        BY <3>1, <2>2, <2>3, <2>4
    <2>6. ASSUME NEW l \in 1..Len(events), events[l].turn = t
          PROVE  /\ events[l].role = "request" => l = i
                 /\ events[l].role = "response" => l = j
      <3>1. /\ part[l] \in 1..L /\ pos[l] \in 1..Len(parts[part[l]])
            /\ events[l] = parts[part[l]][pos[l]]
        BY <1>4
      <3>2. /\ events[l] \in RowEvent(rows, turns, part[l]) /\ events[l].line = part[l]
            /\ events[l].role = "request" => pos[l] = 1
            /\ events[l].role = "response" => pos[l] = Len(parts[part[l]])
        BY <3>1, <1>6
      <3>3. /\ events[l].role = "request" => part[l] = n
            /\ events[l].role = "response" => part[l] = r
        <4>1. part[l] \in 1..Len(rows) /\ events[l] \in RowEvent(rows, turns, part[l])
          BY <3>1, <3>2 DEF L
        <4>2. /\ events[l].role = "request" => events[l].line = t.req
              /\ events[l].role = "response" => events[l].line = ResponseLine(t)
          BY <4>1, <2>6, ModelEventOfTurn
        <4> QED
          BY <4>2, <3>2 DEF n, r
      <3> QED
        BY <3>2, <3>3, <2>3, <2>4, <1>5
    <2>7. /\ events[i].role = "request" /\ events[i].turn = t
          /\ events[j].role = "response" /\ events[j].turn = t
      BY <2>5 DEF RequestEvent, ResponseEvent
    <2>8. i < j
      <3>1. i # j
        BY <2>7
      <3>2. ~(j < i)
        <4> SUFFICES ASSUME j < i PROVE FALSE
          OBVIOUS
        <4>1. r < n \/ (r = n /\ Len(parts[r]) < 1)
          BY <2>3, <2>4, <1>4
        <4> QED
          BY <4>1, <2>1, <2>2
      <3> QED
        BY <3>1, <3>2
    <2>9. EventsAt(events, "request", t) = {i} /\ EventsAt(events, "response", t) = {j}
      <3>1. DOMAIN events = 1..Len(events)
        BY <1>1
      <3> QED
        BY <3>1, <2>6, <2>7 DEF EventsAt
    <2>10. DOMAIN events = 1..Len(events)
      BY <1>1
    <2>11. OneOfEach(events, t)
      BY <2>8, <2>9, <2>10, Zenon DEF OneOfEach
    <2> QED
      BY <2>11 DEF t
  <1> QED
    BY <1>1, <1>7, <1>8

(* iter_events of claude_code (ingest/claude_code.py:112-140), for any log *)
(* of any number of interleaved sessions.                                  *)
THEOREM EventsFollowTheLog == TurnLogSpec => []EventsInLogOrder
  <1>1. lines \in Seq(LogRow) => EventsInLogOrder
    <2> SUFFICES ASSUME lines \in Seq(LogRow) PROVE EventsInLogOrder
      OBVIOUS
    <2> DEFINE events == ClaudeEvents(lines)
               turns == BuildTurns(lines)
    <2>0. events = ClaudeEvents(lines) /\ turns = BuildTurns(lines)
      OBVIOUS
    <2> HIDE DEF events, turns
    <2>1. /\ DOMAIN events = 1..Len(events) /\ DOMAIN turns = 1..Len(turns)
          /\ \A i, j \in 1..Len(events) : i < j => events[i].line <= events[j].line
      BY <2>0, LogOrder
    <2>2. \A k \in DOMAIN turns : OneOfEach(events, turns[k])
      BY <2>0, <2>1, LogOrder
    <2> QED
      BY <2>1, <2>2 DEF EventsInLogOrder, Turns, OneOfEach, EventsAt, events, turns
  <1> QED
    BY <1>1, LinesAreRows, PTL

-------------------------------------------------------------------------------
(* A row more, when no turn is open.                                       *)

(* Without an active turn none is added at the end.                        *)
LEMMA NoneOpen ==
    ASSUME NEW rows \in Seq(LogRow), NEW acc, TurnsFit(rows, acc, Len(rows)),
           DOMAIN acc.active = {}
    PROVE  StillActive(acc, rows) = <<>>
  <1>1. /\ StillActive(acc, rows) \in Seq(TurnRecord)
        /\ \A i \in 1..Len(StillActive(acc, rows)) : FALSE
    BY StillActiveTurns
  <1> DEFINE rest == StillActive(acc, rows)
  <1> HIDE DEF rest
  <1>2. rest \in Seq(TurnRecord) /\ \A i \in 1..Len(rest) : FALSE
    BY <1>1 DEF rest
  <1>3. Len(rest) \in Nat
    BY <1>2
  <1>4. Len(rest) = 0
    BY <1>2, <1>3
  <1>5. rest = <<>>
    BY <1>2, <1>4
  <1> QED
    BY <1>5 DEF rest

(* A single active turn is the one added at the end.                       *)
LEMMA OneOpen ==
    ASSUME NEW rows \in Seq(LogRow), NEW acc, TurnsFit(rows, acc, Len(rows)),
           NEW key, DOMAIN acc.active = {key}
    PROVE  StillActive(acc, rows) = <<acc.active[key]>>
  <1> DEFINE rest == StillActive(acc, rows)
  <1>1. /\ rest \in Seq(TurnRecord)
        /\ \A i \in 1..Len(rest) : rest[i].key = key /\ rest[i] = acc.active[key]
        /\ \A i, j \in 1..Len(rest) : i # j => rest[i].key # rest[j].key
        /\ \E i \in 1..Len(rest) : rest[i] = acc.active[key]
    BY StillActiveTurns
  <1> HIDE DEF rest
  <1> DEFINE R == Len(rest)
  <1>2. R \in Nat
    BY <1>1
  <1> HIDE DEF R
  <1>3. R >= 1
    BY <1>1, <1>2 DEF R
  <1>4. ~(R >= 2)
    <2> SUFFICES ASSUME R >= 2 PROVE FALSE
      OBVIOUS
    <2>1. 1 \in 1..R /\ 2 \in 1..R /\ 1 # 2
      BY <1>2
    <2> QED
      BY <2>1, <1>1 DEF R
  <1>5. R = 1
    BY <1>2, <1>3, <1>4
  <1>6. rest[1] = acc.active[key]
    BY <1>1, <1>5 DEF R
  <1>7. rest = <<acc.active[key]>>
    BY <1>1, <1>5, <1>6 DEF R
  <1> QED
    BY <1>7 DEF rest

(* The turns of a row that finds no turn active.                           *)
LEMMA StepFromNone ==
    ASSUME NEW rows \in Seq(LogRow), NEW n \in Nat, n + 1 \in 1..Len(rows), NEW acc,
           TurnsFit(rows, acc, n), DOMAIN acc.active = {}, NEW new, new = TurnStep(acc, rows, n + 1)
    PROVE  \/ new.built = acc.built /\ DOMAIN new.active = {}
           \/ \E turn \in TurnRecord :
                 /\ turn.req = n + 1 /\ turn.resp \in {Unanswered, n + 1}
                 /\ \/ new.built = Append(acc.built, turn) /\ DOMAIN new.active = {}
                    \/ new.built = acc.built /\ DOMAIN new.active = {turn.key}
                       /\ new.active[turn.key] = turn
  <1> DEFINE key == rows[n + 1].key
             first == Turn(rows, n + 1, acc.pending[key])
             called == [first EXCEPT !.uses = Append(@, n + 1)]
             answered == [first EXCEPT !.resp = n + 1]
  <1>1. key \in RowKeys /\ acc \in Turning /\ key \notin DOMAIN acc.active
        /\ n + 1 \in Nat \ {0}
    BY RowType DEF TurnsFit, ShapeFits
  <1>2. acc.pending[key] \in Seq(Nat)
    BY <1>1 DEF Turning
  <1>3. first \in TurnRecord /\ first.key = key /\ first.resp = Unanswered /\ first.req = n + 1
    BY <1>2, RowsOfNewTurn DEF Turn
  <1>4. TurnFor(acc, rows, n + 1) = first
    BY <1>1 DEF TurnFor
  <1> HIDE DEF first, key
  <1>5. /\ called \in TurnRecord /\ called.key = key /\ called.resp = Unanswered
        /\ answered \in TurnRecord /\ answered.key = key /\ answered.resp = n + 1
    BY <1>1, <1>3, RowJoinsTurn
  <1>6. called.req = n + 1 /\ answered.req = n + 1
    BY <1>3 DEF TurnRecord
  <1> HIDE DEF called, answered
  <1>7. ASSUME NEW turn \in TurnRecord, turn.key = key, new = Activate(acc, turn)
        PROVE  new.built = acc.built /\ DOMAIN new.active = {turn.key} /\ new.active[turn.key] = turn
    <2>1. /\ new \in Turning /\ new.built = acc.built /\ SameBut(turn.key, acc, new)
          /\ turn.key \in DOMAIN new.active /\ new.active[turn.key] = turn
      BY <1>1, <1>7, Activated
    <2>2. DOMAIN new.active \subseteq RowKeys
      BY <2>1 DEF Turning
    <2>3. DOMAIN new.active = {turn.key}
      BY <2>1, <2>2 DEF SameBut
    <2> QED
      BY <2>1, <2>3
  <1> DEFINE type == rows[n + 1].type
  <1>8. type \in {"model.request", "model.response", "tool.call", "tool.result", "other"}
    BY RowType, RowTypesAssumption
  <1>9. CASE type = "model.request"
    <2>1. new = Activate(acc, first)
      BY <1>1, <1>9 DEF TurnStep, OnRequest, first, key
    <2> QED
      BY <2>1, <1>3, <1>7
  <1>10. CASE type = "tool.call"
    <2>1. new = Activate(acc, called)
      BY <1>4, <1>10 DEF TurnStep, OnToolCall, called
    <2> QED
      BY <2>1, <1>5, <1>6, <1>7
  <1>11. CASE type = "model.response"
    <2> DEFINE closed == Deactivate(acc, key)
    <2>1. new = Build(closed, answered)
      BY <1>4, <1>11 DEF TurnStep, OnResponse, answered, key
    <2>2. closed \in Turning /\ closed.built = acc.built /\ SameBut(key, acc, closed)
          /\ key \notin DOMAIN closed.active
      BY <1>1, Deactivated
    <2> HIDE DEF closed
    <2>3. DOMAIN closed.active = {}
      <3>1. DOMAIN closed.active \subseteq RowKeys
        BY <2>2 DEF Turning
      <3> QED
        BY <3>1, <2>2 DEF SameBut
    <2>4. new.built = Append(acc.built, answered) /\ new.active = closed.active
      BY <2>1, <2>2, <1>5, Built
    <2> QED
      BY <2>3, <2>4, <1>5, <1>6
  <1>12. CASE type = "tool.result"
    <2>1. new = [acc EXCEPT !.pending[key] = Append(@, n + 1)]
      BY <1>1, <1>12 DEF TurnStep, OnToolResult, key
    <2>2. new.built = acc.built /\ new.active = acc.active
      BY <2>1, <1>1 DEF Turning
    <2> QED
      BY <2>2
  <1>13. CASE type = "other"
    <2>1. new = acc
      BY <1>13 DEF TurnStep
    <2> QED
      BY <2>1
  <1> QED
    BY <1>8, <1>9, <1>10, <1>11, <1>12, <1>13

(* With none open, a row leaves the turns and adds at most one.            *)
LEMMA TurnsStay ==
    ASSUME NEW rows \in Seq(LogRow), NEW row \in LogRow, OpenTurns(rows) = {}
    PROVE  LET more == Append(rows, row)
           IN  \/ BuildTurns(more) = BuildTurns(rows)
               \/ \E turn \in TurnRecord :
                     /\ turn.req = Len(more) /\ turn.resp \in {Unanswered, Len(more)}
                     /\ BuildTurns(more) = Append(BuildTurns(rows), turn)
  <1> DEFINE more == Append(rows, row)
             L == Len(rows)
             acc == TurnsAfter(rows)[L]
             new == TurnsAfter(more)[L + 1]
  <1>1. L \in Nat /\ more \in Seq(LogRow) /\ Len(more) = L + 1 /\ L + 1 \in 1..Len(more)
    OBVIOUS
  <1>2. DOMAIN acc.active = {}
    BY DEF OpenTurns
  <1>3. TurnsFit(rows, acc, L)
    <2>1. L \in 0..L
      BY <1>1
    <2> QED
      BY <2>1, TurnsFitAll
  <1>4. BuildTurns(rows) = acc.built \o StillActive(acc, rows)
    BY DEF BuildTurns
  <1>5. BuildTurns(more) = new.built \o StillActive(new, more)
    BY <1>1 DEF BuildTurns
  <1> HIDE DEF more
  <1>6. TurnsAfter(more)[L] = acc
    <2>1. L \in 0..L
      BY <1>1
    <2> QED
      BY <2>1, TurnsSoFar DEF more
  <1>7. TurnsFit(more, acc, L) /\ TurnsFit(more, new, L + 1)
    <2>1. L \in 0..Len(more) /\ L + 1 \in 0..Len(more)
      BY <1>1
    <2>2. TurnsFit(more, TurnsAfter(more)[L], L)
      BY <2>1, <1>1, TurnsFitAll
    <2> QED
      BY <2>1, <2>2, <1>1, <1>6, TurnsFitAll
  <1>8. new = TurnStep(acc, more, L + 1)
    <2>1. Len(more) \in Nat /\ (L + 1) - 1 = L
      BY <1>1
    <2>2. TurnsAfter(more)[L + 1] = TurnStep(TurnsAfter(more)[(L + 1) - 1], more, L + 1)
      BY <2>1, <1>1, TurnSteps
    <2> QED
      BY <2>1, <2>2, <1>6
  <1> HIDE DEF acc, new, L
  <1>9. acc.built \in Seq(TurnRecord)
    BY <1>3, BuiltType DEF TurnsFit, ShapeFits
  <1>10. BuildTurns(rows) = acc.built
    <2>1. StillActive(acc, rows) = <<>>
      BY <1>2, <1>3, NoneOpen DEF L
    <2> QED
      BY <2>1, <1>4, <1>9
  <1>11. \/ new.built = acc.built /\ DOMAIN new.active = {}
         \/ \E turn \in TurnRecord :
               /\ turn.req = L + 1 /\ turn.resp \in {Unanswered, L + 1}
               /\ \/ new.built = Append(acc.built, turn) /\ DOMAIN new.active = {}
                  \/ new.built = acc.built /\ DOMAIN new.active = {turn.key}
                     /\ new.active[turn.key] = turn
    BY <1>1, <1>2, <1>7, <1>8, StepFromNone
  <1>12. ASSUME DOMAIN new.active = {}, new.built \in Seq(TurnRecord)
         PROVE  BuildTurns(more) = new.built
    <2>1. StillActive(new, more) = <<>>
      BY <1>1, <1>7, <1>12, NoneOpen
    <2> QED
      BY <2>1, <1>5, <1>12
  <1>13. CASE new.built = acc.built /\ DOMAIN new.active = {}
    BY <1>9, <1>10, <1>12, <1>13 DEF more
  <1>14. ASSUME NEW turn \in TurnRecord, turn.req = L + 1, turn.resp \in {Unanswered, L + 1},
                \/ new.built = Append(acc.built, turn) /\ DOMAIN new.active = {}
                \/ new.built = acc.built /\ DOMAIN new.active = {turn.key}
                   /\ new.active[turn.key] = turn
         PROVE  BuildTurns(more) = Append(BuildTurns(rows), turn)
    <2>1. CASE new.built = Append(acc.built, turn) /\ DOMAIN new.active = {}
      <3>1. new.built \in Seq(TurnRecord)
        BY <2>1, <1>9
      <3> QED
        BY <2>1, <3>1, <1>10, <1>12
    <2>2. CASE new.built = acc.built /\ DOMAIN new.active = {turn.key}
               /\ new.active[turn.key] = turn
      <3>1. StillActive(new, more) = <<turn>>
        BY <2>2, <1>1, <1>7, OneOpen
      <3>2. acc.built \o <<turn>> = Append(acc.built, turn)
        BY <1>9
      <3> QED
        BY <2>2, <3>1, <3>2, <1>5, <1>10
    <2> QED
      BY <1>14, <2>1, <2>2
  <1> QED
    BY <1>1, <1>11, <1>13, <1>14 DEF more

(* The events of the rows before stay with the turns.                      *)
LEMMA RowEventsStay ==
    ASSUME NEW rows \in Seq(LogRow), NEW row \in LogRow, OpenTurns(rows) = {},
           NEW n \in 1..Len(rows)
    PROVE  EventsOfRow(Append(rows, row), BuildTurns(Append(rows, row)), n)
              = EventsOfRow(rows, BuildTurns(rows), n)
  <1> DEFINE more == Append(rows, row)
             turns == BuildTurns(rows)
             longer == BuildTurns(more)
  <1>1. /\ more \in Seq(LogRow) /\ Len(rows) \in Nat /\ Len(more) = Len(rows) + 1
        /\ more[n] = rows[n] /\ n # Len(more)
    OBVIOUS
  <1>2. AreTurns(rows, turns) /\ AreTurns(more, longer) /\ turns \in Seq(TurnRecord)
    <2>1. AreTurns(rows, turns)
      BY TurnsOfLog
    <2>2. AreTurns(more, longer)
      BY <1>1, TurnsOfLog
    <2> QED
      BY <2>1, <2>2 DEF AreTurns
  <1>3. OwnEvent(more, n) = OwnEvent(rows, n)
    BY <1>1 DEF OwnEvent
  <1>4. longer = turns \/ \E turn \in TurnRecord :
           /\ turn.req = Len(more) /\ turn.resp \in {Unanswered, Len(more)}
           /\ longer = Append(turns, turn)
    BY TurnsStay
  <1> HIDE DEF turns, longer, more
  <1>5. ASSUME NEW role \in {"request", "response"}, longer # turns
        PROVE  ModelEvents(longer, role, n) = ModelEvents(turns, role, n)
    <2>1. PICK turn \in TurnRecord :
             /\ turn.req = Len(more) /\ turn.resp \in {Unanswered, Len(more)}
             /\ longer = Append(turns, turn)
      BY <1>4, <1>5
    <2> DEFINE K == Len(turns)
    <2>2. K \in Nat /\ Len(longer) = K + 1 /\ longer[K + 1] = turn
          /\ \A i \in 1..K : i \in 1..(K + 1) /\ longer[i] = turns[i]
      BY <2>1, <1>2
    <2>3. ModelEvent(turn, role).line # n
      BY <2>1, <1>1 DEF ModelEvent, RequestEvent, ResponseEvent
    <2> HIDE DEF K
    <2>4. CASE \E i \in 1..K : ModelEvent(turns[i], role).line = n
      <3>1. PICK i \in 1..K : ModelEvent(turns[i], role).line = n
        BY <2>4
      <3>2. ModelEvents(turns, role, n) = <<ModelEvent(turns[i], role)>>
        BY <3>1, <1>2, <1>5, ModelEventsOf DEF K
      <3>3. i \in 1..Len(longer) /\ longer[i] = turns[i]
        BY <2>2
      <3>4. ModelEvents(longer, role, n) = <<ModelEvent(longer[i], role)>>
        BY <3>1, <3>3, <1>2, <1>5, ModelEventsOf
      <3> QED
        BY <3>2, <3>3, <3>4
    <2>5. CASE \A i \in 1..K : ModelEvent(turns[i], role).line # n
      <3>1. ModelEvents(turns, role, n) = <<>>
        BY <2>5, <1>2, <1>5, ModelEventsOf DEF K
      <3>2. \A i \in 1..Len(longer) : ModelEvent(longer[i], role).line # n
        <4>1. \A i \in 1..(K + 1) : i \in 1..K \/ i = K + 1
          BY <2>2
        <4> QED
          BY <4>1, <2>2, <2>3, <2>5
      <3>3. ModelEvents(longer, role, n) = <<>>
        BY <3>2, <1>2, <1>5, ModelEventsOf
      <3> QED
        BY <3>1, <3>3
    <2> QED
      BY <2>4, <2>5
  <1>6. \A role \in {"request", "response"} :
           ModelEvents(longer, role, n) = ModelEvents(turns, role, n)
    BY <1>5
  <1>7. EventsOfRow(more, longer, n) = EventsOfRow(rows, turns, n)
    BY <1>1, <1>3, <1>6 DEF EventsOfRow
  <1> QED
    BY <1>7 DEF more, turns, longer

(* ... and so do those of the log.                                         *)
LEMMA EventsStay ==
    ASSUME NEW rows \in Seq(LogRow), NEW row \in LogRow, OpenTurns(rows) = {}
    PROVE  IsPrefix(ClaudeEvents(rows), ClaudeEvents(Append(rows, row)))
  <1> DEFINE more == Append(rows, row)
             L == Len(rows)
             turns == BuildTurns(rows)
             longer == BuildTurns(more)
             T == LogEvent(rows, turns) \cup LogEvent(more, longer)
             parts == EventsByRow(rows, turns)
             parts1 == EventsByRow(more, longer)
             last == EventsOfRow(more, longer, L + 1)
  <1>1. more \in Seq(LogRow) /\ L \in Nat /\ Len(more) = L + 1
    OBVIOUS
  <1>2. /\ parts \in Seq(Seq(T)) /\ Len(parts) = L
        /\ ClaudeEvents(rows) = FlattenSeq(parts) /\ ClaudeEvents(rows) \in Seq(T)
    <2>1. /\ parts \in Seq(Seq(LogEvent(rows, turns))) /\ Len(parts) = L
          /\ ClaudeEvents(rows) = FlattenSeq(parts)
          /\ ClaudeEvents(rows) \in Seq(LogEvent(rows, turns))
      BY EventsRowByRow
    <2>2. LogEvent(rows, turns) \subseteq T
      OBVIOUS
    <2> HIDE DEF T, parts, turns
    <2>3. Seq(LogEvent(rows, turns)) \subseteq Seq(T)
      BY <2>2
    <2>4. Seq(Seq(LogEvent(rows, turns))) \subseteq Seq(Seq(T))
      BY <2>3
    <2> QED
      BY <2>1, <2>3, <2>4
  <1>3. /\ parts1 \in Seq(Seq(T)) /\ Len(parts1) = L + 1
        /\ ClaudeEvents(more) = FlattenSeq(parts1)
    <2>1. /\ parts1 \in Seq(Seq(LogEvent(more, longer))) /\ Len(parts1) = L + 1
          /\ ClaudeEvents(more) = FlattenSeq(parts1)
      BY <1>1, EventsRowByRow
    <2>2. LogEvent(more, longer) \subseteq T
      OBVIOUS
    <2> HIDE DEF T, parts1, longer, more
    <2>3. Seq(LogEvent(more, longer)) \subseteq Seq(T)
      BY <2>2
    <2>4. Seq(Seq(LogEvent(more, longer))) \subseteq Seq(Seq(T))
      BY <2>3
    <2> QED
      BY <2>1, <2>4
  <1>4. /\ \A n \in 1..L : parts[n] = EventsOfRow(rows, turns, n)
        /\ \A n \in 1..(L + 1) : parts1[n] = EventsOfRow(more, longer, n)
    BY <1>1 DEF EventsByRow
  <1>5. \A n \in 1..L : EventsOfRow(more, longer, n) = EventsOfRow(rows, turns, n)
    BY RowEventsStay
  <1>6. parts1[L + 1] = last
    BY <1>1, <1>4
  <1> HIDE DEF T, parts, parts1, turns, longer, more, L, last
  <1>7. last \in Seq(T)
    <2>1. L + 1 \in 1..Len(parts1)
      BY <1>1, <1>3
    <2>2. parts1[L + 1] \in Seq(T)
      BY <2>1, <1>3
    <2> QED
      BY <2>2, <1>6
  <1>8. \A n \in 1..L : parts1[n] = parts[n]
    <2>1. \A n \in 1..L : n \in 1..(L + 1)
      BY <1>1
    <2> QED
      BY <2>1, <1>4, <1>5
  <1>9. parts1 = Append(parts, last)
    BY <1>1, <1>2, <1>3, <1>6, <1>7, <1>8
  <1>10. ClaudeEvents(more) = ClaudeEvents(rows) \o last
    BY <1>2, <1>3, <1>7, <1>9, FlattenAppend
  <1> DEFINE e == ClaudeEvents(rows)
  <1>11. e \in Seq(T) /\ ClaudeEvents(more) = e \o last
    BY <1>2, <1>10
  <1> HIDE DEF e
  <1>12. IsPrefix(e, e \o last)
    <2>1. Len(e) \in Nat /\ Len(e) <= Len(e \o last)
      BY <1>7, <1>11
    <2>2. SubSeq(e \o last, 1, Len(e)) = e /\ SubSeq(e, 1, Len(e)) = e
      BY <1>7, <1>11, <2>1
    <2> QED
      BY <2>1, <2>2 DEF IsPrefix
  <1> QED
    BY <1>11, <1>12 DEF e, more

(* Between two readings of a log (pack build, the watcher): what was read  *)
(* while no turn was open stays as it is.                                  *)
THEOREM ReadEventsStay == TurnLogSpec => ClosedTurnsAreFinal
  <1>1. /\ lines \in Seq(LogRow)
        /\ [AppendLine]_lines
        => [OpenTurns(lines) = {} => IsPrefix(ClaudeEvents(lines), ClaudeEvents(lines'))]_lines
    <2> SUFFICES ASSUME lines \in Seq(LogRow), AppendLine, OpenTurns(lines) = {}
                 PROVE  IsPrefix(ClaudeEvents(lines), ClaudeEvents(lines'))
      OBVIOUS
    <2>1. PICK type \in RowTypes, key \in RowKeys :
             lines' = Append(lines, [id |-> Len(lines) + 1, type |-> type, key |-> key])
      BY DEF AppendLine
    <2> DEFINE row == [id |-> Len(lines) + 1, type |-> type, key |-> key]
    <2>2. row \in LogRow
      BY DEF LogRow
    <2>3. lines' = Append(lines, row)
      BY <2>1
    <2> HIDE DEF row
    <2>4. IsPrefix(ClaudeEvents(lines), ClaudeEvents(Append(lines, row)))
      BY <2>2, EventsStay
    <2> QED
      BY <2>3, <2>4
  <1> QED
    BY <1>1, LinesAreRows, PTL DEF TurnLogSpec, ClosedTurnsAreFinal

-------------------------------------------------------------------------------
(* Logs of a watcher, and what each ingestor makes of them.                *)

(* A log is a sequence of rows.                                            *)
LEMMA LogIsSequence ==
    ASSUME NEW rows \in Logs
    PROVE  /\ rows \in Seq(Row) /\ Len(rows) \in 0..MaxRows /\ DOMAIN rows = 1..Len(rows)
           /\ rows \in Seq(LogRow)
  <1>1. MaxRows \in Nat
    BY WatchAssumption
  <1>2. PICK n \in 0..MaxRows : rows \in [1..n -> Row]
    BY DEF Logs
  <1>3. Row \subseteq LogRow
    BY <1>1 DEF Row, LogRow
  <1> QED
    BY <1>1, <1>2, <1>3

(* The empty log is one, ... *)
LEMMA EmptyLog == <<>> \in Logs
  <1>1. 0 \in 0..MaxRows
    BY WatchAssumption
  <1>2. <<>> \in [1..0 -> Row]
    OBVIOUS
  <1> QED
    BY <1>1, <1>2 DEF Logs

(* ... and so is a log with a row more, which has the ids of both.         *)
LEMMA LongerLog ==
    ASSUME NEW rows \in Logs, NEW row \in Row, Len(rows) < MaxRows
    PROVE  /\ Append(rows, row) \in Logs
           /\ Len(Append(rows, row)) = Len(rows) + 1
           /\ Ids(rows) \subseteq Ids(Append(rows, row))
  <1>1. MaxRows \in Nat
    BY WatchAssumption
  <1>2. rows \in Seq(Row) /\ Len(rows) \in 0..MaxRows /\ DOMAIN rows = 1..Len(rows)
    BY LogIsSequence
  <1> DEFINE longer == Append(rows, row)
  <1>3. longer \in Seq(Row) /\ Len(longer) = Len(rows) + 1 /\ DOMAIN longer = 1..(Len(rows) + 1)
    BY <1>2
  <1>4. longer \in [1..(Len(rows) + 1) -> Row] /\ Len(rows) + 1 \in 0..MaxRows
    <2> HIDE DEF longer
    <2>1. longer \in [1..Len(longer) -> Row]
      BY <1>3
    <2> QED
      BY <2>1, <1>1, <1>2, <1>3
  <1>5. longer \in Logs
    BY <1>4 DEF Logs
  <1>6. \A n \in DOMAIN rows : n \in DOMAIN longer /\ longer[n] = rows[n]
    BY <1>2, <1>3
  <1>7. Ids(rows) \subseteq Ids(longer)
    BY <1>6 DEF Ids
  <1> QED
    BY <1>3, <1>5, <1>7

(* The ids of a log are row numbers.                                       *)
LEMMA IdsAreRows == ASSUME NEW rows \in Logs PROVE Ids(rows) \subseteq 1..MaxRows
  <1>1. \A n \in DOMAIN rows : rows[n] \in Row
    BY LogIsSequence
  <1>2. \A row \in Row : row.id \in 1..MaxRows
    BY DEF Row
  <1> QED
    BY <1>1, <1>2 DEF Ids

(* The contents of a turn are those of its rows.                           *)
LEMMA ContentOfTurn ==
    ASSUME NEW rows \in Seq(LogRow), NEW n \in 1..Len(rows), NEW turn \in TurnRecord,
           IsTurn(rows, Len(rows), turn)
    PROVE  MembersOf(ContentOf(rows, turn)) \subseteq Ids(rows)
  <1> DEFINE content == ContentOf(rows, turn)
  <1>1. \A m \in MembersOf(turn) : rows[m].id \in Ids(rows)
    <2>1. DOMAIN rows = 1..Len(rows)
      OBVIOUS
    <2> QED
      BY <2>1 DEF IsTurn, Ids
  <1>2. /\ content.req = rows[turn.req].id
        /\ content.resp = IF turn.resp = Unanswered THEN turn.resp ELSE rows[turn.resp].id
        /\ content.uses = [i \in DOMAIN turn.uses |-> rows[turn.uses[i]].id]
        /\ content.results = [i \in DOMAIN turn.results |-> rows[turn.results[i]].id]
    BY DEF ContentOf, TurnRecord
  <1> HIDE DEF content
  <1>3. content.req \in Ids(rows)
    BY <1>1, <1>2 DEF MembersOf
  <1>4. {content.resp} \ {Unanswered} \subseteq Ids(rows)
    BY <1>1, <1>2 DEF MembersOf
  <1>5. ToSet(content.uses) \subseteq Ids(rows)
    <2>1. \A i \in DOMAIN turn.uses : turn.uses[i] \in MembersOf(turn)
      BY DEF MembersOf, ToSet
    <2> QED
      BY <2>1, <1>1, <1>2 DEF ToSet
  <1>6. ToSet(content.results) \subseteq Ids(rows)
    <2>1. \A i \in DOMAIN turn.results : turn.results[i] \in MembersOf(turn)
      BY DEF MembersOf, ToSet
    <2> QED
      BY <2>1, <1>1, <1>2 DEF ToSet
  <1>7. MembersOf(content) \subseteq Ids(rows)
    BY <1>3, <1>4, <1>5, <1>6 DEF MembersOf
  <1> QED
    BY <1>7 DEF content

(* What claude_code yields is made of the rows of the log.                 *)
LEMMA ClaudeIngested ==
    ASSUME NEW rows \in Seq(LogRow)
    PROVE  LET events == Events("claude_code", rows)
           IN  /\ events \in Seq(ToSet(events))
               /\ \A i \in 1..Len(events) : ContentsOf(events[i]) \subseteq Ids(rows)
  <1> DEFINE turns == BuildTurns(rows)
             lined == ClaudeEvents(rows)
             Told(event) == IF event.role \in {"request", "response"}
                              THEN [event EXCEPT !.turn = ContentOf(rows, @)] ELSE event
             events == Events("claude_code", rows)
  <1>1. AreTurns(rows, turns) /\ lined \in Seq(LogEvent(rows, turns)) /\ DOMAIN rows = 1..Len(rows)
    BY TurnsOfLog, EventsRowByRow
  <1>2. events = [i \in DOMAIN lined |-> Told(lined[i])]
    BY DEF Events
  <1>3. ASSUME NEW i \in 1..Len(turns)
        PROVE  /\ ContentsOf(Told(RequestEvent(turns[i]))) \subseteq Ids(rows)
               /\ ContentsOf(Told(ResponseEvent(turns[i]))) \subseteq Ids(rows)
    <2>1. turns[i] \in TurnRecord /\ IsTurn(rows, Len(rows), turns[i])
      BY <1>1 DEF AreTurns
    <2>2. turns[i].req \in 1..Len(rows)
      BY <2>1 DEF IsTurn, MembersOf
    <2>3. MembersOf(ContentOf(rows, turns[i])) \subseteq Ids(rows)
      BY <2>1, <2>2, ContentOfTurn
    <2>4. ASSUME NEW role \in {"request", "response"}, NEW line
          PROVE  LET event == Told([role |-> role, line |-> line, turn |-> turns[i]])
                 IN  event.turn = ContentOf(rows, turns[i]) /\ "row" \notin DOMAIN event
      OBVIOUS
    <2>5. /\ RequestEvent(turns[i])
               = [role |-> "request", line |-> turns[i].req, turn |-> turns[i]]
          /\ ResponseEvent(turns[i])
               = [role |-> "response", line |-> ResponseLine(turns[i]), turn |-> turns[i]]
      BY DEF RequestEvent, ResponseEvent, ResponseLine
    <2> HIDE DEF Told, turns
    <2> QED
      BY <2>3, <2>4, <2>5 DEF ContentsOf
  <1>4. ASSUME NEW n \in 1..Len(rows)
        PROVE  ContentsOf(Told(OwnEvent(rows, n))) \subseteq Ids(rows)
    <2>1. rows[n].type \in {"model.request", "model.response", "tool.call", "tool.result", "other"}
      BY RowType, RowTypesAssumption
    <2>2. Told(OwnEvent(rows, n)) = OwnEvent(rows, n)
      BY <2>1 DEF OwnEvent
    <2>3. "row" \in DOMAIN OwnEvent(rows, n) /\ OwnEvent(rows, n).row = rows[n].id
      BY DEF OwnEvent
    <2> HIDE DEF Told
    <2> QED
      BY <2>2, <2>3, <1>1 DEF ContentsOf, Ids
  <1> HIDE DEF Told, events, turns, lined
  <1>5. \A event \in LogEvent(rows, turns) : ContentsOf(Told(event)) \subseteq Ids(rows)
    BY <1>3, <1>4 DEF LogEvent, RowEvent
  <1>6. DOMAIN lined = 1..Len(lined) /\ Len(lined) \in Nat
        /\ \A i \in 1..Len(lined) : lined[i] \in LogEvent(rows, turns)
    <2> DEFINE T == LogEvent(rows, turns)
    <2>1. lined \in Seq(T)
      BY <1>1
    <2> HIDE DEF T
    <2>2. DOMAIN lined = 1..Len(lined) /\ Len(lined) \in Nat /\ \A i \in 1..Len(lined) : lined[i] \in T
      BY <2>1
    <2> QED
      BY <2>2 DEF T
  <1>7. \A i \in 1..Len(lined) : events[i] = Told(lined[i]) /\ events[i] \in ToSet(events)
    BY <1>2, <1>6 DEF ToSet
  <1>8. events \in [1..Len(lined) -> ToSet(events)]
    BY <1>2, <1>6, <1>7
  <1>9. events \in Seq(ToSet(events)) /\ Len(events) = Len(lined)
    <2> DEFINE T == ToSet(events)
    <2>1. events \in [1..Len(lined) -> T]
      BY <1>8
    <2> HIDE DEF T
    <2>2. events \in Seq(T) /\ Len(events) = Len(lined)
      BY <2>1, <1>6
    <2> QED
      BY <2>2 DEF T
  <1> QED
    BY <1>5, <1>6, <1>7, <1>9 DEF events

(* The events of a record of http_capture_jsonl.                           *)
CaptureRoles(row) ==
    <<"request", "response">> \o (IF row.type = "tool.call" THEN <<"tool.call">> ELSE <<>>)

CaptureEvent(rows, n, role) == [role |-> role, line |-> n, row |-> rows[n].id]

CapturesOfRow(rows, n) ==
    [i \in DOMAIN CaptureRoles(rows[n]) |-> CaptureEvent(rows, n, CaptureRoles(rows[n])[i])]

(* An event made of one row.                                               *)
Role == {"request", "response", "model.request", "model.response", "tool.call", "tool.result",
         "other"}

RowsEvent(rows) == [role : Role, line : Nat, row : Ids(rows)]

(* Those of one record.                                                    *)
LEMMA CapturedRowByRow ==
    ASSUME NEW rows \in Seq(LogRow), NEW n \in 1..Len(rows)
    PROVE  CapturesOfRow(rows, n) \in Seq(RowsEvent(rows))
  <1> DEFINE roles == CaptureRoles(rows[n])
             T == RowsEvent(rows)
  <1>1. roles \in Seq(Role)
    <2> DEFINE more == IF rows[n].type = "tool.call" THEN <<"tool.call">> ELSE <<>>
    <2>1. <<"request", "response">> \in Seq(Role) /\ <<"tool.call">> \in Seq(Role)
      <3>1. "request" \in Role /\ "response" \in Role /\ "tool.call" \in Role
        BY DEF Role
      <3> QED
        BY <3>1
    <2>2. more \in Seq(Role)
      BY <2>1
    <2>3. roles = <<"request", "response">> \o more
      BY DEF CaptureRoles
    <2> HIDE DEF more, roles
    <2> QED
      BY <2>1, <2>2, <2>3
  <1>2. rows[n].id \in Ids(rows)
    BY DEF Ids
  <1>3. \A role \in Role : CaptureEvent(rows, n, role) \in T
    BY <1>2 DEF CaptureEvent, RowsEvent
  <1> HIDE DEF roles, T
  <1>4. DOMAIN roles = 1..Len(roles) /\ Len(roles) \in Nat /\ \A i \in 1..Len(roles) : roles[i] \in Role
    BY <1>1
  <1>5. CapturesOfRow(rows, n) \in [1..Len(roles) -> T]
    BY <1>3, <1>4 DEF CapturesOfRow, roles
  <1>6. CapturesOfRow(rows, n) \in Seq(T)
    BY <1>4, <1>5
  <1> QED
    BY <1>6 DEF T

(* http_capture_jsonl joins the events of its records.                     *)
LEMMA CaptureIngested ==
    ASSUME NEW rows \in Seq(LogRow), NEW parts, parts = [n \in 1..Len(rows) |-> CapturesOfRow(rows, n)]
    PROVE  /\ CaptureEvents(rows) = FlattenSeq(parts)
           /\ parts \in Seq(Seq(RowsEvent(rows))) /\ Len(parts) = Len(rows)
           /\ CaptureEvents(rows) \in Seq(RowsEvent(rows))
  <1>1. DOMAIN rows = 1..Len(rows) /\ Len(rows) \in Nat
    OBVIOUS
  <1>2. CaptureEvents(rows) = FlattenSeq(parts)
    BY <1>1 DEF CaptureEvents, CapturesOfRow, CaptureRoles, CaptureEvent
  <1>3. parts \in [1..Len(rows) -> Seq(RowsEvent(rows))]
    BY CapturedRowByRow
  <1>4. parts \in Seq(Seq(RowsEvent(rows))) /\ Len(parts) = Len(rows)
    <2> DEFINE T == Seq(RowsEvent(rows))
    <2>1. parts \in [1..Len(rows) -> T]
      BY <1>3
    <2> HIDE DEF T
    <2>2. parts \in Seq(T) /\ Len(parts) = Len(rows)
      BY <2>1, <1>1
    <2> QED
      BY <2>2 DEF T
  <1> QED
    BY <1>2, <1>4, FlattenPlaces

(* generic_jsonl yields one event for each row.                            *)
LEMMA GenericIngested ==
    ASSUME NEW rows \in Seq(LogRow)
    PROVE  GenericEvents(rows) \in Seq(RowsEvent(rows)) /\ Len(GenericEvents(rows)) = Len(rows)
  <1> DEFINE T == RowsEvent(rows)
  <1>1. DOMAIN rows = 1..Len(rows) /\ Len(rows) \in Nat
    OBVIOUS
  <1>2. ASSUME NEW n \in 1..Len(rows) PROVE OwnEvent(rows, n) \in T
    <2>1. rows[n].id \in Ids(rows) /\ rows[n].type \in Role
      <3>1. rows[n].type \in {"model.request", "model.response", "tool.call", "tool.result", "other"}
        BY RowType, RowTypesAssumption
      <3> QED
        BY <3>1, <1>1 DEF Ids, Role
    <2> QED
      BY <2>1 DEF OwnEvent, RowsEvent
  <1> HIDE DEF T
  <1>3. GenericEvents(rows) \in [1..Len(rows) -> T]
    BY <1>1, <1>2 DEF GenericEvents
  <1>4. GenericEvents(rows) \in Seq(T) /\ Len(GenericEvents(rows)) = Len(rows)
    BY <1>1, <1>3
  <1> QED
    BY <1>4 DEF T

(* Every ingestor yields a sequence of events made of the log's rows.      *)
LEMMA MadeOfRows ==
    ASSUME NEW f \in Formats, NEW rows \in Seq(LogRow)
    PROVE  /\ Events(f, rows) \in Seq(ToSet(Events(f, rows)))
           /\ RowsIn(Events(f, rows)) \subseteq Ids(rows)
  <1> DEFINE events == Events(f, rows)
  <1>1. ASSUME events \in Seq(RowsEvent(rows))
        PROVE  /\ events \in Seq(ToSet(events))
               /\ \A i \in 1..Len(events) : ContentsOf(events[i]) \subseteq Ids(rows)
    <2> DEFINE T == RowsEvent(rows)
    <2>1. \A event \in T : ContentsOf(event) \subseteq Ids(rows)
      BY DEF RowsEvent, ContentsOf
    <2>2. events \in Seq(T)
      BY <1>1
    <2> HIDE DEF T, events
    <2>3. \A i \in 1..Len(events) : events[i] \in T /\ events[i] \in ToSet(events)
      BY <2>2 DEF ToSet
    <2>4. events \in Seq(ToSet(events))
      BY <2>2, <2>3
    <2> QED
      BY <2>1, <2>3, <2>4
  <1>2. /\ events \in Seq(ToSet(events))
        /\ \A i \in 1..Len(events) : ContentsOf(events[i]) \subseteq Ids(rows)
    <2>1. CASE f = "claude_code"
      BY <2>1, ClaudeIngested
    <2>2. CASE f = "http_capture_jsonl"
      <3>1. CaptureEvents(rows) \in Seq(RowsEvent(rows))
        BY CaptureIngested
      <3>2. events = CaptureEvents(rows)
        BY <2>2 DEF Events
      <3> HIDE DEF events
      <3> QED
        BY <3>1, <3>2, <1>1
    <2>3. CASE f = "generic_jsonl"
      <3>1. events = GenericEvents(rows)
        BY <2>3 DEF Events
      <3> HIDE DEF events
      <3> QED
        BY <3>1, GenericIngested, <1>1
    <2> QED
      BY <2>1, <2>2, <2>3 DEF Formats
  <1> HIDE DEF events
  <1>3. DOMAIN events = 1..Len(events)
    <2> DEFINE T == ToSet(events)
    <2>1. events \in Seq(T)
      BY <1>2
    <2> HIDE DEF T
    <2> QED
      BY <2>1
  <1>4. RowsIn(events) \subseteq Ids(rows)
    BY <1>2, <1>3 DEF RowsIn, ToSet
  <1> QED
    BY <1>2, <1>4 DEF events

(* No event is made of an empty log.                                       *)
LEMMA NothingOfNothing == ASSUME NEW f \in Formats PROVE Events(f, <<>>) = <<>>
  <1>1. <<>> \in Seq(LogRow) /\ Len(<<>>) = 0 /\ DOMAIN <<>> = 1..0
    OBVIOUS
  <1>2. FlattenSeq(<<>>) = <<>>
    BY DEF FlattenSeq
  <1>3. \A g : (DOMAIN g = 1..0 /\ g = [n \in 1..0 |-> g[n]]) => g = <<>>
    OBVIOUS
  <1>4. ClaudeEvents(<<>>) = <<>> /\ CaptureEvents(<<>>) = <<>> /\ GenericEvents(<<>>) = <<>>
    BY <1>1, <1>2 DEF ClaudeEvents, CaptureEvents, GenericEvents
  <1> QED
    BY <1>4 DEF Events, Formats

(* What grows only at its end.                                             *)
Extends(longer, shorter) ==
    /\ Len(shorter) <= Len(longer)
    /\ \A i \in 1..Len(shorter) : longer[i] = shorter[i]

(* Append, entry by entry.                                                 *)
LEMMA AppendOf ==
    ASSUME NEW U, NEW s \in Seq(U), NEW x \in U
    PROVE  [n \in 1..(Len(s) + 1) |-> IF n \in 1..Len(s) THEN s[n] ELSE x] = Append(s, x)
  <1> DEFINE f == [n \in 1..(Len(s) + 1) |-> IF n \in 1..Len(s) THEN s[n] ELSE x]
             g == Append(s, x)
             L == Len(s)
  <1>1. L \in Nat /\ g \in Seq(U) /\ Len(g) = L + 1
    OBVIOUS
  <1>2. \A n \in 1..(L + 1) : g[n] = IF n \in 1..L THEN s[n] ELSE x
    OBVIOUS
  <1> HIDE DEF g
  <1>3. g = [n \in 1..(L + 1) |-> g[n]]
    BY <1>1
  <1> QED
    BY <1>2, <1>3 DEF g

(* What the ingestors without turns yield of a log with a row more begins  *)
(* with what they yield of the log.                                        *)
LEMMA EventsGrow ==
    ASSUME NEW f \in Formats, f # "claude_code", NEW rows \in Seq(LogRow), NEW row \in LogRow
    PROVE  Extends(Events(f, Append(rows, row)), Events(f, rows))
  <1> DEFINE more == Append(rows, row)
             L == Len(rows)
  <1>1. /\ L \in Nat /\ more \in Seq(LogRow) /\ Len(more) = L + 1
        /\ \A n \in 1..L : more[n] = rows[n] /\ n \in 1..(L + 1)
        /\ L + 1 \in 1..(L + 1)
    OBVIOUS
  <1> HIDE DEF more, L
  <1>2. CASE f = "generic_jsonl"
    <2>1. /\ GenericEvents(more) = [n \in 1..(L + 1) |-> OwnEvent(more, n)]
          /\ GenericEvents(rows) = [n \in 1..L |-> OwnEvent(rows, n)]
      <3>1. DOMAIN more = 1..(L + 1) /\ DOMAIN rows = 1..L
        BY <1>1 DEF L
      <3> QED
        BY <3>1 DEF GenericEvents
    <2>2. \A n \in 1..L : OwnEvent(more, n) = OwnEvent(rows, n)
      BY <1>1 DEF OwnEvent
    <2>3. Len(GenericEvents(more)) = L + 1 /\ Len(GenericEvents(rows)) = L
      BY <1>1, GenericIngested DEF L
    <2>4. Events(f, more) = GenericEvents(more) /\ Events(f, rows) = GenericEvents(rows)
      BY <1>2 DEF Events
    <2>5. \A n \in 1..L : GenericEvents(more)[n] = GenericEvents(rows)[n]
      BY <2>1, <2>2, <1>1
    <2> QED
      BY <2>3, <2>4, <2>5, <1>1 DEF Extends, more
  <1>3. CASE f = "http_capture_jsonl"
    <2> DEFINE T == RowsEvent(more)
               parts == [n \in 1..L |-> CapturesOfRow(rows, n)]
               last == CapturesOfRow(more, L + 1)
               all == [n \in 1..(L + 1) |-> CapturesOfRow(more, n)]
    <2>1. /\ CaptureEvents(rows) = FlattenSeq(parts) /\ CaptureEvents(more) = FlattenSeq(all)
          /\ all \in Seq(Seq(T)) /\ Len(all) = L + 1
          /\ parts \in Seq(Seq(RowsEvent(rows))) /\ Len(parts) = L
      BY <1>1, CaptureIngested DEF L
    <2>2. \A n \in 1..L : CapturesOfRow(more, n) = CapturesOfRow(rows, n)
      BY <1>1 DEF CapturesOfRow, CaptureEvent
    <2>3. \A n \in 1..(L + 1) : all[n] \in Seq(T)
      <3> DEFINE U == Seq(T)
      <3>1. all \in Seq(U)
        BY <2>1
      <3> HIDE DEF U, all
      <3>2. \A n \in 1..(L + 1) : all[n] \in U
        BY <3>1, <2>1
      <3> QED
        BY <3>2 DEF U
    <2>4. parts \in [1..L -> Seq(T)] /\ last \in Seq(T)
      BY <2>2, <2>3, <1>1
    <2> HIDE DEF T
    <2>5. parts \in Seq(Seq(T))
      <3> DEFINE U == Seq(T)
      <3>1. parts \in [1..L -> U]
        BY <2>4
      <3> HIDE DEF U, parts
      <3>2. parts \in Seq(U)
        BY <3>1, <1>1
      <3> QED
        BY <3>2 DEF U
    <2>6. all = Append(parts, last)
      <3>1. all = [n \in 1..(L + 1) |-> IF n \in 1..L THEN parts[n] ELSE last]
        BY <2>2, <1>1
      <3> HIDE DEF parts, last, all
      <3> DEFINE U == Seq(T)
      <3>2. parts \in Seq(U) /\ Len(parts) = L /\ last \in U
        BY <2>1, <2>4, <2>5
      <3> HIDE DEF U
      <3> QED
        BY <3>1, <3>2, AppendOf
    <2> HIDE DEF parts, last, all
    <2>7. FlattenSeq(all) = FlattenSeq(parts) \o last
      BY <2>4, <2>5, <2>6, FlattenAppend
    <2>8. FlattenSeq(parts) \in Seq(T)
      BY <2>5, FlattenPlaces
    <2>9. Extends(FlattenSeq(parts) \o last, FlattenSeq(parts))
      <3> DEFINE flat == FlattenSeq(parts)
      <3>1. flat \in Seq(T)
        BY <2>8
      <3> HIDE DEF flat
      <3>2. Extends(flat \o last, flat)
        BY <3>1, <2>4 DEF Extends
      <3> QED
        BY <3>2 DEF flat
    <2>10. Events(f, more) = CaptureEvents(more) /\ Events(f, rows) = CaptureEvents(rows)
      BY <1>3 DEF Events
    <2> QED
      BY <2>1, <2>7, <2>9, <2>10 DEF more
  <1> QED
    BY <1>2, <1>3 DEF Formats

-------------------------------------------------------------------------------
(* The watcher.                                                            *)

(* The events that any log may yield.                                      *)
Event == UNION {ToSet(Events(f, rows)) : f \in Formats, rows \in Logs}

Pack == [whole : BOOLEAN, events : Seq(Event), rows : SUBSET (1..MaxRows)]

States == {"start", "poll", "check", "events", "artifacts", "remove", "move",
           "stopped", "crashed"}

(* Type correctness.                                                       *)
Typing ==
    /\ format \in Formats /\ limit \in Limits
    /\ fromStart \in BOOLEAN /\ idleTimeout \in BOOLEAN /\ withPack \in BOOLEAN
    /\ log \in Logs /\ current = Events(format, log)
    /\ written \in 0..MaxRows /\ Len(log) <= written
    /\ rotations \in 0..MaxRotations /\ half \in BOOLEAN
    /\ pc \in States /\ seen \in Nat
    /\ emitted \in Seq(Event) /\ tmp \in Pack /\ pack \in Pack

(* EmitsTheLog, event by event: the last one emitted is the last one seen. *)
EmittedSoFar ==
    /\ pc = "start" => emitted = <<>> /\ seen = 0
    /\ (AppendOnly /\ pc # "start") =>
          /\ Len(emitted) <= seen /\ seen <= Len(current)
          /\ \A i \in 1..Len(emitted) : emitted[i] = current[seen - Len(emitted) + i]
          /\ fromStart => seen = Len(emitted)

LimitKept ==
    limit # NoLimit =>
        /\ Len(emitted) <= limit
        /\ (pc = "stopped" /\ ~idleTimeout) => Len(emitted) = limit

(* What PackIsAhead asks of the pack at --out, of the one being built.     *)
Keeps(p) == AppendOnly => seen <= Len(p.events)

PackUnderWay ==
    rotations = 0 =>
        /\ pc = "artifacts" => Keeps(tmp) /\ RowsIn(tmp.events) \subseteq Ids(log)
        /\ pc \in {"remove", "move"} =>
              tmp.whole /\ Keeps(tmp) /\ RowsIn(tmp.events) \subseteq tmp.rows
        /\ (withPack /\ pc \in {"poll", "check", "stopped"}) =>
              pack.whole /\ Keeps(pack) /\ RowsIn(pack.events) \subseteq pack.rows

IInv == Typing /\ EmittedSoFar /\ LimitKept /\ PackUnderWay

(* What an ingestor yields is a sequence of events made of the log's rows. *)
LEMMA Ingested ==
    ASSUME NEW f \in Formats, NEW rows \in Logs
    PROVE  /\ Events(f, rows) \in Seq(Event)
           /\ RowsIn(Events(f, rows)) \subseteq Ids(rows)
  <1> DEFINE events == Events(f, rows)
  <1>1. events \in Seq(ToSet(events)) /\ RowsIn(events) \subseteq Ids(rows)
    BY LogIsSequence, MadeOfRows
  <1>2. ToSet(events) \subseteq Event
    BY DEF Event
  <1> HIDE DEF events
  <1>3. events \in Seq(Event)
    BY <1>1, <1>2
  <1> QED
    BY <1>1, <1>3 DEF events

-------------------------------------------------------------------------------
(* The parts of Poll.                                                      *)

(* The limit is a number, if there is one.                                 *)
LEMMA LimitIsNumber == ASSUME Typing, limit # NoLimit PROVE limit \in Nat
  BY WatchAssumption DEF Typing

(* A poll that emits takes the events after Base, at most Quota of them,   *)
(* and at least one.                                                       *)
LEMMA TakesNewEvents ==
    ASSUME Typing, Len(current) > Base, Quota > 0
    PROVE  /\ NewEvents \in Seq(Event)
           /\ Len(NewEvents) \in 1..Quota
           /\ Base + Len(NewEvents) <= Len(current)
           /\ \A i \in 1..Len(NewEvents) : NewEvents[i] = current[Base + i]
  <1>1. current \in Seq(Event) /\ Len(current) \in Nat
    BY Ingested DEF Typing
  <1>2. Base \in Nat
    BY <1>1 DEF Typing, Base
  <1>3. Quota \in Nat
    <2>1. CASE limit = NoLimit
      BY <2>1, <1>1 DEF Quota
    <2>2. CASE limit # NoLimit
      <3>1. limit \in Nat
        BY <2>2, LimitIsNumber
      <3>2. Len(emitted) \in Nat
        BY DEF Typing
      <3> QED
        BY <2>2, <3>1, <3>2 DEF Quota
    <2> QED
      BY <2>1, <2>2
  <1> DEFINE last == UpTo(Base + Quota)
  <1>4. last \in (Base + 1)..Len(current) /\ last <= Base + Quota
    BY <1>1, <1>2, <1>3 DEF UpTo
  <1> HIDE DEF last
  <1>5. NewEvents = SubSeq(current, Base + 1, last)
    BY DEF NewEvents, last
  <1>6. NewEvents \in Seq(Event) /\ Len(NewEvents) = last - Base
    BY <1>1, <1>2, <1>4, <1>5
  <1>7. \A i \in 1..Len(NewEvents) : NewEvents[i] = current[Base + i]
    BY <1>1, <1>2, <1>4, <1>5, <1>6
  <1> QED
    BY <1>1, <1>2, <1>3, <1>4, <1>6, <1>7

-------------------------------------------------------------------------------
(* The invariant.                                                          *)

(* Type correctness of a step.  NewEvents, the ids and the packs need the  *)
(* lemmas above; the rest is what each action assigns.                     *)
LEMMA TypingKept == Typing /\ [Next]_vars => Typing'
  <1> SUFFICES ASSUME Typing, [Next]_vars PROVE Typing'
    OBVIOUS
  <1>0. /\ current \in Seq(Event) /\ Len(current) \in Nat
        /\ Len(log) \in Nat /\ Len(emitted) \in Nat /\ Base \in Nat
        /\ MaxRows \in Nat /\ MaxRotations \in Nat
        /\ NoPack \in Pack /\ Ids(log) \subseteq 1..MaxRows
    <2>1. current \in Seq(Event) /\ Len(current) \in Nat
      BY Ingested DEF Typing
    <2>2. Len(log) \in Nat /\ Ids(log) \subseteq 1..MaxRows
      BY LogIsSequence, IdsAreRows DEF Typing
    <2>3. NoPack \in Pack
      BY DEF NoPack, Pack
    <2> QED
      BY <2>1, <2>2, <2>3, WatchAssumption DEF Typing, Base
  <1>1. ASSUME NEW type \in RowTypes, NEW key \in RowKeys, AppendRow(type, key) PROVE Typing'
    <2> DEFINE row == [id |-> written + 1, type |-> type, key |-> key]
    <2>1. written + 1 \in 1..MaxRows
      BY <1>0, <1>1 DEF AppendRow, Typing
    <2>2. row \in Row
      BY <2>1 DEF Row
    <2>3. Len(log) < MaxRows
      BY <1>0, <1>1 DEF AppendRow, Typing
    <2>4. log' = Append(log, row)
      BY <1>1 DEF AppendRow
    <2> HIDE DEF row
    <2>5. log' \in Logs /\ Len(log') = Len(log) + 1
      BY <2>2, <2>3, <2>4, LongerLog DEF Typing
    <2>6. written' = written + 1 /\ Len(log') <= written' /\ written' \in 0..MaxRows
      BY <2>1, <2>5, <1>0, <1>1 DEF AppendRow, Typing
    <2> QED
      BY <2>5, <2>6, <1>1 DEF AppendRow, Typing, options, packVars
  <1>2. CASE AppendHalf
    BY <1>2 DEF AppendHalf, Typing, options, packVars
  <1>3. CASE StartAnew
    <2>1. rotations' \in 0..MaxRotations
      BY <1>0, <1>3 DEF StartAnew, Typing
    <2>2. log' \in Logs /\ Len(log') = 0 /\ current' = Events(format, log')
      BY <1>3, EmptyLog, NothingOfNothing DEF StartAnew, Typing
    <2>3. Len(log') <= written
      BY <2>2, <1>0 DEF Typing
    <2> QED
      BY <2>1, <2>2, <2>3, <1>3 DEF StartAnew, Typing, options, packVars
  <1>4. CASE Start
    BY <1>0, <1>4 DEF Start, Crash, Typing, options, logVars, packVars, States
  <1>5. CASE PollRaises
    BY <1>5 DEF PollRaises, Crash, Typing, options, logVars, packVars, States
  <1>6. CASE PollFindsEvents
    <2>1. CASE Quota <= 0
      BY <1>0, <1>6, <2>1 DEF PollFindsEvents, Typing, options, logVars, packVars, States
    <2>2. CASE ~(Quota <= 0)
      <3>1. Len(current) > Base /\ Quota > 0
        <4>1. Quota \in Int
          BY <1>0, LimitIsNumber DEF Quota
        <4> QED
          BY <4>1, <1>6, <2>2 DEF PollFindsEvents
      <3>2. NewEvents \in Seq(Event)
        BY <3>1, TakesNewEvents
      <3>3. emitted' \in Seq(Event) /\ seen' \in Nat
        <4>1. emitted \in Seq(Event) /\ Len(NewEvents) \in Nat
          BY <3>2 DEF Typing
        <4>2. emitted' = emitted \o NewEvents /\ seen' = Base + Len(NewEvents)
          BY <1>6, <2>2 DEF PollFindsEvents
        <4> QED
          BY <4>1, <4>2, <3>2, <1>0
      <3>4. pc' \in States
        BY <1>6, <2>2 DEF PollFindsEvents, States
      <3> QED
        BY <3>3, <3>4, <1>6 DEF PollFindsEvents, Typing, options, logVars, packVars
    <2> QED
      BY <2>1, <2>2
  <1>7. CASE PollFindsNothing
    BY <1>0, <1>7 DEF PollFindsNothing, Typing, options, logVars, packVars, States
  <1>8. CASE Check
    BY <1>8 DEF Check, Typing, options, logVars, packVars, States
  <1>9. CASE SnapshotEvents
    <2>1. [whole |-> FALSE, events |-> current, rows |-> {}] \in Pack
      BY <1>0 DEF Pack
    <2> QED
      BY <2>1, <1>9 DEF SnapshotEvents, Crash, Typing, options, logVars, packVars, States
  <1>10. CASE SnapshotArtifacts
    <2>1. [tmp EXCEPT !.whole = TRUE, !.rows = Ids(log)] \in Pack
      BY <1>0 DEF Pack, Typing
    <2> QED
      BY <2>1, <1>10 DEF SnapshotArtifacts, Crash, Typing, options, logVars, packVars, States
  <1>11. CASE RemoveOldPack
    BY <1>0, <1>11 DEF RemoveOldPack, Typing, options, logVars, States
  <1>12. CASE MoveNewPack
    BY <1>0, <1>12 DEF MoveNewPack, Typing, options, logVars, States
  <1>13. CASE Kill
    BY <1>13 DEF Kill, Crash, Typing, options, logVars, packVars, States
  <1>14. CASE UNCHANGED vars
    BY <1>14 DEF Typing, vars, options, logVars, packVars
  <1> QED
    BY <1>1, <1>2, <1>3, <1>4, <1>5, <1>6, <1>7, <1>8, <1>9, <1>10, <1>11, <1>12, <1>13, <1>14
    DEF Next, Watcher

(* No step makes the events of an append-only log other than longer, or    *)
(* loses a row, as long as the log is not started anew.                    *)
LEMMA LogGrows ==
    ASSUME Typing, [Next]_vars, rotations' = 0
    PROVE  /\ rotations = 0 /\ Ids(log) \subseteq Ids(log')
           /\ AppendOnly' => AppendOnly /\ Extends(current', current)
           /\ UNCHANGED <<fromStart, limit, idleTimeout, withPack>>
  <1>0. current \in Seq(Event) /\ Len(current) \in Nat
    BY Ingested DEF Typing
  <1>1. ASSUME NEW type \in RowTypes, NEW key \in RowKeys, AppendRow(type, key)
        PROVE  Ids(log) \subseteq Ids(log') /\ (AppendOnly => Extends(current', current))
    <2> DEFINE row == [id |-> written + 1, type |-> type, key |-> key]
    <2>1. row \in Row /\ Len(log) < MaxRows
      <3>1. Len(log) \in Nat /\ MaxRows \in Nat
        BY LogIsSequence, WatchAssumption DEF Typing
      <3>2. written + 1 \in 1..MaxRows /\ Len(log) < MaxRows
        BY <3>1, <1>1 DEF AppendRow, Typing
      <3> QED
        BY <3>2 DEF Row
    <2>2. log' = Append(log, row) /\ current' = Events(format, log')
      BY <1>1 DEF AppendRow
    <2> HIDE DEF row
    <2>3. Ids(log) \subseteq Ids(log')
      BY <2>1, <2>2, LongerLog DEF Typing
    <2>4. AppendOnly => Extends(current', current)
      <3>1. /\ log \in Seq(LogRow) /\ format \in Formats /\ current = Events(format, log)
            /\ current' = Events(format, Append(log, row))
        BY <2>2, LogIsSequence DEF Typing
      <3>2. row \in LogRow
        BY <2>1, WatchAssumption DEF Row, LogRow
      <3> QED
        BY <3>1, <3>2, EventsGrow DEF AppendOnly
    <2> QED
      BY <2>3, <2>4
  <1>2. ASSUME UNCHANGED <<log, current>>
        PROVE  Ids(log) \subseteq Ids(log') /\ Extends(current', current)
    BY <1>0, <1>2 DEF Extends
  <1>3. \/ \E type \in RowTypes, key \in RowKeys : AppendRow(type, key)
        \/ UNCHANGED <<log, current>>
    <2>1. CASE StartAnew
      BY <2>1 DEF StartAnew, Typing
    <2>2. CASE Watcher \/ Kill \/ AppendHalf \/ UNCHANGED vars
      BY <2>2 DEF Watcher, Start, PollRaises, PollFindsEvents, PollFindsNothing, Check,
                  SnapshotEvents, SnapshotArtifacts, RemoveOldPack, MoveNewPack, Kill,
                  AppendHalf, logVars, vars
    <2> QED
      BY <2>1, <2>2 DEF Next
  <1>4. UNCHANGED options /\ rotations = 0
    <2>1. CASE \E type \in RowTypes, key \in RowKeys : AppendRow(type, key)
      BY <2>1 DEF AppendRow
    <2>2. CASE StartAnew
      BY <2>2 DEF StartAnew, Typing
    <2>3. CASE Watcher \/ Kill \/ AppendHalf \/ UNCHANGED vars
      BY <2>3 DEF Watcher, Start, PollRaises, PollFindsEvents, PollFindsNothing, Check,
                  SnapshotEvents, SnapshotArtifacts, RemoveOldPack, MoveNewPack, Kill,
                  AppendHalf, logVars, vars
    <2> QED
      BY <2>1, <2>2, <2>3 DEF Next
  <1>5. AppendOnly' => AppendOnly
    BY <1>4 DEF AppendOnly, options
  <1> QED
    BY <1>1, <1>2, <1>3, <1>4, <1>5 DEF options

(* What was emitted stays the events up to the last one seen: the log only *)
(* grows behind it, and Base is seen, so that a poll goes on from there.   *)
LEMMA EmittedKept == Typing /\ EmittedSoFar /\ [Next]_vars => EmittedSoFar'
  <1> SUFFICES ASSUME Typing, EmittedSoFar, [Next]_vars PROVE EmittedSoFar'
    OBVIOUS
  <1>0. current \in Seq(Event) /\ Len(current) \in Nat /\ Len(emitted) \in Nat /\ seen \in Nat
    BY Ingested DEF Typing
  <1>1. pc' = "start" => pc = "start" /\ UNCHANGED <<emitted, seen>>
    <2>1. CASE Watcher \/ Kill
      BY <2>1 DEF Watcher, Start, PollRaises, PollFindsEvents, PollFindsNothing, Check, Crash,
                  SnapshotEvents, SnapshotArtifacts, RemoveOldPack, MoveNewPack, Kill
    <2>2. CASE ~(Watcher \/ Kill)
      BY <2>2 DEF Next, AppendRow, AppendHalf, StartAnew, vars
    <2> QED
      BY <2>1, <2>2
  <1>2. ASSUME AppendOnly', pc' # "start"
        PROVE  /\ Len(emitted') <= seen' /\ seen' <= Len(current')
               /\ \A i \in 1..Len(emitted') : emitted'[i] = current'[seen' - Len(emitted') + i]
               /\ fromStart' => seen' = Len(emitted')
    <2>1. /\ AppendOnly /\ fromStart' = fromStart
          /\ Len(current) <= Len(current')
          /\ \A i \in 1..Len(current) : current'[i] = current[i]
      <3>1. rotations' = 0
        BY <1>2 DEF AppendOnly
      <3>2. AppendOnly /\ fromStart' = fromStart /\ Extends(current', current)
        BY <1>2, <3>1, LogGrows
      <3> QED
        BY <3>2, <1>0 DEF Extends
    <2>2. Len(current') \in Nat
      <3>1. Typing'
        BY TypingKept
      <3> QED
        BY <3>1, Ingested DEF Typing
    <2>3. CASE Start
      <3>1. emitted' = <<>> /\ current' = current
        BY <2>3 DEF Start, Crash, EmittedSoFar, logVars
      <3>2. seen' \in 0..Len(current) /\ (fromStart => seen' = 0)
        BY <2>3, <1>0 DEF Start, Crash, EmittedSoFar, packVars
      <3> QED
        BY <3>1, <3>2, <2>1, <1>0
    <2>4. ASSUME pc # "start"
          PROVE  /\ Base = seen /\ Len(emitted) <= seen /\ seen <= Len(current)
                 /\ \A i \in 1..Len(emitted) : emitted[i] = current[seen - Len(emitted) + i]
                 /\ fromStart => seen = Len(emitted)
      BY <2>1, <2>4, <1>0 DEF EmittedSoFar, Base
    <2>5. CASE UNCHANGED <<emitted, seen>> /\ pc # "start"
      <3>1. \A i \in 1..Len(emitted) : seen - Len(emitted) + i \in 1..Len(current)
        BY <2>4, <2>5, <1>0
      <3> QED
        BY <3>1, <2>1, <2>2, <2>4, <2>5, <1>0
    <2>6. CASE PollFindsEvents /\ Quota > 0
      <3>1. /\ pc # "start" /\ current' = current /\ Len(current) > Base
            /\ emitted' = emitted \o NewEvents /\ seen' = Base + Len(NewEvents)
        <4>1. Quota \in Int
          BY <1>0, LimitIsNumber DEF Quota
        <4> QED
          BY <4>1, <2>6 DEF PollFindsEvents, logVars
      <3>2. /\ NewEvents \in Seq(Event) /\ Len(NewEvents) \in Nat
            /\ Base + Len(NewEvents) <= Len(current)
            /\ \A i \in 1..Len(NewEvents) : NewEvents[i] = current[Base + i]
        BY <2>6, <3>1, TakesNewEvents
      <3>3. emitted \in Seq(Event)
        BY DEF Typing
      <3>4. Len(emitted') = Len(emitted) + Len(NewEvents)
        BY <3>1, <3>2, <3>3
      <3>5. seen' = seen + Len(NewEvents) /\ seen' - Len(emitted') = seen - Len(emitted)
        BY <2>4, <3>1, <3>2, <3>4, <1>0
      <3>6. ASSUME NEW i \in 1..Len(emitted')
            PROVE  emitted'[i] = current[seen - Len(emitted) + i]
        <4>1. CASE i <= Len(emitted)
          BY <4>1, <3>1, <3>2, <3>3, <2>4, <1>0
        <4>2. CASE i > Len(emitted)
          <5>1. i - Len(emitted) \in 1..Len(NewEvents)
            BY <4>2, <3>2, <3>4, <1>0
          <5>2. emitted'[i] = NewEvents[i - Len(emitted)]
            BY <4>2, <3>1, <3>2, <3>3, <3>4, <1>0
          <5>3. Base + (i - Len(emitted)) = seen - Len(emitted) + i
            BY <2>4, <3>1, <1>0
          <5> QED
            BY <5>1, <5>2, <5>3, <3>2
        <4> QED
          BY <4>1, <4>2, <1>0
      <3> QED
        BY <2>1, <2>4, <3>1, <3>2, <3>4, <3>5, <3>6, <1>0
    <2>7. \/ UNCHANGED <<emitted, seen>> /\ pc # "start"
          \/ Start \/ (PollFindsEvents /\ Quota > 0)
      <3>1. CASE PollFindsEvents \/ PollFindsNothing
        <4>1. Quota \in Int
          BY <1>0, LimitIsNumber DEF Quota
        <4>2. pc # "start"
          BY <3>1 DEF PollFindsEvents, PollFindsNothing
        <4> QED
          BY <3>1, <4>1, <4>2, <2>4 DEF PollFindsEvents, PollFindsNothing
      <3>2. CASE PollRaises \/ Check \/ SnapshotEvents \/ SnapshotArtifacts \/ RemoveOldPack
                   \/ MoveNewPack \/ Kill
        BY <3>2 DEF PollRaises, Check, SnapshotEvents, SnapshotArtifacts, RemoveOldPack,
                    MoveNewPack, Kill, Crash
      <3>3. CASE Start
        BY <3>3
      <3>4. CASE ~Watcher /\ ~Kill
        BY <3>4, <1>2 DEF Next, AppendRow, AppendHalf, StartAnew, vars
      <3> QED
        BY <3>1, <3>2, <3>3, <3>4 DEF Watcher
    <2> QED
      BY <2>3, <2>5, <2>6, <2>7
  <1> QED
    BY <1>1, <1>2 DEF EmittedSoFar

(* A poll emits at most what the limit leaves, and whoever stops without   *)
(* being idle has found the limit reached.                                 *)
LEMMA LimitStillKept == Typing /\ LimitKept /\ [Next]_vars => LimitKept'
  <1> SUFFICES ASSUME Typing, LimitKept, [Next]_vars, limit' # NoLimit
               PROVE  /\ Len(emitted') <= limit'
                      /\ (pc' = "stopped" /\ ~idleTimeout') => Len(emitted') = limit'
    BY DEF LimitKept
  <1>0. UNCHANGED options
    BY DEF Next, AppendRow, StartAnew, AppendHalf, Watcher, Start, PollRaises, PollFindsEvents,
           PollFindsNothing, Check, SnapshotEvents, SnapshotArtifacts, RemoveOldPack,
           MoveNewPack, Kill, vars
  <1>1. limit' = limit /\ idleTimeout' = idleTimeout /\ limit # NoLimit
    BY <1>0 DEF options
  <1>2. limit \in Nat /\ Len(emitted) \in Nat /\ Len(emitted) <= limit
    BY <1>1, LimitIsNumber DEF Typing, LimitKept
  <1>3. CASE UNCHANGED <<pc, emitted>>
    BY <1>1, <1>2, <1>3 DEF LimitKept
  <1>4. CASE pc' # "stopped" /\ UNCHANGED emitted
    BY <1>1, <1>2, <1>4
  <1>5. CASE PollFindsEvents
    <2>1. Quota = limit - Len(emitted)
      BY <1>1 DEF Quota
    <2>2. CASE Quota <= 0
      BY <1>1, <1>2, <1>5, <2>1, <2>2 DEF PollFindsEvents
    <2>3. CASE Quota > 0
      <3>1. emitted' = emitted \o NewEvents /\ pc' # "stopped" /\ Len(current) > Base
        BY <1>2, <1>5, <2>1, <2>3 DEF PollFindsEvents
      <3>2. NewEvents \in Seq(Event) /\ Len(NewEvents) \in 1..Quota
        BY <2>3, <3>1, TakesNewEvents
      <3>3. emitted \in Seq(Event)
        BY DEF Typing
      <3>4. Len(emitted') = Len(emitted) + Len(NewEvents)
        BY <3>1, <3>2, <3>3
      <3> QED
        BY <1>1, <1>2, <2>1, <3>1, <3>2, <3>4
    <2> QED
      BY <1>2, <2>1, <2>2, <2>3
  <1>6. CASE PollFindsNothing
    BY <1>1, <1>2, <1>6 DEF PollFindsNothing
  <1>7. CASE Check
    BY <1>1, <1>2, <1>7 DEF Check
  <1>8. CASE Start \/ PollRaises \/ SnapshotEvents \/ SnapshotArtifacts \/ RemoveOldPack
               \/ MoveNewPack \/ Kill
    BY <1>4, <1>8 DEF Start, PollRaises, SnapshotEvents, SnapshotArtifacts, RemoveOldPack,
                      MoveNewPack, Kill, Crash
  <1>9. CASE ~Watcher /\ ~Kill
    BY <1>3, <1>9 DEF Next, AppendRow, AppendHalf, StartAnew, vars
  <1> QED
    BY <1>5, <1>6, <1>7, <1>8, <1>9 DEF Watcher

(* A snapshot is built from events the log has had at one time and from    *)
(* rows it has at a later one.                                             *)
LEMMA PackStillUnderWay == IInv /\ [Next]_vars => PackUnderWay'
  <1> SUFFICES ASSUME IInv, [Next]_vars, rotations' = 0
               PROVE  /\ pc' = "artifacts" =>
                            Keeps(tmp)' /\ RowsIn(tmp'.events) \subseteq Ids(log')
                      /\ pc' \in {"remove", "move"} =>
                            tmp'.whole /\ Keeps(tmp)' /\ RowsIn(tmp'.events) \subseteq tmp'.rows
                      /\ (withPack' /\ pc' \in {"poll", "check", "stopped"}) =>
                            pack'.whole /\ Keeps(pack)' /\ RowsIn(pack'.events) \subseteq pack'.rows
    BY DEF PackUnderWay
  <1>0. /\ Typing /\ EmittedSoFar /\ PackUnderWay /\ rotations = 0
        /\ Ids(log) \subseteq Ids(log') /\ withPack' = withPack
        /\ AppendOnly' => AppendOnly
    BY LogGrows DEF IInv
  <1>1. Len(current) \in Nat /\ seen \in Nat /\ RowsIn(current) \subseteq Ids(log)
    BY <1>0, Ingested DEF Typing
  <1>2. AppendOnly /\ pc # "start" => seen <= Len(current) /\ Base = seen
    BY <1>0, <1>1 DEF EmittedSoFar, Base
  <1>3. ASSUME UNCHANGED <<pc, seen, tmp, pack>> PROVE PackUnderWay'
    BY <1>0, <1>3 DEF PackUnderWay, Keeps
  <1>4. CASE Start
    <2>1. withPack => pc' \in {"events", "crashed"}
      BY <1>4 DEF Start, Crash
    <2>2. pc' \in {"events", "crashed", "poll"}
      BY <1>4 DEF Start, Crash
    <2> QED
      BY <2>1, <2>2, <1>0
  <1>5. CASE PollRaises \/ Kill
    BY <1>5 DEF PollRaises, Kill, Crash
  <1>6. CASE PollFindsEvents
    <2>1. CASE Quota <= 0
      <3>1. pc = "poll" /\ pc' = "stopped" /\ seen' = Base /\ pack' = pack
        BY <1>6, <2>1 DEF PollFindsEvents, packVars
      <3> QED
        BY <3>1, <1>0, <1>2 DEF PackUnderWay, Keeps
    <2>2. CASE ~(Quota <= 0)
      <3>1. pc' = IF withPack THEN "events" ELSE "check"
        BY <1>6, <2>2 DEF PollFindsEvents
      <3> QED
        BY <3>1, <1>0
    <2> QED
      BY <2>1, <2>2
  <1>7. CASE PollFindsNothing
    <2>1. pc = "poll" /\ pc' \in {"poll", "stopped"} /\ seen' = Base /\ pack' = pack
      BY <1>7 DEF PollFindsNothing, packVars
    <2> QED
      BY <2>1, <1>0, <1>2 DEF PackUnderWay, Keeps
  <1>8. CASE Check
    <2>1. pc = "check" /\ pc' \in {"poll", "stopped"} /\ seen' = seen /\ pack' = pack
      BY <1>8 DEF Check, packVars
    <2> QED
      BY <2>1, <1>0 DEF PackUnderWay, Keeps
  <1>9. CASE SnapshotEvents
    <2>1. CASE pc' = "crashed"
      BY <2>1
    <2>2. CASE pc' # "crashed"
      <3>1. /\ pc = "events" /\ pc' = "artifacts" /\ seen' = seen
            /\ tmp' = [whole |-> FALSE, events |-> current, rows |-> {}]
        BY <1>9, <2>2 DEF SnapshotEvents, Crash
      <3>2. tmp'.events = current
        BY <3>1
      <3>3. Keeps(tmp)'
        BY <3>1, <3>2, <1>0, <1>2 DEF Keeps
      <3>4. RowsIn(tmp'.events) \subseteq Ids(log')
        BY <3>2, <1>0, <1>1
      <3> QED
        BY <3>1, <3>3, <3>4
    <2> QED
      BY <2>1, <2>2
  <1>10. CASE SnapshotArtifacts
    <2>1. CASE pc' = "crashed"
      BY <2>1
    <2>2. CASE pc' # "crashed"
      <3>1. /\ pc = "artifacts" /\ pc' = "remove" /\ seen' = seen
            /\ tmp' = [tmp EXCEPT !.whole = TRUE, !.rows = Ids(log)]
        BY <1>10, <2>2 DEF SnapshotArtifacts, Crash
      <3>2. tmp \in Pack
        BY <1>0 DEF Typing
      <3>3. tmp'.whole /\ tmp'.events = tmp.events /\ tmp'.rows = Ids(log)
        BY <3>1, <3>2 DEF Pack
      <3>4. Keeps(tmp) /\ RowsIn(tmp.events) \subseteq Ids(log)
        BY <3>1, <1>0 DEF PackUnderWay
      <3>5. Keeps(tmp)'
        BY <3>1, <3>3, <3>4, <1>0 DEF Keeps
      <3> QED
        BY <3>1, <3>3, <3>4, <3>5
    <2> QED
      BY <2>1, <2>2
  <1>11. CASE RemoveOldPack
    <2>1. pc = "remove" /\ pc' = "move" /\ seen' = seen /\ tmp' = tmp
      BY <1>11 DEF RemoveOldPack
    <2> QED
      BY <2>1, <1>0 DEF PackUnderWay, Keeps
  <1>12. CASE MoveNewPack
    <2>1. pc = "move" /\ pc' \in {"poll", "check"} /\ seen' = seen /\ pack' = tmp
      BY <1>12 DEF MoveNewPack
    <2> QED
      BY <2>1, <1>0 DEF PackUnderWay, Keeps
  <1>13. CASE ~Watcher /\ ~Kill
    <2>1. UNCHANGED <<pc, seen, tmp, pack>>
      BY <1>13 DEF Next, AppendRow, AppendHalf, StartAnew, vars, packVars
    <2> QED
      BY <2>1, <1>3 DEF PackUnderWay
  <1> QED
    BY <1>4, <1>5, <1>6, <1>7, <1>8, <1>9, <1>10, <1>11, <1>12, <1>13 DEF Watcher

(* The invariant holds.                                                    *)
LEMMA Inductive == Spec => []IInv
  <1>1. Init => IInv
    <2> SUFFICES ASSUME Init PROVE IInv
      OBVIOUS
    <2>1. log \in Logs /\ current = Events(format, log) /\ Len(log) = 0
      BY EmptyLog, NothingOfNothing DEF Init
    <2>2. NoPack \in Pack /\ emitted \in Seq(Event) /\ Len(emitted) = 0
      BY DEF Init, NoPack, Pack
    <2>3. MaxRows \in Nat /\ MaxRotations \in Nat
      BY WatchAssumption
    <2>4. Typing
      <3>1. written \in 0..MaxRows /\ Len(log) <= written /\ rotations \in 0..MaxRotations
        BY <2>1, <2>3 DEF Init
      <3>2. emitted \in Seq(Event) /\ tmp \in Pack /\ pack \in Pack /\ pc \in States
        BY <2>2 DEF Init, States
      <3> QED
        BY <2>1, <3>1, <3>2 DEF Init, Typing
    <2>5. LimitKept
      BY <2>2, <2>4, LimitIsNumber DEF Init, LimitKept
    <2> QED
      BY <2>4, <2>5 DEF Init, IInv, EmittedSoFar, PackUnderWay
  <1>2. IInv /\ [Next]_vars => IInv'
    BY TypingKept, EmittedKept, LimitStillKept, PackStillUnderWay DEF IInv
  <1> QED
    BY <1>1, <1>2, PTL DEF Spec

-------------------------------------------------------------------------------
(* The theorems.                                                           *)

(* The log, what was read of it and both packs have their shape.           *)
THEOREM TypeCorrect == Spec => []TypeOK
  <1>1. IInv => TypeOK
    <2> SUFFICES ASSUME IInv PROVE TypeOK
      OBVIOUS
    <2>1. ASSUME NEW p \in Pack
          PROVE  p \in [whole : BOOLEAN, events : Seq(ToSet(p.events)), rows : SUBSET (1..MaxRows)]
      <3>1. p.events \in Seq(Event)
        BY DEF Pack
      <3>2. p.events \in Seq(ToSet(p.events))
        <4> DEFINE events == p.events
        <4>1. events \in Seq(Event)
          BY <3>1
        <4>2. \A i \in 1..Len(events) : events[i] \in ToSet(events)
          BY <4>1 DEF ToSet
        <4> QED
          BY <4>1, <4>2
      <3> QED
        BY <3>2 DEF Pack
    <2>2. tmp \in Pack /\ pack \in Pack
      BY DEF IInv, Typing
    <2>3. limit \in Nat \cup {NoLimit}
      BY WatchAssumption DEF IInv, Typing
    <2> QED
      BY <2>1, <2>2, <2>3 DEF IInv, Typing, TypeOK, States
  <1> QED
    BY <1>1, Inductive, PTL

(* What watch_input prints of a log that only grows: each event once and   *)
(* in order, whatever the limit and whenever it polls (watch.py:82-110).   *)
THEOREM EmitsEveryEvent == Spec => []EmitsTheLog
  <1>1. IInv => EmitsTheLog
    <2> SUFFICES ASSUME IInv, AppendOnly, pc # "start"
                 PROVE  /\ seen <= Len(current)
                        /\ emitted = SubSeq(current, seen - Len(emitted) + 1, seen)
                        /\ fromStart => seen = Len(emitted)
      BY DEF EmitsTheLog
    <2>1. /\ Len(emitted) <= seen /\ seen <= Len(current)
          /\ \A i \in 1..Len(emitted) : emitted[i] = current[seen - Len(emitted) + i]
          /\ fromStart => seen = Len(emitted)
      BY DEF IInv, EmittedSoFar
    <2>2. current \in Seq(Event) /\ emitted \in Seq(Event) /\ seen \in Nat
      BY Ingested DEF IInv, Typing
    <2>3. Len(current) \in Nat /\ Len(emitted) \in Nat
      BY <2>2
    <2> DEFINE first == seen - Len(emitted) + 1
               part  == SubSeq(current, first, seen)
    <2>4. first \in 1..(Len(current) + 1) /\ seen \in 0..Len(current)
      BY <2>1, <2>2, <2>3
    <2>5. part \in Seq(Event) /\ Len(part) = Len(emitted)
      BY <2>1, <2>2, <2>3, <2>4
    <2>6. \A i \in 1..Len(emitted) : part[i] = current[seen - Len(emitted) + i]
      BY <2>1, <2>2, <2>3, <2>4, <2>5
    <2> HIDE DEF part
    <2>7. emitted = part
      BY <2>1, <2>2, <2>5, <2>6
    <2> QED
      BY <2>1, <2>7 DEF part
  <1> QED
    BY <1>1, Inductive, PTL

(* --max-events over all polls, and the watcher that stops by it           *)
(* (watch.py:91-95, 112).                                                  *)
THEOREM KeepsTheLimit == Spec => []WithinLimit
  <1>1. IInv => WithinLimit
    BY DEF IInv, LimitKept, WithinLimit
  <1> QED
    BY <1>1, Inductive, PTL

(* The pack at --out against what was emitted, with the artifacts of all   *)
(* its events (_write_pack_snapshot, watch.py:25-53).                      *)
THEOREM PackKeepsUp == Spec => []PackIsAhead
  <1>1. IInv => PackIsAhead
    BY DEF IInv, PackUnderWay, Keeps, PackIsAhead
  <1> QED
    BY <1>1, Inductive, PTL
===============================================================================
