--------------------------------- MODULE Watch ---------------------------------
(***************************************************************************)
(* flightlog/watch.py: watch_input polls a session log that another        *)
(* program writes, emits the events it has not emitted yet, and keeps a    *)
(* pack of the whole log at --out, which each snapshot replaces.           *)
(*                                                                         *)
(* The program that writes the log is external: it appends rows, in one    *)
(* write or in two (a reader then finds half a line, which is not JSON),   *)
(* and it may start the log anew.                                          *)
(*                                                                         *)
(* The watcher only asks an ingestor (ClaudeTurns) for the events of the   *)
(* log, as it is at that moment.                                           *)
(***************************************************************************)
EXTENDS ClaudeTurns, Integers

CONSTANTS
    Limits,         \* the values of --max-events; NoLimit without it
    NoLimit,
    MaxRows,        \* bound: rows written in all
    MaxRotations,   \* bound: times the log is started anew
    WithKill        \* whether the watcher may be killed

Row  == [id : 1..MaxRows, type : RowTypes, key : RowKeys]
Logs == UNION {[1..n -> Row] : n \in 0..MaxRows}

Ids(rows) == {rows[n].id : n \in DOMAIN rows}

ASSUME WatchAssumption ==
    /\ Limits \subseteq Nat \cup {NoLimit}
    /\ MaxRows \in Nat /\ MaxRotations \in Nat /\ WithKill \in BOOLEAN

VARIABLES
    format,      \* the ingestor that detects the log
    fromStart, limit, idleTimeout, withPack,   \* the options
    log,         \* the rows of the log
    half,        \* its last line is only half written
    written,     \* rows written so far, in every log
    current,     \* the events iter_events would yield now
    rotations,   \* how often the log was started anew
    pc,          \* where watch_input is
    seen,        \* seen_events
    emitted,     \* the events emitted, in order
    tmp,         \* the pack being built: the events and the rows read for it
    pack         \* the pack at --out; NoPack when there is none or a part of one

NoPack == [whole |-> FALSE, events |-> <<>>, rows |-> {}]

options  == <<format, fromStart, limit, idleTimeout, withPack>>
logVars  == <<log, half, current, written, rotations>>
packVars == <<tmp, pack>>
vars == <<options, logVars, pc, seen, emitted, packVars>>

Init ==
    /\ format \in Formats /\ limit \in Limits
    /\ fromStart \in BOOLEAN /\ idleTimeout \in BOOLEAN /\ withPack \in BOOLEAN
    /\ log = <<>> /\ half = FALSE /\ current = <<>> /\ written = 0 /\ rotations = 0
    /\ pc = "start" /\ seen = 0 /\ emitted = <<>>
    /\ tmp = NoPack /\ pack = NoPack

-------------------------------------------------------------------------------
(* The program that writes the log.                                        *)

AppendRow(type, key) ==
    /\ written < MaxRows
    /\ written' = written + 1
    /\ log' = Append(log, [id |-> written + 1, type |-> type, key |-> key])
    /\ half' = FALSE
    /\ current' = Events(format, log')
    /\ UNCHANGED <<options, rotations, pc, seen, emitted, packVars>>

AppendHalf ==
    /\ written < MaxRows /\ ~half
    /\ half' = TRUE
    /\ UNCHANGED <<options, log, current, written, rotations, pc, seen, emitted, packVars>>

StartAnew ==
    /\ rotations < MaxRotations
    /\ rotations' = rotations + 1
    /\ log' = <<>> /\ half' = FALSE /\ current' = <<>>
    /\ UNCHANGED <<options, written, pc, seen, emitted, packVars>>

-------------------------------------------------------------------------------
(* watch_input.  Whatever it cannot parse raises, and nothing catches it.  *)

Crash == pc' = "crashed" /\ UNCHANGED <<seen, emitted, packVars>>

(* No ingestor detects an empty log. *)
Detectable == log # <<>>

Start ==
    /\ pc = "start"
    /\ IF half \/ ~Detectable
         THEN Crash
         ELSE /\ seen' = IF fromStart THEN 0 ELSE Len(current)
              /\ pc' = IF withPack THEN "events" ELSE "poll"
              /\ UNCHANGED <<emitted, packVars>>
    /\ UNCHANGED <<options, logVars>>

(* Mutant of Base: the count is kept when the log is started anew. *)
BaseKept == seen

(* A log with fewer events than were seen has been started anew. *)
Base == IF Len(current) < seen THEN 0 ELSE seen

(* Mutant of Quota: --max-events counts for each poll. *)
QuotaPerPoll == IF limit = NoLimit THEN Len(current) ELSE limit

Quota == IF limit = NoLimit THEN Len(current) ELSE limit - Len(emitted)

UpTo(last) == IF last < Len(current) THEN last ELSE Len(current)

(* Mutant of NewEvents: what was emitted is taken for what was seen. *)
NewEventsAfterEmitted ==
    SubSeq(current, Len(emitted) + 1, UpTo(Len(emitted) + Quota))

NewEvents == SubSeq(current, Base + 1, UpTo(Base + Quota))

PollRaises ==
    /\ pc = "poll" /\ half
    /\ Crash
    /\ UNCHANGED <<options, logVars>>

(* Mutant of PollFindsEvents: the pack is not written anew. *)
PollWithoutSnapshot ==
    /\ pc = "poll" /\ ~half
    /\ Len(current) > Base
    /\ IF Quota <= 0
         THEN pc' = "stopped" /\ seen' = Base /\ UNCHANGED emitted
         ELSE /\ emitted' = emitted \o NewEvents
              /\ seen' = Base + Len(NewEvents)
              /\ pc' = "check"
    /\ UNCHANGED <<options, logVars, packVars>>

PollFindsEvents ==
    /\ pc = "poll" /\ ~half
    /\ Len(current) > Base
    /\ IF Quota <= 0
         THEN pc' = "stopped" /\ seen' = Base /\ UNCHANGED emitted
         ELSE /\ emitted' = emitted \o NewEvents
              /\ seen' = Base + Len(NewEvents)
              /\ pc' = IF withPack THEN "events" ELSE "check"
    /\ UNCHANGED <<options, logVars, packVars>>

PollFindsNothing ==
    /\ pc = "poll" /\ ~half
    /\ Len(current) <= Base
    /\ seen' = Base
    /\ pc' \in IF idleTimeout THEN {"poll", "stopped"} ELSE {"poll"}
    /\ UNCHANGED <<options, logVars, emitted, packVars>>

Check ==
    /\ pc = "check"
    /\ pc' = IF limit # NoLimit /\ Len(emitted) >= limit THEN "stopped" ELSE "poll"
    /\ UNCHANGED <<options, logVars, seen, emitted, packVars>>

-------------------------------------------------------------------------------
(* _write_pack_snapshot reads the log for the events, reads it again for   *)
(* the artifacts, removes the old pack and moves the new one in its place. *)

SnapshotEvents ==
    /\ pc = "events"
    /\ IF half \/ ~Detectable
         THEN Crash
         ELSE /\ tmp' = [whole |-> FALSE, events |-> current, rows |-> {}]
              /\ pc' = "artifacts"
              /\ UNCHANGED <<seen, emitted, pack>>
    /\ UNCHANGED <<options, logVars>>

SnapshotArtifacts ==
    /\ pc = "artifacts"
    /\ IF half
         THEN Crash
         ELSE /\ tmp' = [tmp EXCEPT !.whole = TRUE, !.rows = Ids(log)]
              /\ pc' = "remove"
              /\ UNCHANGED <<seen, emitted, pack>>
    /\ UNCHANGED <<options, logVars>>

RemoveOldPack ==
    /\ pc = "remove"
    /\ pack' = NoPack
    /\ pc' = "move"
    /\ UNCHANGED <<options, logVars, seen, emitted, tmp>>

(* Nothing has been emitted yet when the first snapshot is written, before *)
(* the loop.                                                               *)
MoveNewPack ==
    /\ pc = "move"
    /\ pack' = tmp /\ tmp' = NoPack
    /\ pc' = IF emitted = <<>> THEN "poll" ELSE "check"
    /\ UNCHANGED <<options, logVars, seen, emitted>>

Kill ==
    /\ WithKill /\ pc \notin {"start", "stopped", "crashed"}
    /\ Crash
    /\ UNCHANGED <<options, logVars>>

Watcher ==
    \/ Start
    \/ PollRaises \/ PollFindsEvents \/ PollFindsNothing \/ Check
    \/ SnapshotEvents \/ SnapshotArtifacts \/ RemoveOldPack \/ MoveNewPack

Next ==
    \/ \E type \in RowTypes, key \in RowKeys : AppendRow(type, key)
    \/ AppendHalf \/ StartAnew
    \/ Watcher \/ Kill

(* The watcher goes on as long as it lives; the log may stop at any time. *)
Spec == Init /\ [][Next]_vars /\ WF_vars(Watcher)

-------------------------------------------------------------------------------
(* Properties.                                                             *)

TypeOK ==
    /\ format \in Formats /\ limit \in Nat \cup {NoLimit}
    /\ log \in Logs /\ current = Events(format, log)
    /\ Len(log) <= written /\ written \in 0..MaxRows /\ rotations \in 0..MaxRotations
    /\ half \in BOOLEAN
    /\ pc \in {"start", "poll", "check", "events", "artifacts", "remove", "move",
               "stopped", "crashed"}
    /\ seen \in Nat
    /\ \A p \in {tmp, pack} :
          p \in [whole : BOOLEAN, events : Seq(ToSet(p.events)), rows : SUBSET (1..MaxRows)]

(* What iter_events yields only grows at its end when the log does.        *)
AppendOnly == format # "claude_code" /\ rotations = 0

(* The events emitted are those of the log, each once and in order, from   *)
(* the first that was not there at the start: no poll skips one or emits   *)
(* one twice, also when --max-events cuts a poll short.                    *)
EmitsTheLog ==
    (AppendOnly /\ pc # "start") =>
        /\ seen <= Len(current)
        /\ emitted = SubSeq(current, seen - Len(emitted) + 1, seen)
        /\ fromStart => seen = Len(emitted)

(* --max-events is never exceeded, and whoever stops because of it has     *)
(* emitted that many.                                                      *)
WithinLimit ==
    limit # NoLimit =>
        /\ Len(emitted) <= limit
        /\ (pc = "stopped" /\ ~idleTimeout) => Len(emitted) = limit

RowsIn(events) == UNION {ContentsOf(event) : event \in ToSet(events)}

(* Whenever the watcher waits or has stopped, the pack at --out holds all  *)
(* the events emitted, and the artifacts of the rows of all its events     *)
(* (the log is read twice for a snapshot, and once more for the events to  *)
(* emit), unless the log was started anew.                                 *)
PackIsAhead ==
    (withPack /\ rotations = 0 /\ pc \in {"poll", "check", "stopped"}) =>
        /\ pack.whole
        /\ AppendOnly => Len(pack.events) >= seen
        /\ RowsIn(pack.events) \subseteq pack.rows

(* Where the events made of row `id` stand among those of the log.         *)
Places(id) == {n \in DOMAIN current : id \in ContentsOf(current[n])}

(* The watcher has not counted the row's events as seen: they stand after  *)
(* those it has, or the log is a new one and shorter than its count.       *)
NotSeen(id) ==
    /\ id \in Ids(log)
    /\ Len(current) < seen \/ Places(id) \cap (1..seen) = {}

Emitted(id) == \A n \in Places(id) : current[n] \in ToSet(emitted)

(* A log started anew has grown past the count before the next poll, so    *)
(* the watcher does not know of it, and takes its first events for the     *)
(* ones it has seen.                                                       *)
TakenForSeen(id) ==
    /\ rotations > 0 /\ seen <= Len(current)
    /\ Places(id) \cap (1..seen) # {} /\ ~Emitted(id)

(* Every row the watcher has not seen is emitted in the end, with all its  *)
(* events, also the rows of a log started anew that a poll finds shorter   *)
(* than its count (the reset of seen_events), unless the log is started    *)
(* anew before that, or has outgrown the count unnoticed, or the watcher   *)
(* ends: by its limit, its timeout, a kill, or half a line.  Not so for    *)
(* claude_code, whose events change: the response of a turn whose events   *)
(* were seen while it was open is never emitted.                           *)
EventsAreEmitted ==
    \A id \in 1..MaxRows :
        (format # "claude_code" /\ pc # "start" /\ NotSeen(id))
            ~> \/ Emitted(id)
               \/ id \notin Ids(log)
               \/ TakenForSeen(id)
               \/ pc \in {"stopped", "crashed"}
===============================================================================
