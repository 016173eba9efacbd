-------------------------------- MODULE Normalize --------------------------------
(***************************************************************************)
(* normalize.py and redaction.py: what becomes of the events of a log on   *)
(* their way into a pack.                                                  *)
(*                                                                         *)
(* An event has an id [of, part, file], a time, a type and a payload, a    *)
(* function of fields to texts.  In the timeline the texts that were moved *)
(* to artifacts are refs, functions of fields to keys of artifacts.  The   *)
(* content of an artifact is a sequence of texts: a text alone, a patch,   *)
(* or the two texts a patch is made from.                                  *)
(***************************************************************************)
EXTENDS Sequences, SequencesExt, Functions, FiniteSets, FiniteSetsExt, Integers

CONSTANTS
    FieldOrder,    \* the fields of payloads, in the order a payload has them
    Long,          \* the texts above the threshold
    Patches,       \* the texts that are unified diffs
    Paths,         \* paths as logs write them
    NormalPath,    \* [Paths -> files]: without a leading slash, with single slashes
    FileOrder,     \* the files of the workspace, sorted
    Unsafe,        \* the files whose name leads out of the pack
    Secrets,       \* the texts a rule of the redaction matches
    Hash           \* the number an identifier is as a hash; hashes have an order

Files == Range(FileOrder)

NoFile == ""
NoText == ""

(* A path of a log that names no file, as "/", is normalized to none.  No  *)
(* path is a text above the threshold, which would take its place.         *)
ASSUME PathsAssumption ==
    /\ FieldOrder \in Seq(Range(FieldOrder))
    /\ FileOrder \in Seq(Files) /\ NoFile \notin Files
    /\ \A m, n \in DOMAIN FileOrder : FileOrder[m] = FileOrder[n] => m = n
    /\ DOMAIN NormalPath = Paths /\ Paths \cap Long = {}
    /\ \A f \in Paths \cap (Files \cup {"unknown.txt"} \cup Range(NormalPath)) : NormalPath[f] = f

(* Is text t of the payload moved to an artifact?                          *)
IsLong(t) == t \in Long

(* The identifier of the diff of a file found in an event.                 *)
IdIn(id, file) == [of |-> id.of, part |-> id.part, file |-> file]

ArtifactKey(dir, id, n) == [dir |-> dir, id |-> id, n |-> n]

-------------------------------------------------------------------------------
(* _extract_large_payloads: the long texts of a payload become artifacts,  *)
(* numbered in the order of its fields.                                    *)

LongFields(payload) == {f \in DOMAIN payload : IsLong(payload[f])}

PlaceOf(field) == CHOOSE i \in DOMAIN FieldOrder : FieldOrder[i] = field

(* The number of a field among some.                                       *)
Number(field, fields) == Cardinality({f \in fields : PlaceOf(f) <= PlaceOf(field)})

(* Mutant of PayloadKeys: the counter of a payload is not advanced.        *)
PayloadKeysUncounted(event) ==
    [f \in LongFields(event.payload) |-> ArtifactKey("payloads", event.id, 1)]

PayloadKeys(event) ==
    LET fields == LongFields(event.payload)
    IN  [f \in fields |-> ArtifactKey("payloads", event.id, Number(f, fields))]

PayloadArtifacts(event) ==
    LET keys == PayloadKeys(event)
    IN  [k \in Range(keys) |-> <<event.payload[CHOOSE f \in DOMAIN keys : keys[f] = k]>>]

Externalized(event) ==
    LET keys == PayloadKeys(event)
    IN  [id |-> event.id, ts |-> event.ts, type |-> event.type, calls |-> event.calls,
         refs |-> keys, payload |-> Restrict(event.payload, DOMAIN event.payload \ DOMAIN keys)]

-------------------------------------------------------------------------------
(* Diffs.                                                                  *)

DiffEvent(id, ts, file, origin) ==
    [id |-> id, ts |-> ts, type |-> "file.diff", calls |-> <<>>,
     refs |-> [artifact |-> ArtifactKey("diffs", id, 0)], payload |-> [path |-> file, origin |-> origin]]

Has(payload, field) == field \in DOMAIN payload /\ payload[field] # NoText

(* Mutant of PathOf: the path is taken as the log has it.                  *)
PathOfRaw(payload) == IF Has(payload, "path") THEN payload.path ELSE NoFile

PathOf(payload) == IF Has(payload, "path") THEN NormalPath[payload.path] ELSE NoFile

(* _extract_log_diff, of a payload whose long texts are gone: a patch, or  *)
(* two texts that differ and a path; at most one diff.                     *)
LogDiff(event) ==
    LET payload == Externalized(event).payload
        Diff(file, content) ==
            <<[event |-> DiffEvent(IdIn(event.id, file), event.ts, file, "log"),
               content |-> content]>>
    IN  IF Has(payload, "patch") /\ payload.patch \in Patches
        THEN Diff(IF PathOf(payload) = NoFile THEN "unknown.txt" ELSE PathOf(payload),
                  <<payload.patch>>)
        ELSE IF Has(payload, "before") /\ Has(payload, "after") /\ PathOf(payload) # NoFile
                /\ payload.before # payload.after
             THEN Diff(PathOf(payload), <<payload.before, payload.after>>)
             ELSE <<>>

(* _snapshot_diffs: one for each file that differs between the workspaces  *)
(* (a file that is missing is empty) and has none from the log.            *)
SnapshotDiffs(spaces, covered, ts) ==
    LET changed == {f \in Files \ covered : spaces.before[f] # spaces.after[f]}
        Counter(i) == Cardinality({j \in 1..i : FileOrder[j] \in changed})
        Diff(f, counter) ==
            [event |-> DiffEvent([of |-> 0, part |-> 0, file |-> f], ts + counter, f, "snapshot"),
             content |-> <<spaces.before[f], spaces.after[f]>>]
    IN  FlattenSeq([i \in DOMAIN FileOrder |->
            IF FileOrder[i] \in changed THEN <<Diff(FileOrder[i], Counter(i))>> ELSE <<>>])

-------------------------------------------------------------------------------
(* normalize_events.                                                       *)

(* Mutant of Precedes: by time alone.                                      *)
PrecedesByTime(e, f) == e.ts < f.ts

Precedes(e, f) == e.ts < f.ts \/ (e.ts = f.ts /\ Hash[e.id] < Hash[f.id])

(* A sort that keeps the order of elements neither of which precedes the   *)
(* other, as Python's does.                                                *)
InOrder(events) ==
    LET Rank(n) == Cardinality({m \in DOMAIN events :
                        Precedes(events[m], events[n])
                        \/ (m < n /\ ~Precedes(events[n], events[m]))}) + 1
        rank == [n \in DOMAIN events |-> Rank(n)]
    IN  [k \in DOMAIN events |-> events[CHOOSE n \in DOMAIN events : rank[n] = k]]

(* Artifacts of a sequence of steps: a later one replaces an earlier.      *)
Merged(artifacts) ==
    LET LastWith(k) == Max({n \in DOMAIN artifacts : k \in DOMAIN artifacts[n]})
    IN  [k \in UNION {DOMAIN artifacts[n] : n \in DOMAIN artifacts} |-> artifacts[LastWith(k)][k]]

DiffArtifacts(diffs) ==
    LET KeyOfDiff(n) == diffs[n].event.refs.artifact
    IN  [k \in {KeyOfDiff(n) : n \in DOMAIN diffs} |->
            diffs[CHOOSE n \in DOMAIN diffs : KeyOfDiff(n) = k].content]

LogDiffs(events) == FlattenSeq([n \in DOMAIN events |-> LogDiff(events[n])])

(* The snapshots are timed from the last event of the log.                 *)
Snapshots(events, spaces) ==
    LET diffs == LogDiffs(events)
        covered == {diffs[n].event.payload.path : n \in DOMAIN diffs}
    IN  IF ~spaces.given THEN <<>>
        ELSE SnapshotDiffs(spaces, covered, IF events = <<>> THEN 0 ELSE Last(events).ts)

EventsIn(diffs) == [n \in DOMAIN diffs |-> diffs[n].event]

Timeline(events, spaces) ==
    InOrder([n \in DOMAIN events |-> Externalized(events[n])]
            \o EventsIn(LogDiffs(events)) \o EventsIn(Snapshots(events, spaces)))

Artifacts(events, spaces) ==
    Merged(Append([n \in DOMAIN events |->
                       Merged(<<PayloadArtifacts(events[n]), DiffArtifacts(LogDiff(events[n]))>>)],
                  DiffArtifacts(Snapshots(events, spaces))))

-------------------------------------------------------------------------------
(* redact_artifacts: excluded artifacts are left out, in the others what a *)
(* rule matches is replaced.                                               *)
Token == "***REDACTED***"
Redacted(content) == [n \in DOMAIN content |-> IF content[n] \in Secrets THEN Token ELSE content[n]]

RedactArtifacts(artifacts, excluded) ==
    [k \in {key \in DOMAIN artifacts : key.dir \notin excluded} |-> Redacted(artifacts[k])]
===============================================================================
