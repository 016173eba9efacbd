-------------------------------- MODULE PackBuild --------------------------------
(***************************************************************************)
(* pack build (cli.py): a log is read for its events, normalized, read     *)
(* again for its artifacts, redacted and written, while the program that   *)
(* writes the log may still append to it.                                  *)
(*                                                                         *)
(* Rows of a generic_jsonl log are events with a payload.  Rows of an      *)
(* http_capture_jsonl log are exchanges with a provider.                   *)
(***************************************************************************)
EXTENDS LlmTurns, Normalize

CONSTANTS
    GenericRows, CaptureRows,    \* the rows a log of each format may have
    Workspaces,                  \* [given, before, after]: --workspace-before and -after
    Exclusions,                  \* exclude_paths of the redaction: directories of artifacts
    MaxRows                      \* bound: rows of the log

VARIABLES
    format, spaces, excluded,    \* what the command is given
    log,                         \* the rows of the log
    place,                       \* how far the command is
    events,                      \* what iter_events gave
    ingested,                    \* what extract_artifacts gave
    pack                         \* the pack at --out

buildVars == <<format, spaces, excluded, log, place, events, ingested, pack>>

NoPack == [timeline |-> <<>>, artifacts |-> <<>>, manifest |-> FALSE]

RowsOf(f) == IF f = "generic_jsonl" THEN GenericRows ELSE CaptureRows

BuildInit ==
    /\ format \in {"generic_jsonl", "http_capture_jsonl"}
    /\ spaces \in Workspaces
    /\ excluded \in Exclusions
    /\ log = <<>>
    /\ place = "start"
    /\ events = <<>>
    /\ ingested = <<>>
    /\ pack = NoPack

-------------------------------------------------------------------------------
(* Ingestors.                                                              *)

(* A row may name its event, and rows may repeat a name.                   *)
GenericEvent(row, line) ==
    [id |-> [of |-> IF row.id = 0 THEN 10 + line ELSE row.id, part |-> 0, file |-> NoFile],
     ts |-> row.ts, type |-> "tool.result", payload |-> row.payload, calls |-> <<>>]

CaptureTurn(row) ==
    Turn(row.family, row.asked, Wire(row.family, row.answers, row.older))

RowEvents(f, row, line) ==
    IF f = "generic_jsonl"
    THEN <<GenericEvent(row, line)>>
    ELSE ToEvents(CaptureTurn(row), line, row.ts)

IterEvents(f, rows) == FlattenSeq([n \in DOMAIN rows |-> RowEvents(f, rows[n], n)])

RawOf(parts) == [n \in DOMAIN parts |-> IF IsText(parts[n]) THEN parts[n].text ELSE parts[n].args]

(* The texts of a payload, or request and response, as they are in the log.*)
RowArtifacts(f, row, line) ==
    LET id == [of |-> line, part |-> 0, file |-> NoFile]
    IN  IF f = "generic_jsonl"
        THEN [k \in {ArtifactKey("ingest", id, PlaceOf(field)) : field \in DOMAIN row.payload} |->
                 <<row.payload[FieldOrder[k.n]]>>]
        ELSE [k \in {ArtifactKey("capture", id, n) : n \in {1, 2}} |->
                 RawOf(IF k.n = 1 THEN row.asked ELSE FlattenSeq(row.answers))]

ExtractArtifacts(f, rows) == Merged([n \in DOMAIN rows |-> RowArtifacts(f, rows[n], n)])

(* What the rows of a log are, and the identifiers their events, and the   *)
(* diffs, may have; no two have one hash.                                  *)
EventsOf(f) ==
    UNION {Range(RowEvents(f, row, line)) : row \in RowsOf(f), line \in 1..MaxRows}

DiffFiles == {NoFile, "unknown.txt"} \cup Files \cup Range(NormalPath)

Ids ==
    {IdIn(e.id, file) : e \in EventsOf("generic_jsonl") \cup EventsOf("http_capture_jsonl"),
                        file \in DiffFiles}
    \cup {[of |-> 0, part |-> 0, file |-> file] : file \in Files}

ASSUME RowsAssumption ==
    /\ MaxRows \in Nat
    /\ {"messages", "output", "arguments"} \subseteq Range(FieldOrder)
    /\ \A row \in GenericRows :
          /\ row.id \in Nat /\ row.ts \in Int
          /\ DOMAIN row.payload \subseteq Range(FieldOrder)
          /\ Has(row.payload, "path") => row.payload.path \in Paths
    /\ \A row \in CaptureRows :
          /\ row.ts \in Int /\ row.family \in Families
          /\ row.answers \in Seq(Range(row.answers))
          /\ \A n \in DOMAIN row.answers : row.answers[n] \in Seq(Range(row.answers[n]))

ASSUME HashAssumption ==
    /\ \A i \in Ids : Hash[i] \in Int
    /\ \A i, j \in Ids : Hash[i] = Hash[j] => i = j

-------------------------------------------------------------------------------
(* Steps.                                                                  *)

AppendRow ==
    /\ Len(log) < MaxRows
    /\ place \in {"start", "events"}
    /\ \E row \in RowsOf(format) : log' = Append(log, row)
    /\ UNCHANGED <<format, spaces, excluded, place, events, ingested, pack>>

ReadEvents ==
    /\ place = "start"
    /\ place' = "events"
    /\ events' = IterEvents(format, log)
    /\ UNCHANGED <<format, spaces, excluded, log, ingested, pack>>

ReadArtifacts ==
    /\ place = "events"
    /\ place' = "artifacts"
    /\ ingested' = ExtractArtifacts(format, log)
    /\ UNCHANGED <<format, spaces, excluded, log, events, pack>>

(* The artifacts of normalize_events replace those of the ingestor.        *)
PackArtifacts(made, given, raw, without) ==
    RedactArtifacts(Merged(<<raw, Artifacts(made, given)>>), without)

SafeKey(key) == key.id.file \notin Unsafe

(* create_pack: the timeline first, then the artifacts, of which one may   *)
(* have a key that is refused; what is on the disk by then stays there.    *)
Write ==
    /\ place = "artifacts"
    /\ LET timeline == Timeline(events, spaces)
           artifacts == PackArtifacts(events, spaces, ingested, excluded)
       IN  IF \A key \in DOMAIN artifacts : SafeKey(key)
           THEN /\ place' = "done"
                /\ pack' = [timeline |-> timeline, artifacts |-> artifacts, manifest |-> TRUE]
           ELSE /\ place' = "raised"
                /\ pack' = [NoPack EXCEPT !.timeline = timeline]
    /\ UNCHANGED <<format, spaces, excluded, log, events, ingested>>

BuildNext == AppendRow \/ ReadEvents \/ ReadArtifacts \/ Write

BuildSpec == BuildInit /\ [][BuildNext]_buildVars

-------------------------------------------------------------------------------
(* Properties.                                                             *)

IdsDiffer == \A m, n \in DOMAIN events : events[m].id = events[n].id => m = n

Resolves(key, content) ==
    key.dir \in excluded \/ (key \in DOMAIN pack.artifacts /\ pack.artifacts[key] = content)

(* Nothing is lost on the way: of each event the timeline has one entry,   *)
(* with each text of its payload in place or, redacted, in the artifact it *)
(* refers to; and the rows the events were read from are in the pack.  If  *)
(* a log repeats an event_id, texts may take each other's place.           *)
PackHoldsTheLog ==
    (place = "done" /\ IdsDiffer) =>
        /\ \A n \in DOMAIN events :
              LET entries == {e \in Range(pack.timeline) : e.id = events[n].id}
                  Kept(e, f) ==
                      IF f \in DOMAIN e.refs
                      THEN Resolves(e.refs[f], Redacted(<<events[n].payload[f]>>))
                      ELSE e.payload[f] = events[n].payload[f]
              IN  /\ Cardinality(entries) = 1
                  /\ \A e \in entries : \A f \in DOMAIN events[n].payload : Kept(e, f)
        /\ \A n \in DOMAIN log : \A key \in DOMAIN RowArtifacts(format, log[n], n) :
              Resolves(key, Redacted(RowArtifacts(format, log[n], n)[key]))

(* pack diff --file (diff_viewer.py): the diffs of a file as the pack has  *)
(* them, or exit code 1 when there are none or the artifact of one is gone.*)
RenderDiff(file) ==
    LET IsSelected(e) == e.type = "file.diff" /\ e.payload.path = file
        selected == FlattenSeq([n \in DOMAIN pack.timeline |->
                        IF IsSelected(pack.timeline[n]) THEN <<pack.timeline[n]>> ELSE <<>>])
        keys == [n \in DOMAIN selected |-> selected[n].refs.artifact]
    IN  IF selected = <<>> \/ \E n \in DOMAIN keys : keys[n] \notin DOMAIN pack.artifacts
        THEN [code |-> 1, shown |-> <<>>]
        ELSE [code |-> 0, shown |-> [n \in DOMAIN keys |-> pack.artifacts[keys[n]]]]

(* The file a path of the timeline stands for.                             *)
FileOf(path) == IF path \in Paths THEN NormalPath[path] ELSE path

DiffsOf(file) == {e \in Range(pack.timeline) : e.type = "file.diff" /\ FileOf(e.payload.path) = file}

(* The diffs of normalize.py: with both workspaces given, a file that      *)
(* changed has a diff, and from one source only: those of the log, or else *)
(* the one of the workspaces, which shows what the workspaces hold; and    *)
(* `pack diff` shows it under the file's name, unless diffs are excluded.  *)
(* The diff event comes no earlier than the event it was found in.         *)
ChangedFilesHaveDiffs ==
    place = "done" =>
        /\ \A file \in Files :
              LET origins == {e.payload.origin : e \in DiffsOf(file)}
                  rendered == RenderDiff(file)
              IN  /\ Cardinality(origins) <= 1
                  /\ rendered.code = 0 <=> (origins # {} /\ "diffs" \notin excluded)
                  /\ (rendered.code = 0 /\ "snapshot" \in origins) =>
                        rendered.shown = <<Redacted(<<spaces.before[file], spaces.after[file]>>)>>
                  /\ (spaces.given /\ spaces.before[file] # spaces.after[file]) => origins # {}
        /\ \A file \in Files : \A e \in DiffsOf(file) :
              \/ e.payload.origin = "snapshot"
              \/ \E n \in DOMAIN events : events[n].ts <= e.ts /\ e.id.of = events[n].id.of

(* Timeline and artifacts do not depend on the order of the events in the  *)
(* log: any two of them may change places, if ids differ.  With workspaces *)
(* the last event must stay: the snapshot diffs take their times from it.  *)
TimelineHasOneOrder ==
    (place = "done" /\ IdsDiffer) =>
        \A m, n \in 1..(IF spaces.given THEN Len(events) - 1 ELSE Len(events)) :
            LET swapped == [events EXCEPT ![m] = events[n], ![n] = events[m]]
            IN  m < n =>
                  /\ Timeline(swapped, spaces) = pack.timeline
                  /\ PackArtifacts(swapped, spaces, ingested, excluded) = pack.artifacts

NamedCalls(made) == [c \in DOMAIN made |-> <<made[c].name, made[c].args>>]

(* What the timeline says of an exchange does not depend on the provider:  *)
(* the same parts give events of the same types and texts and calls with   *)
(* the same names and arguments, in the same order; only the place of a    *)
(* call differs, which counts the parts before it.  The older form of a    *)
(* call is left out: see OpenAICalls.                                      *)
ProvidersAgree ==
    LET Seen(row, family) ==
            LET turn == Turn(family, row.asked, Wire(family, row.answers, FALSE))
                made == ToEvents(turn, 1, row.ts)
            IN  [n \in DOMAIN made |->
                    << made[n].type, made[n].payload, NamedCalls(made[n].calls) >>]
    IN  format = "http_capture_jsonl" =>
            \A n \in DOMAIN log : \A family \in Families :
                Seen(log[n], log[n].family) = Seen(log[n], family)
===============================================================================
