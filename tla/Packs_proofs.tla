----------------------------- MODULE Packs_proofs -----------------------------
(***************************************************************************)
(* Proofs about PackStore, for any builds of any artifacts, any number of  *)
(* them and of calls of the tools, and any signing keys; then about        *)
(* PackBuild, for any rows, payloads, paths, workspaces and hashes of them *)
(* and any number of rows.                                                 *)
(*                                                                         *)
(* A pack is built in one pass, so the invariant of PackBuild is short     *)
(* (BuildInvariant): the events and the artifacts are what the log gave.   *)
(* What that implies is in the lemmas about LlmTurns and Normalize before. *)
(***************************************************************************)
EXTENDS PackStore, PackBuild, StubGen_proofs, FunctionTheorems

Manifests == {ManifestOf(b) : b \in Builds}
Signatures == [payload : Manifests, key : SignKeys]
Ops == {"validate", "sign", "verify"}

Checking == {"timeline", "artifacts"}
Accepted == {"payload", "open", "fill", "signature", "compare"} \cup Passed

BuilderRecord ==
    [pc : {"idle", "write", "remove", "move", "copy"}, build : Builds \cup {Nothing},
     next : Nat, file : FileNames \cup {Nothing}]

ToolRecord ==
    [pc : Ended \cup Checking \cup Accepted \cup {"idle"}, op : Ops \cup {"none"},
     allowMajor : BOOLEAN, key : SignKeys \cup {Nothing}, manifest : Manifests \cup {Nothing},
     todo : Seq(ArtifactKeys), ok : BOOLEAN, payload : Manifests \cup Signatures \cup {Nothing}]

Typing ==
    /\ disk = [file \in FileNames |-> disk[file]]
    /\ builder \in BuilderRecord
    /\ tool \in ToolRecord
    /\ builds \in 0..MaxBuilds /\ calls \in 0..MaxCalls
    /\ started \subseteq Builds /\ finished \subseteq Manifests /\ steady \in BOOLEAN

-------------------------------------------------------------------------------
(* The invariant.                                                          *)

(* A builder in place opens the manifest last; one that moves a pack has   *)
(* finished it elsewhere.                                                  *)
BuilderInv ==
    LET b == builder.build
    IN  /\ builder.pc # "idle" => b \in started
        /\ builder.pc = "write" =>
              /\ builder.next \in 1..Len(FilesOf(b))
              /\ builder.file \in {Nothing, FilesOf(b)[builder.next]}
        /\ builder.pc \in {"remove", "move", "copy"} => ManifestOf(b) \in finished
        /\ builder.pc \in {"remove", "move"} => builder.file = Nothing
        /\ builder.pc = "copy" => builder.file \in NamesOf(b) \cup {Nothing}

(* So a manifest that can be read is one of a finished build, and so is    *)
(* what a signature covers.                                                *)
DiskInv ==
    /\ finished \subseteq {ManifestOf(b) : b \in started}
    /\ disk["manifest"] \in finished \cup {Nothing, Torn}
    /\ disk["signature"] \in {Nothing, Torn} \cup [payload : finished, key : SignKeys]

(* What a tool has read.                                                   *)
ToolInv ==
    /\ tool.pc # "idle" => tool.op \in Ops
    /\ tool.pc \in Checking \cup Accepted => tool.manifest \in finished
    /\ tool.pc = "artifacts" => tool.todo \in Seq(DOMAIN tool.manifest.artifacts)
    /\ tool.pc \in Accepted \ Passed => tool.op # "validate"
    /\ tool.pc \in {"open", "fill"} => tool.payload \in finished /\ tool.key \in SignKeys
    /\ tool.pc \in {"compare", "verified"} => tool.payload \in Signatures
    /\ tool.op \in {"sign", "verify"} /\ tool.pc \in Checking \cup Accepted => tool.key \in SignKeys

(* The files of manifest m are on disk.                                    *)
Holds(m, keys) ==
    /\ disk["timeline"] = m.timeline
    /\ \A k \in keys : disk[k] = m.artifacts[k]

Todo == {tool.todo[n] : n \in DOMAIN tool.todo}

(* While no builder writes, what a tool has found is still so.             *)
SteadyInv ==
    steady =>
        /\ builder.pc = "idle"
        /\ tool.pc \in Checking \cup Accepted => disk["manifest"] = tool.manifest
        /\ tool.pc = "artifacts" /\ tool.ok =>
              Holds(tool.manifest, (DOMAIN tool.manifest.artifacts) \ Todo)
        /\ tool.pc \in Accepted => Holds(tool.manifest, DOMAIN tool.manifest.artifacts)
        /\ tool.pc = "verified" => tool.payload.payload = tool.manifest /\ tool.payload.key = tool.key

(* No check of validate_pack fails on an intact pack of this release.      *)
IntactInv ==
    steady => \A b \in started :
        HoldsHashedFiles(b) /\ b.version = "current" =>
            /\ tool.pc \in Checking => tool.ok
            /\ tool.pc \in {"failed", "raised"} => tool.op # "validate"

IInv == Typing /\ BuilderInv /\ DiskInv /\ ToolInv /\ SteadyInv /\ IntactInv

-------------------------------------------------------------------------------
(* The files of a build.                                                   *)

LEMMA Names ==
    ASSUME NEW b \in Builds
    PROVE  /\ NamesOf(b) \subseteq FileNames
           /\ {"manifest", "signature", "timeline", "report", "pack"} \subseteq FileNames
           /\ {"manifest", "timeline"} \subseteq NamesOf(b)
           /\ "signature" \notin NamesOf(b)
           /\ FileContent(b, "manifest") = ManifestOf(b)
           /\ \A k \in DOMAIN b.artifacts : k \in ArtifactKeys /\ k # "manifest" /\ k # "timeline"
BY PackStoreAssumption DEF NamesOf, FileNames, BuildFiles, FileContent

LEMMA ManifestIsLast ==
    ASSUME NEW b \in Builds
    PROVE  /\ Len(FilesOf(b)) \in Nat /\ Len(FilesOf(b)) > 0
           /\ \A n \in 1..Len(FilesOf(b)) : FilesOf(b)[n] \in NamesOf(b)
           /\ \A n \in 1..Len(FilesOf(b)) : FilesOf(b)[n] = "manifest" <=> n = Len(FilesOf(b))
<1> DEFINE s == Sorted[DOMAIN b.artifacts]
<1>1. s \in Seq(DOMAIN b.artifacts)
  BY PackStoreAssumption DEF Lists
<1>2. \A k \in DOMAIN b.artifacts : k # "manifest"
  BY Names
<1> HIDE DEF s
<1>3. /\ Len(<<"timeline">> \o s \o <<"report", "manifest">>) = Len(s) + 3
      /\ \A n \in 1..Len(s) + 3 :
            (<<"timeline">> \o s \o <<"report", "manifest">>)[n] =
                IF n = 1 THEN "timeline" ELSE IF n <= Len(s) + 1 THEN s[n - 1]
                ELSE IF n = Len(s) + 2 THEN "report" ELSE "manifest"
  BY <1>1
<1>4. \A n \in 1..Len(s) : s[n] \in DOMAIN b.artifacts
  BY <1>1
<1>5. Len(s) \in Nat
  BY <1>1
<1>6. FilesOf(b) = <<"timeline">> \o s \o <<"report", "manifest">>
  BY DEF FilesOf, s
<1> QED
  BY <1>2, <1>3, <1>4, <1>5, <1>6 DEF NamesOf, BuildFiles

LEMMA ManifestFields ==
    ASSUME NEW b
    PROVE  /\ ManifestOf(b).timeline = b.timeline
           /\ ManifestOf(b).artifacts = b.artifacts
           /\ ManifestOf(b).version = b.version
BY DEF ManifestOf

-------------------------------------------------------------------------------
(* Types.                                                                  *)

LEMMA PutTyped ==
    ASSUME Typing, NEW file, NEW content, Put(file, content)
    PROVE  /\ disk' = [f \in FileNames |-> disk'[f]]
           /\ \A f \in FileNames : disk'[f] = IF f = file THEN content ELSE disk[f]
BY DEF Typing, Put

LEMMA BuilderTyping ==
    ASSUME Typing, BuilderInv, Builder
    PROVE  Typing'
<1> USE DEF Typing
<1>1. IdleBuilder \in BuilderRecord
  BY DEF IdleBuilder, BuilderRecord
<1>2. ASSUME NEW b \in Builds, NEW how \in {"write", "remove"}, StartBuild(b, how)
      PROVE  Typing'
  <2>1. ManifestOf(b) \in Manifests
    BY DEF Manifests
  <2>2. builder' \in BuilderRecord
    BY <1>2 DEF StartBuild, BuilderRecord
  <2>3. builds' \in 0..MaxBuilds
    BY <1>2, PackStoreAssumption DEF StartBuild
  <2> QED
    BY <1>2, <2>1, <2>2, <2>3 DEF StartBuild
<1>3. CASE OpenFile
  <2>1. builder.build \in Builds
    BY <1>3 DEF OpenFile, BuilderInv
  <2>2. FilesOf(builder.build)[builder.next] \in FileNames
    BY <1>3, <2>1, ManifestIsLast, Names DEF OpenFile, BuilderInv
  <2>3. builder' \in BuilderRecord
    BY <1>3, <2>2 DEF OpenFile, Open, BuilderRecord
  <2> QED
    BY <1>3, <2>3, PutTyped DEF OpenFile, Open, BuilderWrites
<1>4. CASE FillFile
  <2>1. builder.build \in Builds
    BY <1>4 DEF FillFile, BuilderInv
  <2>2. builder' \in BuilderRecord
    <3>1. builder.next \in Nat /\ builder.next + 1 \in Nat
      BY DEF BuilderRecord
    <3>2. builder' = IdleBuilder \/ builder' = [builder EXCEPT !.next = builder.next + 1, !.file = Nothing]
      BY <1>4 DEF FillFile
    <3> QED
      BY <1>1, <3>1, <3>2 DEF BuilderRecord
  <2>3. finished' \subseteq Manifests
    BY <1>4, <2>1 DEF FillFile, Manifests
  <2> QED
    BY <1>4, <2>2, <2>3, PutTyped DEF FillFile, BuilderWrites
<1>5. CASE RemoveFile
  BY <1>5, PutTyped DEF RemoveFile, BuilderWrites
<1>6. CASE Removed \/ StartCopy
  <2>1. builder' \in BuilderRecord
    BY <1>6 DEF Removed, StartCopy, BuilderRecord
  <2> QED
    BY <1>6, <2>1 DEF Removed, StartCopy
<1>7. CASE MovePack
  <2>1. disk' = [file \in FileNames |-> disk'[file]]
    BY <1>7, PutTyped DEF MovePack, PackOf
  <2> QED
    BY <1>1, <1>7, <2>1 DEF MovePack, BuilderWrites
<1>8. CASE CopyOpens
  <2>1. PICK file \in NotCopied : Open(file)
    BY <1>8 DEF CopyOpens
  <2>2. file \in FileNames
    BY <1>8, <2>1, Names DEF CopyOpens, NotCopied, BuilderInv
  <2>3. builder' \in BuilderRecord
    BY <2>1, <2>2 DEF Open, BuilderRecord
  <2> QED
    BY <2>1, <2>3, PutTyped DEF Open, BuilderWrites
<1>9. CASE CopyFills
  <2>1. builder' \in BuilderRecord
    BY <1>1, <1>9 DEF CopyFills, BuilderRecord
  <2> QED
    BY <1>9, <2>1, PutTyped DEF CopyFills, BuilderWrites
<1>10. CASE BuilderDies
  BY <1>1, <1>10 DEF BuilderDies
<1> QED
  BY <1>2, <1>3, <1>4, <1>5, <1>6, <1>7, <1>8, <1>9, <1>10 DEF Builder

(* A tool writes nothing but the signature.                                *)
LEMMA ToolFrame ==
    ASSUME Typing, Tool
    PROVE  /\ UNCHANGED <<builder, builds, started, finished>>
           /\ disk' = [file \in FileNames |-> disk'[file]]
           /\ \A file \in FileNames \ {"signature"} : disk'[file] = disk[file]
           /\ ~OpenSignature /\ ~FillSignature => UNCHANGED disk
<1>1. CASE OpenSignature \/ FillSignature
  BY <1>1, PutTyped DEF OpenSignature, FillSignature, ToolStep
<1>2. ASSUME NEW op, NEW allowMajor, NEW key, Call(op, allowMajor, key)
      PROVE  UNCHANGED <<builder, builds, started, finished, disk>>
  BY <1>2 DEF Call
<1>3. ASSUME HashTimeline \/ HashArtifact \/ ParseTimeline
      PROVE  UNCHANGED <<builder, builds, started, finished, disk>>
  BY <1>3 DEF HashTimeline, HashArtifact, ParseTimeline, ToolStep
<1>4. ASSUME ReadPayload \/ ReadSignature \/ CompareSignature
      PROVE  UNCHANGED <<builder, builds, started, finished, disk>>
  BY <1>4 DEF ReadPayload, ReadSignature, CompareSignature, ToolStep
<1> QED
  BY <1>1, <1>2, <1>3, <1>4 DEF Tool, Typing

LEMMA ManifestOnDisk ==
    ASSUME Typing, DiskInv, NEW m \in Manifests
    PROVE  /\ m \notin {Nothing, Torn}
           /\ m.timeline \notin {Nothing, Torn}
           /\ Lists(Sorted[DOMAIN m.artifacts], DOMAIN m.artifacts)
           /\ \A k \in DOMAIN m.artifacts :
                 k \in ArtifactKeys /\ k \in FileNames /\ k # "signature" /\ m.artifacts[k] # Nothing
<1>1. PICK b \in Builds : m = ManifestOf(b)
  BY DEF Manifests
<1>2. m.timeline = b.timeline /\ m.artifacts = b.artifacts
  BY <1>1, ManifestFields
<1> QED
  BY <1>1, <1>2, Names, PackStoreAssumption DEF FileNames

(* What Call reads and how it begins.                                      *)
LEMMA Called ==
    ASSUME Typing, DiskInv, NEW op \in Ops, NEW allowMajor \in BOOLEAN, NEW key, Call(op, allowMajor, key)
    PROVE  /\ UNCHANGED <<disk, builder, started, finished>>
           /\ steady' = (builder.pc = "idle")
           /\ tool'.op = op
           /\ \/ /\ tool'.pc = "failed"
                 /\ disk["manifest"] \in {Nothing, Torn} \/ disk["timeline"] = Nothing
              \/ /\ tool'.pc = "timeline" /\ tool'.key = key
                 /\ tool'.manifest = disk["manifest"] /\ disk["manifest"] \in finished
                 /\ tool'.ok = IsSupported(disk["manifest"].version)
<1>1. UNCHANGED <<disk, builder, started, finished>> /\ steady' = (builder.pc = "idle")
  BY DEF Call
<1>2. CASE disk["manifest"] \in {Nothing, Torn} \/ disk["timeline"] = Nothing
  BY <1>1, <1>2 DEF Call, IdleTool, Exists
<1>3. CASE disk["manifest"] \notin {Nothing, Torn} /\ disk["timeline"] # Nothing
  <2>1. tool' = [IdleTool EXCEPT !.op = op, !.pc = "timeline", !.allowMajor = allowMajor, !.key = key,
                                 !.manifest = disk["manifest"],
                                 !.ok = ~VersionError(disk["manifest"].version, allowMajor)]
    BY <1>3 DEF Call, Exists
  <2>2. disk["manifest"] \in finished
    BY <1>3 DEF DiskInv
  <2> QED
    BY <1>1, <2>1, <2>2 DEF IdleTool, VersionError, IsSupported
<1> QED
  BY <1>2, <1>3

LEMMA ToolTyping ==
    ASSUME Typing, DiskInv, ToolInv, Tool
    PROVE  Typing'
<1>0. ASSUME tool' \in ToolRecord, calls' \in 0..MaxCalls, steady' \in BOOLEAN
      PROVE  Typing'
  BY <1>0, ToolFrame DEF Typing
<1>1. /\ tool \in ToolRecord /\ finished \subseteq Manifests
      /\ calls \in 0..MaxCalls /\ steady \in BOOLEAN
  BY DEF Typing
<1>2. ASSUME NEW op \in Ops, NEW allowMajor \in BOOLEAN, NEW key \in SignKeys \cup {Nothing},
             Call(op, allowMajor, key)
      PROVE  Typing'
  <2>1. calls' \in 0..MaxCalls /\ steady' \in BOOLEAN
    BY <1>1, <1>2, PackStoreAssumption DEF Call
  <2>2. disk["manifest"] \in Manifests \cup {Nothing, Torn}
    BY <1>1 DEF DiskInv
  <2>3. IdleTool \in ToolRecord
    BY DEF IdleTool, ToolRecord
  <2>4. tool' \in ToolRecord
    BY <1>2, <2>2, <2>3 DEF Call, IdleTool, ToolRecord, Ended, Checking, VersionError, IsSupported, Exists
  <2> QED
    BY <1>0, <2>1, <2>4
<1>3. ASSUME UNCHANGED <<calls, steady>>, tool' \in ToolRecord
      PROVE  Typing'
  BY <1>0, <1>1, <1>3
<1>4. ASSUME NEW outcome \in Ended \cup Accepted, End(outcome)
      PROVE  tool' \in ToolRecord
  BY <1>1, <1>4 DEF End, ToolRecord
<1>5. CASE HashTimeline
  <2>1. tool.manifest \in Manifests
    BY <1>1, <1>5 DEF HashTimeline, ToolInv, Checking
  <2>2. Sorted[DOMAIN tool.manifest.artifacts] \in Seq(ArtifactKeys)
    BY <2>1, ManifestOnDisk DEF Lists
  <2>3. tool' \in ToolRecord
    BY <1>1, <1>4, <1>5, <2>2 DEF HashTimeline, ToolRecord, Ended, Checking
  <2> QED
    BY <1>3, <1>5, <2>3 DEF HashTimeline, ToolStep
<1>6. CASE HashArtifact
  <2>1. tool.todo \in Seq(ArtifactKeys) /\ tool.todo # <<>>
    BY <1>1, <1>6 DEF HashArtifact, ToolRecord
  <2>2. Tail(tool.todo) \in Seq(ArtifactKeys)
    BY <2>1
  <2>3. tool' \in ToolRecord
    BY <1>1, <1>6, <2>2 DEF HashArtifact, ToolRecord
  <2> QED
    BY <1>3, <1>6, <2>3 DEF HashArtifact, ToolStep
<1>7. CASE ParseTimeline
  <2>1. tool' \in ToolRecord
    <3>1. tool.op \in Ops
      BY <1>7 DEF ParseTimeline, ToolInv
    <3>2. [validate |-> "valid", sign |-> "payload", verify |-> "signature"][tool.op]
             \in {"valid", "payload", "signature"}
      BY <3>1 DEF Ops
    <3> QED
      BY <1>4, <1>7, <3>2 DEF ParseTimeline, Ended, Accepted
  <2> QED
    BY <1>3, <1>7, <2>1 DEF ParseTimeline, ToolStep
<1>8. CASE ReadPayload
  <2>1. ~Unreadable("manifest") => disk["manifest"] \in Manifests
    BY <1>1 DEF Unreadable, Exists, DiskInv
  <2>2. CASE Unreadable("manifest")
    BY <1>3, <1>4, <1>8, <2>2 DEF ReadPayload, ToolStep, Ended
  <2>3. CASE ~Unreadable("manifest")
    <3>1. tool' = [tool EXCEPT !.pc = "open", !.payload = disk["manifest"]]
      BY <1>8, <2>3 DEF ReadPayload
    <3>2. tool' \in ToolRecord
      BY <1>1, <2>1, <2>3, <3>1 DEF ToolRecord, Accepted
    <3> QED
      BY <1>3, <1>8, <3>2 DEF ReadPayload, ToolStep
  <2> QED
    BY <2>2, <2>3
<1>9. CASE OpenSignature \/ FillSignature
  BY <1>3, <1>4, <1>9 DEF OpenSignature, FillSignature, ToolStep, Ended, Accepted
<1>10. CASE ReadSignature
  <2>1. disk["signature"] \in {Nothing, Torn} \cup Signatures
    BY <1>1 DEF DiskInv, Signatures
  <2>2. tool' \in ToolRecord
    BY <1>1, <1>4, <1>10, <2>1 DEF ReadSignature, Exists, ToolRecord, Ended, Accepted
  <2> QED
    BY <1>3, <1>10, <2>2 DEF ReadSignature, ToolStep
<1>11. CASE CompareSignature
  BY <1>3, <1>4, <1>11 DEF CompareSignature, ToolStep, Ended
<1> QED
  BY <1>2, <1>5, <1>6, <1>7, <1>8, <1>9, <1>10, <1>11 DEF Tool, Ops

-------------------------------------------------------------------------------
(* Builders.                                                               *)

LEMMA BuilderFrame ==
    ASSUME Typing, BuilderInv, SteadyInv, Builder
    PROVE  /\ UNCHANGED tool /\ ~steady'
           /\ started \subseteq started' /\ finished \subseteq finished'
<1>1. steady => builder.pc = "idle"
  BY DEF SteadyInv
<1>2. ASSUME NEW b \in Builds, NEW how \in {"write", "remove"}, StartBuild(b, how)
      PROVE  UNCHANGED tool /\ ~steady' /\ started \subseteq started' /\ finished \subseteq finished'
  BY <1>2 DEF StartBuild
<1>3. CASE OpenFile \/ FillFile
  BY <1>3 DEF OpenFile, Open, FillFile, BuilderWrites
<1>4. CASE RemoveFile \/ MovePack
  BY <1>4 DEF RemoveFile, MovePack, BuilderWrites
<1>5. CASE CopyOpens \/ CopyFills
  BY <1>5 DEF CopyOpens, Open, CopyFills, BuilderWrites
<1>6. CASE Removed \/ StartCopy \/ BuilderDies
  BY <1>1, <1>6 DEF Removed, StartCopy, BuilderDies
<1> QED
  BY <1>2, <1>3, <1>4, <1>5, <1>6 DEF Builder

(* A file of build b is put on disk, or opened, or a file is removed: the  *)
(* manifest that can be read stays one of a finished build if the          *)
(* manifest of b counts as finished when it is put.                        *)
LEMMA DiskStep ==
    ASSUME Typing, DiskInv,
           started \subseteq started', finished \subseteq finished',
           finished' \subseteq {ManifestOf(b) : b \in started'},
           disk'["manifest"] \in {disk["manifest"], Nothing, Torn} \cup finished',
           disk'["signature"] \in {disk["signature"], Nothing}
    PROVE  DiskInv'
BY DEF DiskInv

LEMMA BuilderStep ==
    ASSUME Typing, BuilderInv, DiskInv, SteadyInv, Builder
    PROVE  BuilderInv' /\ DiskInv'
<1> DEFINE B == builder.build
<1>0. /\ started \subseteq started' /\ finished \subseteq finished' /\ started \subseteq Builds
      /\ finished \subseteq {ManifestOf(b) : b \in started}
      /\ builder \in BuilderRecord
      /\ {"manifest", "signature"} \subseteq FileNames
  BY BuilderFrame DEF Typing, DiskInv, FileNames, BuildFiles
<1>2. ASSUME NEW b \in Builds, NEW how \in {"write", "remove"}, StartBuild(b, how)
      PROVE  BuilderInv' /\ DiskInv'
  <2>1. /\ builder' = [pc |-> how, build |-> b, next |-> 1, file |-> Nothing]
        /\ started' = started \cup {b} /\ UNCHANGED disk
        /\ finished' = IF how = "remove" THEN finished \cup {ManifestOf(b)} ELSE finished
    BY <1>2 DEF StartBuild
  <2>2. BuilderInv'
    BY <2>1, ManifestIsLast DEF BuilderInv
  <2>3. finished' \subseteq {ManifestOf(d) : d \in started'}
    BY <1>0, <2>1
  <2> QED
    BY <1>0, <2>1, <2>2, <2>3, DiskStep
<1>3. CASE OpenFile
  <2>1. /\ builder.pc = "write" /\ B \in started /\ builder.next \in 1..Len(FilesOf(B))
        /\ Put(FilesOf(B)[builder.next], Torn)
        /\ builder' = [builder EXCEPT !.file = FilesOf(B)[builder.next]]
        /\ UNCHANGED <<finished, started>>
    BY <1>3 DEF OpenFile, Open, BuilderInv, BuilderWrites
  <2>2. FilesOf(B)[builder.next] # "signature"
    BY <1>0, <2>1, ManifestIsLast, Names
  <2>3. BuilderInv'
    BY <1>0, <2>1 DEF BuilderInv, BuilderRecord
  <2>4. disk'["manifest"] \in {disk["manifest"], Torn} /\ disk'["signature"] = disk["signature"]
    BY <1>0, <2>1, <2>2, PutTyped
  <2> QED
    BY <1>0, <2>1, <2>3, <2>4, DiskStep
<1>4. CASE FillFile
  <2>1. /\ builder.pc = "write" /\ B \in started /\ builder.next \in 1..Len(FilesOf(B))
        /\ builder.file = FilesOf(B)[builder.next]
        /\ Put(builder.file, FileContent(B, builder.file))
        /\ UNCHANGED started
    BY <1>4 DEF FillFile, BuilderInv, BuilderWrites
  <2>2. builder.file # "signature"
    BY <1>0, <2>1, ManifestIsLast, Names
  <2>3. disk'["signature"] = disk["signature"]
    BY <1>0, <2>1, <2>2, PutTyped
  <2>4. CASE builder.next < Len(FilesOf(B))
    <3>1. builder' = [builder EXCEPT !.next = builder.next + 1, !.file = Nothing] /\ UNCHANGED finished
      BY <1>4, <2>4 DEF FillFile
    <3>2. builder.next + 1 \in 1..Len(FilesOf(B))
      BY <1>0, <2>1, <2>4, ManifestIsLast
    <3>3. BuilderInv'
      BY <1>0, <2>1, <3>1, <3>2 DEF BuilderInv, BuilderRecord
    <3>4. builder.file # "manifest"
      BY <1>0, <2>1, <2>4, ManifestIsLast
    <3>5. disk'["manifest"] = disk["manifest"]
      BY <1>0, <2>1, <3>4, PutTyped
    <3> QED
      BY <1>0, <2>1, <2>3, <3>1, <3>3, <3>5, DiskStep
  <2>5. CASE ~(builder.next < Len(FilesOf(B)))
    <3>1. builder' = IdleBuilder /\ finished' = finished \cup {ManifestOf(B)}
      BY <1>4, <2>5 DEF FillFile
    <3>2. BuilderInv'
      BY <3>1 DEF BuilderInv, IdleBuilder
    <3>3. disk'["manifest"] \in {disk["manifest"], ManifestOf(B)}
      BY <1>0, <2>1, PutTyped, Names
    <3>4. finished' \subseteq {ManifestOf(d) : d \in started'}
      BY <1>0, <2>1, <3>1
    <3> QED
      BY <1>0, <2>3, <3>1, <3>2, <3>3, <3>4, DiskStep
  <2> QED
    BY <2>4, <2>5
<1>5. CASE RemoveFile
  <2>1. PICK file \in FileNames : Put(file, Nothing)
    BY <1>5 DEF RemoveFile
  <2>2. UNCHANGED <<builder, finished, started>>
    BY <1>5 DEF RemoveFile, BuilderWrites
  <2>3. BuilderInv'
    BY <2>2 DEF BuilderInv
  <2>4. disk'["manifest"] \in {disk["manifest"], Nothing} /\ disk'["signature"] \in {disk["signature"], Nothing}
    BY <1>0, <2>1, PutTyped
  <2> QED
    BY <1>0, <2>2, <2>3, <2>4, DiskStep
<1>6. CASE Removed \/ StartCopy
  <2>1. /\ builder.pc \in {"remove", "move"}
        /\ builder' = [builder EXCEPT !.pc = "move"] \/ builder' = [builder EXCEPT !.pc = "copy"]
        /\ UNCHANGED <<disk, finished, started>>
    BY <1>6 DEF Removed, StartCopy
  <2>2. builder.file = Nothing
    BY <2>1 DEF BuilderInv
  <2>3. BuilderInv'
    BY <1>0, <2>1, <2>2 DEF BuilderInv, BuilderRecord
  <2> QED
    BY <1>0, <2>1, <2>3, DiskStep
<1>7. CASE MovePack
  <2>1. builder' = IdleBuilder /\ UNCHANGED <<finished, started>> /\ B \in Builds /\ ManifestOf(B) \in finished
    BY <1>0, <1>7 DEF MovePack, BuilderWrites, BuilderInv
  <2>2. BuilderInv'
    BY <2>1 DEF BuilderInv, IdleBuilder
  <2>3. CASE disk' = PackOf(B)
    BY <1>0, <2>1, <2>2, <2>3, Names, DiskStep DEF PackOf
  <2>4. CASE Put("pack", Torn)
    BY <1>0, <2>1, <2>2, <2>4, PutTyped, DiskStep
  <2> QED
    BY <1>7, <2>3, <2>4 DEF MovePack
<1>8. CASE CopyOpens
  <2>1. PICK file \in NamesOf(B) : Open(file)
    BY <1>8 DEF CopyOpens, NotCopied
  <2>2. /\ Put(file, Torn) /\ builder' = [builder EXCEPT !.file = file]
        /\ builder.pc = "copy" /\ UNCHANGED <<finished, started>> /\ B \in Builds
    BY <1>0, <1>8, <2>1 DEF CopyOpens, Open, BuilderWrites, BuilderInv
  <2>3. BuilderInv'
    BY <1>0, <2>1, <2>2 DEF BuilderInv, BuilderRecord
  <2>4. disk'["manifest"] \in {disk["manifest"], Torn} /\ disk'["signature"] = disk["signature"]
    BY <1>0, <2>1, <2>2, PutTyped, Names
  <2> QED
    BY <1>0, <2>2, <2>3, <2>4, DiskStep
<1>9. CASE CopyFills
  <2>1. /\ builder.pc = "copy" /\ B \in Builds /\ builder.file \in NamesOf(B) /\ ManifestOf(B) \in finished
        /\ Put(builder.file, FileContent(B, builder.file))
        /\ builder' = IdleBuilder \/ builder' = [builder EXCEPT !.file = Nothing]
        /\ UNCHANGED <<finished, started>>
    BY <1>0, <1>9 DEF CopyFills, BuilderWrites, BuilderInv
  <2>2. BuilderInv'
    BY <1>0, <2>1 DEF BuilderInv, BuilderRecord, IdleBuilder
  <2>3. disk'["manifest"] \in {disk["manifest"]} \cup finished /\ disk'["signature"] = disk["signature"]
    BY <1>0, <2>1, PutTyped, Names
  <2> QED
    BY <1>0, <2>1, <2>2, <2>3, DiskStep
<1>10. CASE BuilderDies
  <2>1. builder' = IdleBuilder /\ UNCHANGED <<disk, finished, started>>
    BY <1>10 DEF BuilderDies
  <2>2. BuilderInv'
    BY <2>1 DEF BuilderInv, IdleBuilder
  <2> QED
    BY <1>0, <2>1, <2>2, DiskStep
<1> QED
  BY <1>2, <1>3, <1>4, <1>5, <1>6, <1>7, <1>8, <1>9, <1>10 DEF Builder

LEMMA BuilderKeepsTool ==
    ASSUME IInv, Builder
    PROVE  ToolInv' /\ SteadyInv' /\ IntactInv'
BY BuilderFrame DEF IInv, ToolInv, SteadyInv, IntactInv

-------------------------------------------------------------------------------
(* Tools.                                                                  *)

LEMMA ToolKeepsBuilder ==
    ASSUME IInv, Tool
    PROVE  BuilderInv' /\ DiskInv'
<1> USE DEF IInv
<1>1. BuilderInv'
  BY ToolFrame DEF BuilderInv
<1>2. "manifest" \in FileNames \ {"signature"} /\ "signature" \in FileNames
  BY DEF FileNames, BuildFiles
<1>3. UNCHANGED <<started, finished>> /\ disk'["manifest"] = disk["manifest"]
  BY <1>2, ToolFrame
<1>4. disk'["signature"] \in {disk["signature"], Torn} \cup [payload : finished, key : SignKeys]
  <2>1. CASE OpenSignature
    BY <1>2, <2>1, PutTyped DEF OpenSignature
  <2>2. CASE FillSignature
    <3>1. tool.payload \in finished /\ tool.key \in SignKeys
      BY <2>2 DEF FillSignature, ToolInv
    <3> QED
      BY <1>2, <2>2, <3>1, PutTyped DEF FillSignature
  <2>3. CASE ~OpenSignature /\ ~FillSignature
    BY <2>3, ToolFrame
  <2> QED
    BY <2>1, <2>2, <2>3
<1> QED
  BY <1>1, <1>3, <1>4 DEF DiskInv

(* What a step of a tool leaves of the disk's contents.                    *)
LEMMA ContentsStay ==
    ASSUME IInv, Tool
    PROVE  /\ disk'["manifest"] = disk["manifest"] /\ disk'["timeline"] = disk["timeline"]
           /\ \A k \in ArtifactKeys : disk'[k] = disk[k]
           /\ \A b \in Builds : HoldsHashedFiles(b)' <=> HoldsHashedFiles(b)
<1> USE DEF IInv
<1>1. {"manifest", "timeline"} \cup ArtifactKeys \subseteq FileNames \ {"signature"}
  BY PackStoreAssumption DEF FileNames, BuildFiles
<1>2. \A file \in {"manifest", "timeline"} \cup ArtifactKeys : disk'[file] = disk[file]
  BY <1>1, ToolFrame
<1>3. \A b \in Builds : DOMAIN b.artifacts \subseteq ArtifactKeys
  BY PackStoreAssumption
<1> QED
  BY <1>2, <1>3 DEF HoldsHashedFiles, Exists

(* A call sees the files one after the other.                              *)
LEMMA CallStep ==
    ASSUME IInv, NEW op \in Ops, NEW allowMajor \in BOOLEAN, NEW key \in SignKeys \cup {Nothing},
           op = "validate" \/ key \in SignKeys,
           Call(op, allowMajor, key), Tool
    PROVE  ToolInv' /\ SteadyInv' /\ IntactInv'
<1> USE DEF IInv
<1>1. /\ UNCHANGED <<disk, builder, started, finished>>
      /\ steady' = (builder.pc = "idle")
      /\ tool'.op = op
      /\ \/ /\ tool'.pc = "failed"
            /\ disk["manifest"] \in {Nothing, Torn} \/ disk["timeline"] = Nothing
         \/ /\ tool'.pc = "timeline" /\ tool'.key = key
            /\ tool'.manifest = disk["manifest"] /\ disk["manifest"] \in finished
            /\ tool'.ok = IsSupported(disk["manifest"].version)
  BY Called
<1>2. ToolInv'
  BY <1>1 DEF ToolInv, Checking, Accepted, Passed, Ops
<1>3. SteadyInv'
  BY <1>1 DEF SteadyInv, Checking, Accepted, Passed
<1>4. ASSUME NEW b \in started, HoldsHashedFiles(b), b.version = "current"
      PROVE  tool'.pc = "timeline" /\ tool'.ok
  <2>1. b \in Builds /\ ManifestOf(b) \in Manifests
    BY DEF Typing, Manifests
  <2>2. disk["manifest"] = ManifestOf(b) /\ disk["manifest"] \notin {Nothing, Torn} /\ disk["timeline"] # Nothing
    BY <1>4, <2>1, ManifestOnDisk DEF HoldsHashedFiles, Exists
  <2>3. disk["manifest"].version = "current"
    BY <1>4, <2>2, ManifestFields
  <2> QED
    BY <1>1, <2>2, <2>3 DEF IsSupported
<1>5. IntactInv'
  BY <1>1, <1>4 DEF IntactInv, HoldsHashedFiles, Exists
<1> QED
  BY <1>2, <1>3, <1>5

LEMMA HashTimelineStep ==
    ASSUME IInv, HashTimeline, Tool
    PROVE  ToolInv' /\ SteadyInv' /\ IntactInv'
<1> USE DEF IInv
<1> DEFINE M == tool.manifest
<1>1. /\ tool.pc = "timeline" /\ UNCHANGED <<disk, builder, started, finished, steady>>
      /\ M \in finished /\ M \in Manifests /\ tool \in ToolRecord /\ tool.op \in Ops
      /\ started \subseteq Builds
  BY DEF HashTimeline, ToolStep, ToolInv, Checking, Typing
<1>2. CASE ~Exists("timeline")
  <2>1. tool' = [tool EXCEPT !.pc = "raised"]
    BY <1>2 DEF HashTimeline, End
  <2>2. tool'.pc = "raised" /\ tool'.op = tool.op
    BY <1>1, <2>1 DEF ToolRecord
  <2>3. \A b \in started : ~HoldsHashedFiles(b)
    BY <1>2 DEF HoldsHashedFiles
  <2> QED
    BY <1>1, <1>2, <2>2, <2>3 DEF ToolInv, SteadyInv, IntactInv, Checking, Accepted, Passed, HoldsHashedFiles, Exists
<1>3. CASE Exists("timeline")
  <2>1. tool' = [tool EXCEPT !.pc = "artifacts", !.ok = tool.ok /\ disk["timeline"] = M.timeline,
                             !.todo = Sorted[DOMAIN M.artifacts]]
    BY <1>3 DEF HashTimeline
  <2>2. /\ tool'.pc = "artifacts" /\ tool'.op = tool.op /\ tool'.manifest = M /\ tool'.key = tool.key
        /\ tool'.ok = (tool.ok /\ disk["timeline"] = M.timeline)
        /\ tool'.todo = Sorted[DOMAIN M.artifacts]
    BY <1>1, <2>1 DEF ToolRecord
  <2>3. Lists(tool'.todo, DOMAIN M.artifacts)
    BY <1>1, <2>2, ManifestOnDisk
  <2>4. ToolInv'
    BY <1>1, <2>2, <2>3 DEF ToolInv, Checking, Accepted, Passed, Lists
  <2>5. (DOMAIN M.artifacts) \ Todo' = {}
    BY <2>3 DEF Lists, Todo
  <2>6. SteadyInv'
    BY <1>1, <2>2, <2>5 DEF SteadyInv, Checking, Accepted, Passed, Holds
  <2>7. ASSUME steady, NEW b \in started, HoldsHashedFiles(b), b.version = "current"
        PROVE  tool'.ok
    <3>1. tool.ok
      BY <1>1, <2>7 DEF IntactInv, Checking
    <3>2. disk["manifest"] = M /\ disk["manifest"] = ManifestOf(b)
      BY <1>1, <2>7 DEF SteadyInv, Checking, HoldsHashedFiles
    <3>3. disk["timeline"] = M.timeline
      BY <2>7, <3>2, ManifestFields DEF HoldsHashedFiles
    <3> QED
      BY <2>2, <3>1, <3>3
  <2>8. IntactInv'
    BY <1>1, <2>2, <2>7 DEF IntactInv, HoldsHashedFiles, Exists
  <2> QED
    BY <2>4, <2>6, <2>8
<1> QED
  BY <1>2, <1>3

(* The first of a sequence is taken off.                                   *)
LEMMA OneLess ==
    ASSUME NEW S, NEW s \in Seq(S), s # <<>>
    PROVE  /\ Head(s) \in S /\ Tail(s) \in Seq(S)
           /\ {s[n] : n \in DOMAIN s} = {Head(s)} \cup {Tail(s)[n] : n \in DOMAIN Tail(s)}
<1>1. Head(s) \in S /\ Tail(s) \in Seq(S) /\ Head(s) = s[1] /\ Len(s) \in Nat /\ Len(s) > 0
  OBVIOUS
<1>2. Len(Tail(s)) = Len(s) - 1 /\ \A n \in 1..Len(s) - 1 : Tail(s)[n] = s[n + 1]
  OBVIOUS
<1>3. DOMAIN s = 1..Len(s) /\ DOMAIN Tail(s) = 1..Len(s) - 1
  BY <1>1, <1>2
<1>4. ASSUME NEW n \in DOMAIN s, n # 1
      PROVE  n - 1 \in DOMAIN Tail(s) /\ Tail(s)[n - 1] = s[n]
  BY <1>1, <1>2, <1>3, <1>4
<1>5. ASSUME NEW n \in DOMAIN Tail(s)
      PROVE  n + 1 \in DOMAIN s /\ Tail(s)[n] = s[n + 1]
  BY <1>1, <1>2, <1>3
<1>6. 1 \in DOMAIN s
  BY <1>1, <1>3
<1>7. \A n \in DOMAIN s : s[n] \in {Head(s)} \cup {Tail(s)[m] : m \in DOMAIN Tail(s)}
  BY <1>1, <1>4
<1>8. \A n \in DOMAIN Tail(s) : Tail(s)[n] \in {s[m] : m \in DOMAIN s}
  BY <1>5
<1>9. Head(s) \in {s[m] : m \in DOMAIN s}
  BY <1>1, <1>6
<1> QED
  BY <1>1, <1>7, <1>8, <1>9

LEMMA HashArtifactStep ==
    ASSUME IInv, HashArtifact, Tool
    PROVE  ToolInv' /\ SteadyInv' /\ IntactInv'
<1> USE DEF IInv
<1> DEFINE M == tool.manifest
           key == Head(tool.todo)
<1>1. /\ tool.pc = "artifacts" /\ tool.todo # <<>> /\ UNCHANGED <<disk, builder, started, finished, steady>>
      /\ M \in finished /\ M \in Manifests /\ tool \in ToolRecord /\ tool.op \in Ops
      /\ tool.todo \in Seq(DOMAIN M.artifacts)
      /\ started \subseteq Builds
  BY DEF HashArtifact, ToolStep, ToolInv, Checking, Typing
<1>2. tool' = [tool EXCEPT !.todo = Tail(tool.todo),
                           !.ok = tool.ok /\ Exists(key) /\ disk[key] = M.artifacts[key]]
  BY DEF HashArtifact
<1>3. /\ tool'.pc = "artifacts" /\ tool'.op = tool.op /\ tool'.manifest = M /\ tool'.key = tool.key
      /\ tool'.ok = (tool.ok /\ Exists(key) /\ disk[key] = M.artifacts[key])
      /\ tool'.todo = Tail(tool.todo)
  BY <1>1, <1>2 DEF ToolRecord
<1>4. key \in DOMAIN M.artifacts /\ Tail(tool.todo) \in Seq(DOMAIN M.artifacts) /\ Todo = {key} \cup Todo'
  <2>1. /\ key \in DOMAIN M.artifacts /\ Tail(tool.todo) \in Seq(DOMAIN M.artifacts)
        /\ {tool.todo[n] : n \in DOMAIN tool.todo} =
              {key} \cup {Tail(tool.todo)[n] : n \in DOMAIN Tail(tool.todo)}
    BY <1>1, OneLess
  <2> QED
    BY <1>3, <2>1 DEF Todo
<1>5. ToolInv'
  BY <1>1, <1>3, <1>4 DEF ToolInv, Checking, Accepted, Passed
<1>6. SteadyInv'
  <2>1. ASSUME steady, tool'.ok
        PROVE  Holds(M, (DOMAIN M.artifacts) \ Todo')
    <3>1. Holds(M, (DOMAIN M.artifacts) \ Todo) /\ disk[key] = M.artifacts[key]
      BY <1>1, <1>3, <2>1 DEF SteadyInv
    <3> QED
      BY <1>4, <3>1 DEF Holds
  <2> QED
    BY <1>1, <1>3, <2>1 DEF SteadyInv, Checking, Accepted, Passed, Holds
<1>7. ASSUME steady, NEW b \in started, HoldsHashedFiles(b), b.version = "current"
      PROVE  tool'.ok
  <2>1. tool.ok
    BY <1>1, <1>7 DEF IntactInv, Checking
  <2>2. M = ManifestOf(b)
    BY <1>1, <1>7 DEF SteadyInv, Checking, HoldsHashedFiles
  <2>3. key \in DOMAIN b.artifacts /\ M.artifacts = b.artifacts
    BY <1>4, <2>2, ManifestFields
  <2> QED
    BY <1>3, <1>7, <2>1, <2>3 DEF HoldsHashedFiles
<1>8. IntactInv'
  BY <1>1, <1>3, <1>7 DEF IntactInv, HoldsHashedFiles, Exists
<1> QED
  BY <1>5, <1>6, <1>8

LEMMA ParseTimelineStep ==
    ASSUME IInv, ParseTimeline, Tool
    PROVE  ToolInv' /\ SteadyInv' /\ IntactInv'
<1> USE DEF IInv
<1> DEFINE M == tool.manifest
<1>1. /\ tool.pc = "artifacts" /\ tool.todo = <<>> /\ UNCHANGED <<disk, builder, started, finished, steady>>
      /\ M \in finished /\ tool \in ToolRecord /\ tool.op \in Ops
      /\ tool.op \in {"sign", "verify"} => tool.key \in SignKeys
      /\ started \subseteq Builds
  BY DEF ParseTimeline, ToolStep, ToolInv, Checking, Typing
<1>2. PICK outcome \in {"raised", "failed", "valid", "payload", "signature"} :
         /\ End(outcome)
         /\ outcome \in {"valid", "payload", "signature"} => tool.ok /\ Exists("timeline")
         /\ outcome \in {"raised", "failed"} => ~Exists("timeline") \/ ~tool.ok \/ disk["timeline"] = Torn
         /\ outcome \in {"payload", "signature"} => tool.op # "validate"
  BY <1>1 DEF ParseTimeline, Ops
<1>3. /\ tool'.pc = outcome /\ tool'.op = tool.op /\ tool'.manifest = M /\ tool'.key = tool.key
      /\ tool'.ok = tool.ok /\ tool'.todo = tool.todo
  BY <1>1, <1>2 DEF End, ToolRecord
<1>4. ToolInv'
  BY <1>1, <1>2, <1>3 DEF ToolInv, Checking, Accepted, Passed, Ops
<1>5. Todo = {}
  BY <1>1 DEF Todo
<1>6. SteadyInv'
  <2>1. ASSUME steady, tool.ok
        PROVE  Holds(M, DOMAIN M.artifacts)
    BY <1>1, <1>5, <2>1 DEF SteadyInv, Holds
  <2> QED
    BY <1>1, <1>2, <1>3, <2>1 DEF SteadyInv, Checking, Accepted, Passed, Holds
<1>7. ASSUME steady, NEW b \in started, HoldsHashedFiles(b), b.version = "current"
      PROVE  tool.ok /\ Exists("timeline") /\ disk["timeline"] # Torn
  BY <1>1, <1>7, PackStoreAssumption DEF IntactInv, Checking, HoldsHashedFiles
<1>8. IntactInv'
  BY <1>1, <1>2, <1>3, <1>7 DEF IntactInv, HoldsHashedFiles, Exists, Checking
<1> QED
  BY <1>4, <1>6, <1>8

LEMMA SigningStep ==
    ASSUME IInv, ReadPayload \/ OpenSignature \/ FillSignature, Tool
    PROVE  ToolInv' /\ SteadyInv' /\ IntactInv'
<1> USE DEF IInv
<1> DEFINE M == tool.manifest
<1>1. /\ tool.pc \in {"payload", "open", "fill"} /\ UNCHANGED <<builder, started, finished, steady>>
      /\ M \in finished /\ M \in Manifests /\ tool \in ToolRecord /\ tool.op \in {"sign", "verify"}
      /\ tool.key \in SignKeys
      /\ started \subseteq Builds
  BY DEF ReadPayload, OpenSignature, FillSignature, ToolStep, ToolInv, Accepted, Passed, Typing, Ops
<1>l. \E payload : \E pc \in {"raised", "open", "fill", "signed"} :
         /\ tool' = [tool EXCEPT !.pc = pc, !.payload = payload]
         /\ pc \in {"open", "fill"} => payload \in finished
  <2>1. CASE ReadPayload
    <3>1. Unreadable("manifest") \/ disk["manifest"] \in finished
      BY DEF Unreadable, Exists, DiskInv
    <3>2. CASE Unreadable("manifest")
      <4>1. tool' = [tool EXCEPT !.pc = "raised", !.payload = tool.payload]
        BY <1>1, <2>1, <3>2 DEF ReadPayload, End, ToolRecord
      <4> QED
        BY <4>1
    <3>3. CASE ~Unreadable("manifest")
      BY <2>1, <3>1, <3>3 DEF ReadPayload
    <3> QED
      BY <3>2, <3>3
  <2>2. CASE OpenSignature \/ FillSignature
    <3>1. tool.pc \in {"open", "fill"} /\ tool.payload \in finished
      BY <2>2 DEF OpenSignature, FillSignature, ToolInv
    <3>2. PICK pc \in {"fill", "signed"} : tool' = [tool EXCEPT !.pc = pc]
      BY <2>2 DEF OpenSignature, FillSignature, End
    <3>3. tool' = [tool EXCEPT !.pc = pc, !.payload = tool.payload]
      BY <1>1, <3>2 DEF ToolRecord
    <3> QED
      BY <3>1, <3>3
  <2> QED
    BY <2>1, <2>2
<1>p. PICK payload : \E pc \in {"raised", "open", "fill", "signed"} :
         /\ tool' = [tool EXCEPT !.pc = pc, !.payload = payload]
         /\ pc \in {"open", "fill"} => payload \in finished
  BY <1>l
<1>2. PICK pc \in {"raised", "open", "fill", "signed"} :
         /\ tool' = [tool EXCEPT !.pc = pc, !.payload = payload]
         /\ pc \in {"open", "fill"} => payload \in finished
  BY <1>p
<1>3. /\ tool'.pc = pc /\ tool'.op = tool.op /\ tool'.manifest = M /\ tool'.key = tool.key
      /\ tool'.payload = payload
  BY <1>1, <1>2 DEF ToolRecord
<1>4. ToolInv'
  BY <1>1, <1>2, <1>3 DEF ToolInv, Checking, Accepted, Passed, Ops
<1>5. /\ DOMAIN M.artifacts \subseteq ArtifactKeys
      /\ disk'["timeline"] = disk["timeline"] /\ \A k \in ArtifactKeys : disk'[k] = disk[k]
  BY <1>1, ContentsStay, ManifestOnDisk
<1>6. /\ disk'["manifest"] = disk["manifest"]
      /\ \A b \in started : HoldsHashedFiles(b)' <=> HoldsHashedFiles(b)
  BY <1>1, ContentsStay
<1>7. SteadyInv'
  <2>1. steady => Holds(M, DOMAIN M.artifacts) /\ disk["manifest"] = M /\ builder.pc = "idle"
    BY <1>1 DEF SteadyInv, Accepted
  <2>2. steady => disk'["timeline"] = M.timeline /\ \A k \in DOMAIN M.artifacts : disk'[k] = M.artifacts[k]
    BY <1>5, <2>1 DEF Holds
  <2> QED
    BY <1>1, <1>2, <1>3, <1>6, <2>1, <2>2 DEF SteadyInv, Holds, Checking, Accepted, Passed
<1>8. IntactInv'
  BY <1>1, <1>2, <1>3, <1>6 DEF IntactInv, Checking
<1> QED
  BY <1>4, <1>7, <1>8

LEMMA VerifyingStep ==
    ASSUME IInv, ReadSignature \/ CompareSignature, Tool
    PROVE  ToolInv' /\ SteadyInv' /\ IntactInv'
<1> USE DEF IInv
<1> DEFINE M == tool.manifest
<1>1. /\ tool.pc \in {"signature", "compare"} /\ UNCHANGED <<disk, builder, started, finished, steady>>
      /\ M \in finished /\ M \in Manifests /\ tool \in ToolRecord /\ tool.op \in {"sign", "verify"}
      /\ tool.key \in SignKeys
      /\ started \subseteq Builds /\ finished \subseteq Manifests
  BY DEF ReadSignature, CompareSignature, ToolStep, ToolInv, Accepted, Passed, Typing, Ops
<1>l. \E payload : \E pc \in {"failed", "raised", "compare", "verified"} :
         /\ tool' = [tool EXCEPT !.pc = pc, !.payload = payload]
         /\ pc \in {"compare", "verified"} => payload \in Signatures
         /\ pc = "verified" => payload.payload = disk["manifest"] /\ payload.key = tool.key
  <2>1. CASE ReadSignature
    <3>1. disk["signature"] \in {Nothing, Torn} \cup Signatures
      BY <1>1 DEF DiskInv, Signatures
    <3>2. CASE disk["signature"] \in {Nothing, Torn}
      <4>1. PICK pc \in {"failed", "raised"} : tool' = [tool EXCEPT !.pc = pc]
        BY <2>1, <3>2 DEF ReadSignature, End, Exists
      <4>2. tool' = [tool EXCEPT !.pc = pc, !.payload = tool.payload]
        BY <1>1, <4>1 DEF ToolRecord
      <4> QED
        BY <4>2
    <3>3. CASE disk["signature"] \notin {Nothing, Torn}
      BY <2>1, <3>1, <3>3 DEF ReadSignature, Exists
    <3> QED
      BY <3>2, <3>3
  <2>2. CASE CompareSignature
    <3>1. tool.payload \in Signatures
      BY <2>2 DEF CompareSignature, ToolInv
    <3>2. PICK pc \in {"failed", "raised", "verified"} :
             /\ tool' = [tool EXCEPT !.pc = pc]
             /\ pc = "verified" => tool.payload.payload = disk["manifest"] /\ tool.payload.key = tool.key
      BY <2>2 DEF CompareSignature, End
    <3>3. tool' = [tool EXCEPT !.pc = pc, !.payload = tool.payload]
      BY <1>1, <3>2 DEF ToolRecord
    <3> QED
      BY <3>1, <3>2, <3>3
  <2> QED
    BY <2>1, <2>2
<1>p. PICK payload : \E pc \in {"failed", "raised", "compare", "verified"} :
         /\ tool' = [tool EXCEPT !.pc = pc, !.payload = payload]
         /\ pc \in {"compare", "verified"} => payload \in Signatures
         /\ pc = "verified" => payload.payload = disk["manifest"] /\ payload.key = tool.key
  BY <1>l
<1>2. PICK pc \in {"failed", "raised", "compare", "verified"} :
         /\ tool' = [tool EXCEPT !.pc = pc, !.payload = payload]
         /\ pc \in {"compare", "verified"} => payload \in Signatures
         /\ pc = "verified" => payload.payload = disk["manifest"] /\ payload.key = tool.key
  BY <1>p
<1>3. /\ tool'.pc = pc /\ tool'.op = tool.op /\ tool'.manifest = M /\ tool'.key = tool.key
      /\ tool'.payload = payload
  BY <1>1, <1>2 DEF ToolRecord
<1>4. ToolInv'
  BY <1>1, <1>2, <1>3 DEF ToolInv, Checking, Accepted, Passed, Ops
<1>5. SteadyInv'
  <2>1. steady => Holds(M, DOMAIN M.artifacts) /\ disk["manifest"] = M /\ builder.pc = "idle"
    BY <1>1 DEF SteadyInv, Accepted
  <2>2. steady => disk'["timeline"] = M.timeline /\ \A k \in DOMAIN M.artifacts : disk'[k] = M.artifacts[k]
    BY <1>1, <2>1 DEF Holds
  <2> QED
    BY <1>1, <1>2, <1>3, <2>1, <2>2 DEF SteadyInv, Holds, Checking, Accepted, Passed
<1>6. IntactInv'
  BY <1>1, <1>2, <1>3 DEF IntactInv, Checking, HoldsHashedFiles, Exists
<1> QED
  BY <1>4, <1>5, <1>6

LEMMA ToolKeepsTool ==
    ASSUME IInv, Tool
    PROVE  ToolInv' /\ SteadyInv' /\ IntactInv'
<1>1. ASSUME NEW op \in Ops, NEW allowMajor \in BOOLEAN, NEW key \in SignKeys \cup {Nothing},
             op = "validate" \/ key \in SignKeys, Call(op, allowMajor, key)
      PROVE  ToolInv' /\ SteadyInv' /\ IntactInv'
  BY <1>1, CallStep
<1>2. CASE HashTimeline \/ HashArtifact \/ ParseTimeline
  BY <1>2, HashTimelineStep, HashArtifactStep, ParseTimelineStep
<1>3. CASE ReadPayload \/ OpenSignature \/ FillSignature \/ ReadSignature \/ CompareSignature
  BY <1>3, SigningStep, VerifyingStep
<1> QED
  BY <1>1, <1>2, <1>3 DEF Tool, Ops

-------------------------------------------------------------------------------
(* The theorems.                                                           *)

LEMMA Initially == Init => IInv
<1> SUFFICES ASSUME Init PROVE IInv
  OBVIOUS
<1> USE DEF Init
<1>1. disk = [file \in FileNames |-> disk[file]] /\ \A file \in FileNames : disk[file] = Nothing
  OBVIOUS
<1>2. Typing
  <2>1. builder \in BuilderRecord
    BY DEF IdleBuilder, BuilderRecord
  <2>2. <<>> \in Seq(ArtifactKeys)
    OBVIOUS
  <2>3. tool \in ToolRecord
    BY <2>2 DEF IdleTool, ToolRecord
  <2>4. builds \in 0..MaxBuilds /\ calls \in 0..MaxCalls
    <3>1. builds = 0 /\ calls = 0 /\ MaxBuilds \in Nat /\ MaxCalls \in Nat
      BY PackStoreAssumption
    <3> QED
      BY <3>1
  <2>5. started \subseteq Builds /\ finished \subseteq Manifests /\ steady \in BOOLEAN
    OBVIOUS
  <2> QED
    BY <1>1, <2>1, <2>3, <2>4, <2>5 DEF Typing
<1>3. BuilderInv /\ ToolInv /\ SteadyInv /\ IntactInv
  BY DEF BuilderInv, IdleBuilder, ToolInv, IdleTool, Ended, Checking, Accepted, Passed, SteadyInv, IntactInv
<1>4. DiskInv
  BY <1>1 DEF DiskInv, FileNames, BuildFiles
<1> QED
  BY <1>2, <1>3, <1>4 DEF IInv

LEMMA Inductive == IInv /\ [Next]_vars => IInv'
<1>1. ASSUME IInv, Builder PROVE IInv'
  BY <1>1, BuilderTyping, BuilderStep, BuilderKeepsTool DEF IInv
<1>2. ASSUME IInv, Tool PROVE IInv'
  BY <1>2, ToolTyping, ToolKeepsBuilder, ToolKeepsTool DEF IInv
<1>3. ASSUME IInv, UNCHANGED vars PROVE IInv'
  <2> USE <1>3 DEF vars, IInv
  <2>1. Typing' /\ BuilderInv' /\ DiskInv' /\ ToolInv'
    BY DEF Typing, BuilderInv, DiskInv, ToolInv
  <2>2. SteadyInv'
    BY DEF SteadyInv, Holds, Todo
  <2>3. IntactInv'
    BY DEF IntactInv, HoldsHashedFiles, Exists
  <2> QED
    BY <2>1, <2>2, <2>3
<1> QED
  BY <1>1, <1>2, <1>3 DEF Next

LEMMA Invariance == Spec => []IInv
BY Initially, Inductive, PTL DEF Spec

(* The variables keep their types.                                         *)
THEOREM TypeCorrect == Spec => []TypeOK
<1>1. IInv => TypeOK
  BY DEF IInv, Typing, TypeOK, BuilderRecord, ToolRecord, Ended, Checking, Accepted, Passed
<1> QED
  BY <1>1, Invariance, PTL

(* In what validate_pack, sign_pack and verify_pack accept the manifest,   *)
(* the timeline and the artifacts it lists are those of one build,         *)
(* whatever builds were cut short over one another, since the manifest is  *)
(* written last.  The report, of which it has no hash, is left out.        *)
THEOREM HashedFilesOfOneBuild == Spec => []HashedFilesAreOneBuild
<1>1. ASSUME IInv, tool.pc \in Passed, steady
      PROVE  \E b \in started : HoldsHashedFiles(b)
  <2> USE <1>1 DEF IInv
  <2>1. tool.manifest \in finished
    BY DEF ToolInv, Accepted
  <2>2. PICK b \in started : tool.manifest = ManifestOf(b)
    BY <2>1 DEF DiskInv
  <2>3. disk["manifest"] = ManifestOf(b) /\ Holds(ManifestOf(b), DOMAIN ManifestOf(b).artifacts)
    BY <2>2 DEF SteadyInv, Accepted
  <2>4. b \in Builds
    BY DEF Typing
  <2>5. /\ ManifestOf(b) # Nothing /\ b.timeline # Nothing
        /\ \A k \in DOMAIN b.artifacts : b.artifacts[k] # Nothing
    BY <2>4, PackStoreAssumption
  <2> QED
    BY <2>3, <2>5, ManifestFields DEF HoldsHashedFiles, Holds, Exists
<1>2. IInv => HashedFilesAreOneBuild
  BY <1>1 DEF HashedFilesAreOneBuild
<1> QED
  BY <1>2, Invariance, PTL

(* No pack whose manifest, timeline and listed artifacts are those of a    *)
(* build of this release fails validation.                                 *)
THEOREM IntactPasses == Spec => []IntactPackPasses
<1>1. IInv => IntactPackPasses
  BY DEF IInv, IntactInv, IntactPackPasses
<1> QED
  BY <1>1, Invariance, PTL

(* sign_pack signs nothing but manifests of builds that came to their end. *)
THEOREM SignedWasFinished == Spec => []SignaturesCoverFinishedBuilds
<1>1. IInv => SignaturesCoverFinishedBuilds
  BY DEF IInv, DiskInv, SignaturesCoverFinishedBuilds, Exists
<1> QED
  BY <1>1, Invariance, PTL

(* What verify_pack accepts is what was signed with the key.               *)
THEOREM VerifiedIsSigned == Spec => []VerifiedFilesAreSigned
<1>1. IInv => VerifiedFilesAreSigned
  BY DEF IInv, SteadyInv, Holds, Accepted, Passed, VerifiedFilesAreSigned
<1> QED
  BY <1>1, Invariance, PTL

-------------------------------------------------------------------------------
(* Calls among the items of an answer (LlmTurns).                          *)

(* What CallsAmong and OpenAIMessage make of one item.                     *)
CallOf(item, n) ==
    IF IsTool(item) /\ item.name # ""
    THEN <<[name |-> item.name, args |-> Arguments(item.args), index |-> n - 1]>>
    ELSE <<>>

ToolOf(item) == IF IsTool(item) THEN <<item>> ELSE <<>>

ToolsAmong(items) == FlattenSeq([n \in DOMAIN items |-> ToolOf(items[n])])

CallsIn(X) == {[name |-> x.name, args |-> Arguments(x.args), index |-> n] : x \in X, n \in Int}

(* The calls of a list with one item more.                                 *)
LEMMA CallsAmongType ==
    ASSUME NEW X, NEW items \in Seq(X)
    PROVE  /\ CallsAmong(items) \in Seq(CallsIn(X))
           /\ \A x \in X : CallsAmong(Append(items, x)) = CallsAmong(items) \o CallOf(x, Len(items) + 1)
  <1> DEFINE T == CallsIn(X)
             Parts(s) == [n \in DOMAIN s |-> CallOf(s[n], n)]
  <1>1. \A x \in X : \A n \in Int : CallOf(x, n) \in Seq(T)
    <2> SUFFICES ASSUME NEW x \in X, NEW n \in Int PROVE CallOf(x, n) \in Seq(T)
      OBVIOUS
    <2> DEFINE call == [name |-> x.name, args |-> Arguments(x.args), index |-> n - 1]
    <2>1. call \in T
      <3>1. n - 1 \in Int
        OBVIOUS
      <3> QED
        BY <3>1 DEF CallsIn
    <2>2. CallOf(x, n) = <<call>> \/ CallOf(x, n) = <<>>
      BY DEF CallOf
    <2> HIDE DEF call, T
    <2>3. <<call>> \in Seq(T) /\ <<>> \in Seq(T)
      BY <2>1
    <2> QED
      BY <2>2, <2>3
  <1>2. \A s : CallsAmong(s) = FlattenSeq(Parts(s))
    BY DEF CallsAmong, CallOf
  <1> HIDE DEF T
  <1> DEFINE U == Seq(T)
  <1>3. \A n \in Int : \A x \in X : CallOf(x, n) \in U
    BY <1>1
  <1> HIDE DEF U
  <1>4. \A s \in Seq(X) : Parts(s) \in Seq(U)
    BY <1>3
  <1>5. CallsAmong(items) \in Seq(T)
    <2> HIDE DEF Parts
    <2> QED
      BY <1>2, <1>4, FlattenPlaces DEF U
  <1>6. ASSUME NEW x \in X
        PROVE  CallsAmong(Append(items, x)) = CallsAmong(items) \o CallOf(x, Len(items) + 1)
    <2>1. Parts(Append(items, x)) = Append(Parts(items), CallOf(x, Len(items) + 1))
      OBVIOUS
    <2>2. CallOf(x, Len(items) + 1) \in Seq(T)
      BY <1>1
    <2> HIDE DEF Parts
    <2>3. FlattenSeq(Append(Parts(items), CallOf(x, Len(items) + 1))) = FlattenSeq(Parts(items)) \o CallOf(x, Len(items) + 1)
      BY <2>2, <1>4, FlattenAppend DEF U
    <2> QED
      BY <2>1, <2>3, <1>2
  <1> QED
    BY <1>5, <1>6 DEF T

(* The same for the items that are calls.                                  *)
LEMMA ToolsAmongType ==
    ASSUME NEW X, NEW items \in Seq(X)
    PROVE  /\ ToolsAmong(items) \in Seq(X)
           /\ \A x \in X : ToolsAmong(Append(items, x)) = ToolsAmong(items) \o ToolOf(x)
  <1> DEFINE Parts(s) == [n \in DOMAIN s |-> ToolOf(s[n])]
             U == Seq(X)
  <1>1. \A x \in X : ToolOf(x) \in U
    BY DEF ToolOf
  <1> HIDE DEF U
  <1>2. \A s \in Seq(X) : Parts(s) \in Seq(U)
    BY <1>1
  <1>3. ToolsAmong(items) \in Seq(X)
    <2>1. ToolsAmong(items) = FlattenSeq(Parts(items))
      BY DEF ToolsAmong
    <2> HIDE DEF Parts
    <2> QED
      BY <2>1, <1>2, FlattenPlaces DEF U
  <1>4. ASSUME NEW x \in X
        PROVE  ToolsAmong(Append(items, x)) = ToolsAmong(items) \o ToolOf(x)
    <2>1. Parts(Append(items, x)) = Append(Parts(items), ToolOf(x))
      OBVIOUS
    <2>2. ToolsAmong(items) = FlattenSeq(Parts(items)) /\ ToolsAmong(Append(items, x)) = FlattenSeq(Parts(Append(items, x)))
      BY DEF ToolsAmong
    <2> HIDE DEF Parts
    <2>3. FlattenSeq(Append(Parts(items), ToolOf(x))) = FlattenSeq(Parts(items)) \o ToolOf(x)
      BY <1>1, <1>2, FlattenAppend DEF U
    <2> QED
      BY <2>1, <2>2, <2>3
  <1> QED
    BY <1>3, <1>4

(* Names and arguments of the calls are those of the calls by themselves.  *)
LEMMA CallsByThemselves ==
    ASSUME NEW X, NEW items \in Seq(X)
    PROVE  NamedCalls(CallsAmong(ToolsAmong(items))) = NamedCalls(CallsAmong(items))
  <1> DEFINE Same(s) == NamedCalls(CallsAmong(ToolsAmong(s))) = NamedCalls(CallsAmong(s))
             S == {k \in Nat : \A s \in Seq(X) : Len(s) = k => Same(s)}
             T == CallsIn(X)
  <1>1. 0 \in S
    <2>1. \A s \in Seq(X) : Len(s) = 0 => s = <<>>
      OBVIOUS
    <2>2. ToolsAmong(<<>>) = <<>>
      BY DEF ToolsAmong, FlattenSeq
    <2> QED
      BY <2>1, <2>2
  <1>2. ASSUME NEW k \in Nat, k \in S PROVE k + 1 \in S
    <2>1. ASSUME NEW s \in Seq(X), Len(s) = k + 1 PROVE Same(s)
      <3> DEFINE front == SubSeq(s, 1, k)
                 x == s[k + 1]
                 tools == ToolsAmong(front)
                 toolCalls == CallsAmong(front)
                 among == CallsAmong(tools)
      <3>1. front \in Seq(X) /\ Len(front) = k /\ x \in X /\ s = Append(front, x)
        BY <2>1
      <3> HIDE DEF front, x
      <3>2. tools \in Seq(X) /\ ToolsAmong(s) = tools \o ToolOf(x)
        BY <3>1, ToolsAmongType
      <3> HIDE DEF tools
      <3>3. toolCalls \in Seq(T) /\ CallsAmong(s) = toolCalls \o CallOf(x, k + 1)
        BY <3>1, CallsAmongType
      <3>4. among \in Seq(T) /\ CallsAmong(Append(tools, x)) = among \o CallOf(x, Len(tools) + 1)
        BY <3>1, <3>2, CallsAmongType
      <3>5. NamedCalls(among) = NamedCalls(toolCalls)
        BY <3>1, <1>2 DEF tools
      <3> DEFINE L == Len(tools) + 1
                 here == [name |-> x.name, args |-> Arguments(x.args), index |-> (k + 1) - 1]
                 there == [name |-> x.name, args |-> Arguments(x.args), index |-> L - 1]
      <3>6. L \in Int /\ here \in T /\ there \in T
        BY <3>1, <3>2 DEF CallsIn
      <3>7. here.name = there.name /\ here.args = there.args
        OBVIOUS
      <3>8. CallOf(x, k + 1) = IF IsTool(x) /\ x.name # "" THEN <<here>> ELSE <<>>
        BY DEF CallOf
      <3>9. CallOf(x, L) = IF IsTool(x) /\ x.name # "" THEN <<there>> ELSE <<>>
        BY DEF CallOf
      <3> HIDE DEF toolCalls, among, L, T, here, there
      <3>10. CASE IsTool(x) /\ x.name # ""
        <4>1. ToolsAmong(s) = Append(tools, x)
          <5>1. ToolsAmong(s) = tools \o <<x>>
            BY <3>10, <3>2 DEF ToolOf
          <5> QED
            BY <5>1, <3>1, <3>2
        <4>2. CallsAmong(ToolsAmong(s)) = among \o <<there>> /\ CallsAmong(s) = toolCalls \o <<here>>
          BY <4>1, <3>10, <3>3, <3>4, <3>8, <3>9 DEF L
        <4>3. NamedCalls(among \o <<there>>) = NamedCalls(toolCalls \o <<here>>)
          <5>1. /\ among \o <<there>> \in Seq(T) /\ Len(among \o <<there>>) = Len(among) + 1
                /\ toolCalls \o <<here>> \in Seq(T) /\ Len(toolCalls \o <<here>>) = Len(toolCalls) + 1
            BY <3>3, <3>4, <3>6
          <5>2. Len(among) = Len(toolCalls) /\ \A c \in 1..Len(toolCalls) : among[c].name = toolCalls[c].name /\ among[c].args = toolCalls[c].args
            BY <3>5, <3>3, <3>4 DEF NamedCalls
          <5>3. \A c \in 1..(Len(toolCalls) + 1) :
                   /\ (among \o <<there>>)[c].name = (toolCalls \o <<here>>)[c].name
                   /\ (among \o <<there>>)[c].args = (toolCalls \o <<here>>)[c].args
            <6> TAKE c \in 1..(Len(toolCalls) + 1)
            <6>1. CASE c \in 1..Len(toolCalls)
              BY <6>1, <5>2, <3>3, <3>4
            <6>2. CASE c = Len(toolCalls) + 1
              <7>1. (among \o <<there>>)[Len(among) + 1] = there /\ (toolCalls \o <<here>>)[Len(toolCalls) + 1] = here
                BY <3>3, <3>4, <3>6
              <7> QED
                BY <6>2, <7>1, <5>2, <3>7
            <6>3. c \in 1..Len(toolCalls) \/ c = Len(toolCalls) + 1
              <7>1. Len(toolCalls) \in Nat
                BY <3>3
              <7> QED
                BY <7>1
            <6> QED
              BY <6>1, <6>2, <6>3
          <5> DEFINE a == among \o <<there>>
                     b == toolCalls \o <<here>>
          <5>4. DOMAIN a = DOMAIN b /\ DOMAIN a = 1..(Len(toolCalls) + 1)
            <6>1. DOMAIN a = 1..(Len(among) + 1)
              BY <5>1
            <6>2. DOMAIN b = 1..(Len(toolCalls) + 1)
              BY <5>1
            <6> QED
              BY <5>2, <6>1, <6>2
          <5> HIDE DEF a, b
          <5>5. NamedCalls(a) = NamedCalls(b)
            BY <5>3, <5>4 DEF NamedCalls, a, b
          <5> QED
            BY <5>5 DEF a, b
        <4> QED
          BY <4>2, <4>3
      <3>11. CASE IsTool(x) /\ x.name = ""
        <4>1. ToolsAmong(s) = Append(tools, x)
          <5>1. ToolsAmong(s) = tools \o <<x>>
            BY <3>11, <3>2 DEF ToolOf
          <5> QED
            BY <5>1, <3>1, <3>2
        <4>2. CallsAmong(ToolsAmong(s)) = among \o <<>> /\ CallsAmong(s) = toolCalls \o <<>>
          BY <4>1, <3>11, <3>3, <3>4, <3>8, <3>9 DEF L
        <4>3. among \o <<>> = among /\ toolCalls \o <<>> = toolCalls
          BY <3>3, <3>4
        <4> QED
          BY <4>2, <4>3, <3>5
      <3>12. CASE ~IsTool(x)
        <4>1. ToolsAmong(s) = tools
          BY <3>12, <3>2, <3>1 DEF ToolOf
        <4>2. CallsAmong(ToolsAmong(s)) = among /\ CallsAmong(s) = toolCalls
          BY <4>1, <3>12, <3>3, <3>8 DEF among
        <4> QED
          BY <4>2, <3>5
      <3> QED
        BY <3>10, <3>11, <3>12
    <2> HIDE DEF Same
    <2> QED
      BY <2>1
  <1> HIDE DEF S
  <1>3. Len(items) \in S
    BY <1>1, <1>2, NatSetInduction
  <1> QED
    BY <1>3 DEF S

-------------------------------------------------------------------------------
(* Content of no parts.                                                    *)
LEMMA NoContent == Content(<<>>) = ""
  <1> DEFINE e(f) == [n \in 0..Len(<<>>) |->
            IF n = 0 THEN ""
            ELSE IF ~IsText(<<>>[n]) THEN f[n - 1]
            ELSE IF \A m \in 1..(n - 1) : ~IsText(<<>>[m]) THEN <<>>[n].text
            ELSE f[n - 1] \o "\n" \o <<>>[n].text]
  <1>1. \A f : e(f) = [n \in 0..0 |-> ""]
    OBVIOUS
  <1> DEFINE joined == CHOOSE f : f = e(f)
  <1>2. Content(<<>>) = joined[0]
    BY DEF Content
  <1> HIDE DEF e
  <1>3. joined = [n \in 0..0 |-> ""]
    <2>1. \E f : f = e(f)
      BY <1>1
    <2>2. joined = e(joined)
      BY <2>1
    <2> QED
      BY <1>1, <2>2
  <1>4. joined[0] = ""
    <2> HIDE DEF joined
    <2>1. 0 \in 0..0
      OBVIOUS
    <2> QED
      BY <1>3, <2>1
  <1> QED
    BY <1>2, <1>4, Zenon

(* Two elements, and those of a function, in a sequence.                   *)
LEMMA TwoAndMore ==
    ASSUME NEW a, NEW b, NEW L \in Nat, NEW g, DOMAIN g = 1..L, g = [k \in 1..L |-> g[k]]
    PROVE  /\ <<a, b>> \o g \in Seq({a, b} \cup {g[k] : k \in 1..L})
           /\ DOMAIN (<<a, b>> \o g) = 1..(L + 2)
           /\ (<<a, b>> \o g)[1] = a /\ (<<a, b>> \o g)[2] = b
           /\ \A k \in 1..L : (<<a, b>> \o g)[k + 2] = g[k]
  <1> DEFINE U == {a, b} \cup {g[k] : k \in 1..L}
  <1>1. a \in U /\ b \in U /\ \A k \in 1..L : g[k] \in U
    OBVIOUS
  <1> HIDE DEF U
  <1>2. g \in Seq(U) /\ Len(g) = L /\ <<a, b>> \in Seq(U)
    BY <1>1
  <1>3. <<a, b>> \o g \in Seq(U) /\ Len(<<a, b>> \o g) = L + 2
    BY <1>2
  <1>4. (<<a, b>> \o g)[1] = a /\ (<<a, b>> \o g)[2] = b
    BY <1>2
  <1>5. \A k \in 1..L : (<<a, b>> \o g)[k + 2] = g[k]
    BY <1>2
  <1> QED
    BY <1>3, <1>4, <1>5 DEF U

(* What a timeline says of a turn, but for the places of the calls.        *)
Unplaced(e) == <<e.type, e.payload, NamedCalls(e.calls)>>

Said(turn, ts) ==
    LET made == ToEvents(turn, 1, ts)
    IN  [n \in DOMAIN made |-> Unplaced(made[n])]

TurnEvent(line, ts, part, type, payload, toolCalls) ==
    [id |-> [of |-> line, part |-> part, file |-> ""], ts |-> ts, type |-> type,
     payload |-> payload, calls |-> toolCalls]

RequestOf(turn, line, ts) ==
    TurnEvent(line, ts, 1, "model.request", [messages |-> turn.asked], turn.calls)
ResponseOf(turn, line, ts) ==
    TurnEvent(line, ts, 2, "model.response", [messages |-> turn.asked, output |-> turn.output], turn.calls)
CallEvent(turn, line, ts, k) ==
    TurnEvent(line, ts, 2 + k, "tool.call", [arguments |-> turn.calls[k].args], <<turn.calls[k]>>)

(* The events of a turn, one by one.                                       *)
Makes(made, turn, line, ts) ==
    /\ made \in Seq({RequestOf(turn, line, ts), ResponseOf(turn, line, ts)}
                     \cup {CallEvent(turn, line, ts, k) : k \in 1..Len(turn.calls)})
    /\ DOMAIN made = 1..(Len(turn.calls) + 2)
    /\ made[1] = RequestOf(turn, line, ts) /\ made[2] = ResponseOf(turn, line, ts)
    /\ \A k \in 1..Len(turn.calls) : made[k + 2] = CallEvent(turn, line, ts, k)

(* ToEvents, element by element.                                           *)
LEMMA EventsOfTurn ==
    ASSUME NEW T, NEW turn, NEW line, NEW ts, turn.calls \in Seq(T)
    PROVE  Makes(ToEvents(turn, line, ts), turn, line, ts)
  <1> DEFINE L == Len(turn.calls)
             g == [k \in 1..L |-> CallEvent(turn, line, ts, k)]
             a == RequestOf(turn, line, ts)
             b == ResponseOf(turn, line, ts)
  <1>1. L \in Nat /\ DOMAIN turn.calls = 1..L
    OBVIOUS
  <1>2. ToEvents(turn, line, ts) = <<a, b>> \o g
    BY <1>1 DEF ToEvents, TurnEvent, RequestOf, ResponseOf, CallEvent
  <1>3. DOMAIN g = 1..L /\ g = [k \in 1..L |-> g[k]] /\ \A k \in 1..L : g[k] = CallEvent(turn, line, ts, k)
    OBVIOUS
  <1>4. {g[k] : k \in 1..L} = {CallEvent(turn, line, ts, k) : k \in 1..L}
    OBVIOUS
  <1> HIDE DEF g, a, b, L
  <1>5. /\ <<a, b>> \o g \in Seq({a, b} \cup {g[k] : k \in 1..L})
        /\ DOMAIN (<<a, b>> \o g) = 1..(L + 2)
        /\ (<<a, b>> \o g)[1] = a /\ (<<a, b>> \o g)[2] = b
        /\ \A k \in 1..L : (<<a, b>> \o g)[k + 2] = g[k]
    BY <1>1, <1>3, TwoAndMore
  <1> DEFINE made == ToEvents(turn, line, ts)
  <1>6. made = <<a, b>> \o g
    BY <1>2
  <1> HIDE DEF made
  <1>7. made \in Seq({a, b} \cup {CallEvent(turn, line, ts, k) : k \in 1..L})
    BY <1>4, <1>5, <1>6
  <1>8. /\ DOMAIN made = 1..(L + 2) /\ made[1] = a /\ made[2] = b
        /\ \A k \in 1..L : made[k + 2] = CallEvent(turn, line, ts, k)
    BY <1>3, <1>5, <1>6
  <1> QED
    BY <1>7, <1>8 DEF a, b, L, made, Makes

(* Turns with the same texts, and calls of the same names and arguments,   *)
(* are told alike.                                                         *)
LEMMA SameTurnsSaySame ==
    ASSUME NEW T, NEW one, NEW other, NEW ts, one.asked = other.asked, one.output = other.output,
           one.calls \in Seq(T), other.calls \in Seq(T), NamedCalls(one.calls) = NamedCalls(other.calls)
    PROVE  Said(one, ts) = Said(other, ts)
  <1> DEFINE L == Len(one.calls)
             made(t) == ToEvents(t, 1, ts)
  <1>1. \A t : Said(t, ts) = [n \in DOMAIN made(t) |-> Unplaced(made(t)[n])]
    BY DEF Said
  <1>2. L \in Nat /\ Len(other.calls) = L
    BY DEF NamedCalls
  <1>3. \A k \in 1..L : NamedCalls(<<one.calls[k]>>) = NamedCalls(<<other.calls[k]>>)
    <2>1. \A k \in 1..L : one.calls[k].name = other.calls[k].name /\ one.calls[k].args = other.calls[k].args
      BY <1>2 DEF NamedCalls
    <2> QED
      BY <2>1 DEF NamedCalls
  <1>4. \A line, part, type, payload, toolCalls :
            Unplaced(TurnEvent(line, ts, part, type, payload, toolCalls)) = <<type, payload, NamedCalls(toolCalls)>>
    BY DEF Unplaced, TurnEvent
  <1>5. Unplaced(RequestOf(one, 1, ts)) = Unplaced(RequestOf(other, 1, ts))
    BY <1>4 DEF RequestOf
  <1>6. Unplaced(ResponseOf(one, 1, ts)) = Unplaced(ResponseOf(other, 1, ts))
    BY <1>4 DEF ResponseOf
  <1>7. \A k \in 1..L : Unplaced(CallEvent(one, 1, ts, k)) = Unplaced(CallEvent(other, 1, ts, k))
    <2> TAKE k \in 1..L
    <2>1. one.calls[k].args = other.calls[k].args
      BY <1>2 DEF NamedCalls
    <2> QED
      BY <1>3, <1>4, <2>1 DEF CallEvent
  <1>8. \A t \in {one, other} :
            /\ DOMAIN made(t) = 1..(L + 2)
            /\ made(t)[1] = RequestOf(t, 1, ts) /\ made(t)[2] = ResponseOf(t, 1, ts)
            /\ \A k \in 1..L : made(t)[k + 2] = CallEvent(t, 1, ts, k)
    <2>1. ASSUME NEW t, t.calls \in Seq(T), Len(t.calls) = L
          PROVE  /\ DOMAIN made(t) = 1..(L + 2)
                 /\ made(t)[1] = RequestOf(t, 1, ts) /\ made(t)[2] = ResponseOf(t, 1, ts)
                 /\ \A k \in 1..L : made(t)[k + 2] = CallEvent(t, 1, ts, k)
      <3>1. Makes(made(t), t, 1, ts)
        BY <2>1, EventsOfTurn
      <3> HIDE DEF made, L
      <3> QED
        BY <2>1, <3>1 DEF Makes
    <2> HIDE DEF made
    <2> QED
      BY <2>1, <1>2
  <1> HIDE DEF made, L
  <1>9. \A n \in 1..(L + 2) : Unplaced(made(one)[n]) = Unplaced(made(other)[n])
    <2> TAKE n \in 1..(L + 2)
    <2>1. CASE n = 1
      BY <2>1, <1>5, <1>8
    <2>2. CASE n = 2
      BY <2>2, <1>6, <1>8
    <2>3. CASE n # 1 /\ n # 2
      <3>1. n - 2 \in 1..L /\ (n - 2) + 2 = n
        BY <2>3, <1>2
      <3>2. made(one)[n] = CallEvent(one, 1, ts, n - 2) /\ made(other)[n] = CallEvent(other, 1, ts, n - 2)
        BY <3>1, <1>8
      <3> QED
        BY <3>1, <3>2, <1>7
    <2> QED
      BY <2>1, <2>2, <2>3
  <1> QED
    BY <1>1, <1>8, <1>9

(* The turns of the three families, for the same answers.                  *)
LEMMA FamiliesAgree ==
    ASSUME NEW row \in CaptureRows, NEW family \in Families
    PROVE  Said(Turn(row.family, row.asked, Wire(row.family, row.answers, FALSE)), row.ts)
           = Said(Turn(family, row.asked, Wire(family, row.answers, FALSE)), row.ts)
  <1> DEFINE first == IF row.answers = <<>> THEN <<>> ELSE row.answers[1]
             X == Range(first)
             turn(f) == Turn(f, row.asked, Wire(f, row.answers, FALSE))
             toolCalls(f) == turn(f).calls
             output == Content(first)
  <1>1. first \in Seq(X)
    <2>1. row.answers \in Seq(Range(row.answers)) /\ \A n \in DOMAIN row.answers : row.answers[n] \in Seq(Range(row.answers[n]))
      BY RowsAssumption
    <2>2. CASE row.answers = <<>>
      BY <2>2
    <2>3. CASE row.answers # <<>>
      <3> DEFINE A == Range(row.answers)
      <3> HIDE DEF A
      <3>1. row.answers \in Seq(A)
        BY <2>1 DEF A
      <3>2. 1 \in DOMAIN row.answers
        BY <2>3, <3>1
      <3> QED
        BY <2>1, <2>3, <3>2
    <2> QED
      BY <2>2, <2>3
  <1> HIDE DEF X, first
  <1>2. ToolsAmong(first) \in Seq(X)
    BY <1>1, ToolsAmongType
  <1>3. NamedCalls(CallsAmong(ToolsAmong(first))) = NamedCalls(CallsAmong(first))
    BY <1>1, CallsByThemselves
  <1>4. CallsAmong(first) \in Seq(CallsIn(X)) /\ CallsAmong(ToolsAmong(first)) \in Seq(CallsIn(X))
    BY <1>1, <1>2, CallsAmongType
  <1>5. turn("anthropic") = [asked |-> Content(row.asked), output |-> output, calls |-> CallsAmong(first)]
    BY DEF Turn, Wire, AnthropicTurn, first
  <1>6. turn("gemini") = [asked |-> Content(row.asked), output |-> output, calls |-> CallsAmong(first)]
    BY DEF Turn, Wire, GeminiTurn, GeminiCalls, Candidate, first
  <1>7. turn("openai_compat") = [asked |-> Content(row.asked), output |-> output,
                                 calls |-> CallsAmong(ToolsAmong(first))]
    <2> DEFINE wire == Wire("openai_compat", row.answers, FALSE)
    <2>1. wire = [n \in DOMAIN row.answers |-> OpenAIMessage(row.answers[n], FALSE)]
      BY DEF Wire
    <2>2. OpenAIMessage(first, FALSE) = [content |-> output, calls |-> ToolsAmong(first), functionCall |-> <<>>]
      BY DEF OpenAIMessage, ToolsAmong, ToolOf
    <2>3. ResponseMessage(wire) = [content |-> output, calls |-> ToolsAmong(first), functionCall |-> <<>>]
      <3>1. CASE row.answers = <<>>
        <4>1. ToolsAmong(<<>>) = <<>>
          BY DEF ToolsAmong, FlattenSeq
        <4>2. wire = <<>>
          <5>1. DOMAIN row.answers = {}
            <6>1. DOMAIN <<>> = {}
              OBVIOUS
            <6> QED
              BY <3>1, <6>1
          <5>2. wire = [n \in {} |-> OpenAIMessage(row.answers[n], FALSE)]
            BY <2>1, <5>1
          <5>3. [n \in {} |-> OpenAIMessage(row.answers[n], FALSE)] \in Seq({})
            OBVIOUS
          <5> HIDE DEF wire
          <5> QED
            BY <5>2, <5>3
        <4>3. first = <<>>
          BY <3>1 DEF first
        <4> HIDE DEF wire
        <4> QED
          BY <4>1, <4>2, <4>3, NoContent DEF ResponseMessage
      <3>2. CASE row.answers # <<>>
        <4> DEFINE A == Range(row.answers)
        <4>1. row.answers \in Seq(A)
          BY RowsAssumption
        <4> HIDE DEF A
        <4>2. 1 \in DOMAIN row.answers
          BY <3>2, <4>1
        <4>3. wire[1] = OpenAIMessage(first, FALSE) /\ wire # <<>>
          <5>1. first = row.answers[1]
            BY <3>2 DEF first
          <5> HIDE DEF wire
          <5>2. 1 \in DOMAIN wire
            BY <2>1, <4>2
          <5>3. wire # <<>>
            BY <5>2
          <5>4. wire[1] = OpenAIMessage(row.answers[1], FALSE)
            BY <2>1, <4>2
          <5> QED
            BY <5>1, <5>3, <5>4
        <4> HIDE DEF wire, first, output
        <4>4. ResponseMessage(wire) = CanonicalMessage(wire[1])
          BY <4>3 DEF ResponseMessage
        <4> DEFINE tools == ToolsAmong(first)
        <4>5. wire[1] = [content |-> output, calls |-> tools, functionCall |-> <<>>]
          BY <2>2, <4>3
        <4> HIDE DEF tools
        <4>6. wire[1].content = output /\ wire[1].calls = tools
          BY <4>5
        <4> QED
          BY <4>4, <4>6 DEF CanonicalMessage, tools
      <3> QED
        BY <3>1, <3>2
    <2> HIDE DEF wire, first, output
    <2>4. OpenAICalls(wire) = CallsAmong(ToolsAmong(first))
      BY <2>3 DEF OpenAICalls
    <2> QED
      <3>1. turn("openai_compat") = OpenAITurn(row.asked, wire)
        BY DEF Turn, wire
      <3>2. ResponseMessage(wire).content = output
        BY <2>3
      <3> QED
        BY <2>4, <3>1, <3>2 DEF OpenAITurn
  <1> HIDE DEF turn, first, output
  <1>8. \A f \in Families :
            /\ turn(f).asked = Content(row.asked) /\ turn(f).output = output
            /\ turn(f).calls \in Seq(CallsIn(X)) /\ NamedCalls(turn(f).calls) = NamedCalls(CallsAmong(first))
    BY <1>3, <1>4, <1>5, <1>6, <1>7 DEF Families
  <1>9. row.family \in Families
    BY RowsAssumption
  <1>10. Said(turn(row.family), row.ts) = Said(turn(family), row.ts)
    BY <1>8, <1>9, SameTurnsSaySame
  <1> QED
    BY <1>10 DEF turn

(* ProvidersAgree, of any log of exchanges.                                *)
LEMMA ProvidersAgreeOnLog ==
    ASSUME log \in Seq(RowsOf(format))
    PROVE  ProvidersAgree
  <1> SUFFICES ASSUME format = "http_capture_jsonl", NEW n \in DOMAIN log, NEW family \in Families
               PROVE  Said(Turn(log[n].family, log[n].asked, Wire(log[n].family, log[n].answers, FALSE)), log[n].ts)
                      = Said(Turn(family, log[n].asked, Wire(family, log[n].answers, FALSE)), log[n].ts)
    BY DEF ProvidersAgree, Said, Unplaced
  <1>1. log[n] \in CaptureRows
    BY DEF RowsOf
  <1> QED
    BY <1>1, FamiliesAgree

-------------------------------------------------------------------------------
(* The sort of normalize_events (InOrder).                                 *)

(* Each of N places has below it the places of its lesser ones, in a      *)
(* strict order of all, and is numbered by how many they are.              *)
Ranking(N, below, rank) ==
    /\ below \in [1..N -> SUBSET (1..N)]
    /\ rank \in [1..N -> Int]
    /\ \A n \in 1..N : n \notin below[n]
    /\ \A l, m, n \in 1..N : l \in below[m] /\ m \in below[n] => l \in below[n]
    /\ \A m, n \in 1..N : m # n => m \in below[n] \/ n \in below[m]
    /\ \A n \in 1..N : rank[n] = Cardinality(below[n]) + 1

(* Numbers counted from below, by a strict order of all, are the places.   *)
LEMMA RanksArePlaces ==
    ASSUME NEW N \in Nat, NEW below, NEW rank, Ranking(N, below, rank)
    PROVE  /\ rank \in [1..N -> 1..N]
           /\ \A m, n \in 1..N : rank[m] = rank[n] => m = n
           /\ \A k \in 1..N : \E n \in 1..N : rank[n] = k
  <1>0. /\ below \in [1..N -> SUBSET (1..N)]
        /\ rank \in [1..N -> Int]
        /\ \A n \in 1..N : n \notin below[n]
        /\ \A l, m, n \in 1..N : l \in below[m] /\ m \in below[n] => l \in below[n]
        /\ \A m, n \in 1..N : m # n => m \in below[n] \/ n \in below[m]
        /\ \A n \in 1..N : rank[n] = Cardinality(below[n]) + 1
    BY DEF Ranking
  <1>1. IsFiniteSet(1..N) /\ Cardinality(1..N) = N
    BY FS_Interval
  <1>2. \A n \in 1..N : IsFiniteSet(below[n]) /\ Cardinality(below[n]) \in Nat
    BY <1>0, <1>1, FS_Subset, FS_CardinalityType
  <1>3. \A n \in 1..N : Cardinality(below[n]) < N
    <2> TAKE n \in 1..N
    <2>1. below[n] \in SUBSET (1..N) /\ below[n] # 1..N
      BY <1>0
    <2>2. Cardinality(below[n]) <= Cardinality(1..N) /\ Cardinality(below[n]) # Cardinality(1..N)
      BY <1>1, <2>1, FS_Subset
    <2> QED
      BY <1>1, <1>2, <2>2
  <1>4. \A m, n \in 1..N : m \in below[n] => Cardinality(below[m]) < Cardinality(below[n])
    <2> SUFFICES ASSUME NEW m \in 1..N, NEW n \in 1..N, m \in below[n]
                 PROVE  Cardinality(below[m]) < Cardinality(below[n])
      OBVIOUS
    <2>1. below[m] \in SUBSET below[n] /\ below[m] # below[n]
      BY <1>0
    <2>2. Cardinality(below[m]) <= Cardinality(below[n]) /\ Cardinality(below[m]) # Cardinality(below[n])
      BY <1>2, <2>1, FS_Subset
    <2> QED
      BY <1>2, <2>2
  <1>5. rank \in [1..N -> 1..N]
    <2>1. \A n \in 1..N : Cardinality(below[n]) + 1 \in 1..N
      BY <1>2, <1>3
    <2> QED
      BY <1>0, <2>1
  <1>6. \A m, n \in 1..N : rank[m] = rank[n] => m = n
    <2> SUFFICES ASSUME NEW m \in 1..N, NEW n \in 1..N, rank[m] = rank[n], m # n PROVE FALSE
      OBVIOUS
    <2>1. m \in below[n] \/ n \in below[m]
      BY <1>0
    <2>2. Cardinality(below[m]) + 1 = Cardinality(below[n]) + 1
      BY <1>0
    <2>3. Cardinality(below[m]) < Cardinality(below[n]) \/ Cardinality(below[n]) < Cardinality(below[m])
      BY <1>4, <2>1
    <2>4. Cardinality(below[m]) \in Nat /\ Cardinality(below[n]) \in Nat
      BY <1>2
    <2> QED
      BY <2>2, <2>3, <2>4
  <1>7. rank \in Surjection(1..N, 1..N)
    <2>1. rank \in Injection(1..N, 1..N)
      BY <1>5, <1>6 DEF Injection, IsInjective
    <2> QED
      BY <1>1, <2>1, FS_Injection
  <1> QED
    BY <1>5, <1>6, <1>7 DEF Surjection

Timed(s) == \A n \in DOMAIN s : s[n].ts \in Int /\ Hash[s[n].id] \in Int

Permutes(p, N) ==
    /\ p \in [1..N -> 1..N]
    /\ \A k, l \in 1..N : p[k] = p[l] => k = l
    /\ \A n \in 1..N : \E k \in 1..N : p[k] = n

(* The number of elements of a set before an element.                      *)
RankIn(S, e) == Cardinality({x \in S : Precedes(x, e)}) + 1

(* The sort of normalize_events moves entries and does nothing else; if    *)
(* they have identifiers of their own, their places are those of the set.  *)
LEMMA InOrderPermutes ==
    ASSUME NEW T, NEW s \in Seq(T), Timed(s)
    PROVE  \E p : /\ Permutes(p, Len(s))
                  /\ InOrder(s) = [k \in 1..Len(s) |-> s[p[k]]]
                  /\ (\A m, n \in 1..Len(s) : m # n => Hash[s[m].id] # Hash[s[n].id])
                        => \A k \in 1..Len(s) : RankIn(Range(s), s[p[k]]) = k
  <1> DEFINE N == Len(s)
             Lt(m, n) == Precedes(s[m], s[n]) \/ (m < n /\ ~Precedes(s[n], s[m]))
             below == [n \in 1..N |-> {m \in 1..N : Lt(m, n)}]
             rank == [n \in 1..N |-> Cardinality({m \in 1..N : Lt(m, n)}) + 1]
             p == [k \in 1..N |-> CHOOSE n \in 1..N : rank[n] = k]
  <1>1. N \in Nat /\ DOMAIN s = 1..N
    OBVIOUS
  <1>2. \A n \in 1..N : s[n].ts \in Int /\ Hash[s[n].id] \in Int
    BY <1>1 DEF Timed
  <1>3. \A m, n \in 1..N : m \in below[n] <=> Lt(m, n)
    OBVIOUS
  <1>4. \A n \in 1..N : ~Lt(n, n)
    BY <1>2 DEF Precedes
  <1>5. \A l, m, n \in 1..N : Lt(l, m) /\ Lt(m, n) => Lt(l, n)
    BY <1>2 DEF Precedes
  <1>6. \A m, n \in 1..N : m # n => Lt(m, n) \/ Lt(n, m)
    BY <1>2 DEF Precedes
  <1>7. InOrder(s) = [k \in 1..N |-> s[p[k]]]
    <2>1. InOrder(s) = [k \in 1..N |-> s[CHOOSE n \in 1..N : rank[n] = k]]
      BY <1>1 DEF InOrder
    <2> HIDE DEF rank
    <2> QED
      BY <2>1
  <1>8. below \in [1..N -> SUBSET (1..N)] /\ \A n \in 1..N : rank[n] = Cardinality(below[n]) + 1
    OBVIOUS
  <1>8a. rank = [n \in 1..N |-> rank[n]]
    OBVIOUS
  <1> HIDE DEF below, rank
  <1>9. /\ rank \in [1..N -> 1..N]
        /\ \A m, n \in 1..N : rank[m] = rank[n] => m = n
        /\ \A k \in 1..N : \E n \in 1..N : rank[n] = k
    <2>1. \A n \in 1..N : n \notin below[n]
      BY <1>3, <1>4
    <2>2. \A l, m, n \in 1..N : l \in below[m] /\ m \in below[n] => l \in below[n]
      BY <1>3, <1>5
    <2>3. \A m, n \in 1..N : m # n => m \in below[n] \/ n \in below[m]
      BY <1>3, <1>6
    <2>4. \A n \in 1..N : IsFiniteSet(below[n])
      <3>1. IsFiniteSet(1..N)
        BY <1>1, FS_Interval
      <3> QED
        BY <1>8, <3>1, FS_Subset
    <2>5. rank \in [1..N -> Int]
      <3>1. \A n \in 1..N : rank[n] \in Int
        BY <1>8, <2>4, FS_CardinalityType
      <3> QED
        BY <3>1, <1>8a
    <2>6. below \in [1..N -> SUBSET (1..N)] /\ N \in Nat
      BY <1>1, <1>8
    <2>7. \A n \in 1..N : rank[n] = Cardinality(below[n]) + 1
      BY <1>8
    <2>8. Ranking(N, below, rank)
      BY <2>1, <2>2, <2>3, <2>5, <2>6, <2>7 DEF Ranking
    <2> HIDE DEF N, Lt, p
    <2> QED
      BY <2>6, <2>8, RanksArePlaces
  <1> HIDE DEF N, Lt
  <1>10. \A k \in 1..N : p[k] \in 1..N /\ rank[p[k]] = k
    BY <1>9
  <1>11. Permutes(p, N)
    <2>1. \A n \in 1..N : p[rank[n]] = n
      BY <1>9, <1>10
    <2>2. p \in [1..N -> 1..N]
      BY <1>10
    <2> HIDE DEF p
    <2> QED
      BY <1>9, <1>10, <2>1, <2>2 DEF Permutes
  <1>12. ASSUME \A m, n \in 1..N : m # n => Hash[s[m].id] # Hash[s[n].id], NEW k \in 1..N
         PROVE  RankIn(Range(s), s[p[k]]) = k
    <2> DEFINE n == p[k]
               Places == below[n]
               Those == {x \in Range(s) : Precedes(x, s[n])}
               f == [m \in Places |-> s[m]]
    <2>1. n \in 1..N /\ k = Cardinality(Places) + 1
      BY <1>8, <1>10
    <2> HIDE DEF n
    <2>2. \A m \in 1..N : Lt(m, n) <=> Precedes(s[m], s[n])
      BY <1>2, <1>12, <2>1 DEF Precedes, Lt
    <2>0. Places \subseteq 1..N
      BY <1>8, <2>1
    <2>3. \A m \in 1..N : m \in Places <=> s[m] \in Those
      BY <1>1, <1>3, <2>1, <2>2 DEF Range
    <2>4. f \in Bijection(Places, Those)
      <3>1. f \in [Places -> Those]
        BY <2>0, <2>3
      <3>2. \A l, m \in Places : f[l] = f[m] => l = m
        BY <1>12, <2>0
      <3>3. \A x \in Those : \E m \in Places : f[m] = x
        BY <1>1, <2>0, <2>3 DEF Range
      <3> HIDE DEF f, Those, Places
      <3> QED
        BY <3>1, <3>2, <3>3 DEF Bijection, Injection, Surjection, IsInjective
    <2>5. IsFiniteSet(Places)
      <3>1. IsFiniteSet(1..N) /\ Places \in SUBSET (1..N)
        BY <1>1, <1>8, <2>1, FS_Interval
      <3> HIDE DEF Places
      <3> QED
        BY <3>1, FS_Subset
    <2>6. Cardinality(Those) = Cardinality(Places)
      <3> HIDE DEF f, Those, Places
      <3> QED
        BY <2>4, <2>5, FS_Bijection DEF ExistsBijection
    <2> QED
      BY <2>1, <2>6 DEF RankIn, n
  <1> HIDE DEF p
  <1> QED
    BY <1>7, <1>11, <1>12 DEF N

-------------------------------------------------------------------------------
(* The events of a log.                                                    *)

(* What the proofs use of an event of a log.                               *)
Shaped(e) ==
    /\ e.id = IdIn(e.id, NoFile) /\ e.id.of \in Nat /\ e.id.of # 0
    /\ e.ts \in Int /\ e.type # "file.diff"
    /\ DOMAIN e.payload \subseteq Range(FieldOrder)
    /\ Has(e.payload, "path") => e.payload.path \in Paths
    /\ \A file \in DiffFiles : IdIn(e.id, file) \in Ids

(* The event of a row of a generic_jsonl log ...                           *)
LEMMA GenericShaped ==
    ASSUME NEW row \in GenericRows, NEW line \in Nat, line # 0
    PROVE  LET e == GenericEvent(row, line)
           IN  /\ e.id = IdIn(e.id, NoFile) /\ e.id.of \in Nat /\ e.id.of # 0
               /\ e.ts \in Int /\ e.type # "file.diff"
               /\ DOMAIN e.payload \subseteq Range(FieldOrder)
               /\ Has(e.payload, "path") => e.payload.path \in Paths
  <1>1. row.id \in Nat /\ row.ts \in Int
    BY RowsAssumption
  <1>2. /\ DOMAIN row.payload \subseteq Range(FieldOrder)
        /\ Has(row.payload, "path") => row.payload.path \in Paths
    BY RowsAssumption
  <1> QED
    BY <1>1, <1>2 DEF GenericEvent, IdIn

(* The exchanges of a log give calls in a sequence.                        *)
LEMMA CallsOfTurn ==
    ASSUME NEW row \in CaptureRows
    PROVE  \E T : CaptureTurn(row).calls \in Seq(T)
  <1>0. /\ row.answers \in Seq(Range(row.answers))
        /\ \A n \in DOMAIN row.answers : row.answers[n] \in Seq(Range(row.answers[n]))
    BY RowsAssumption
  <1>1. <<>> \in Seq({})
    OBVIOUS
  <1>2. \A s : s = <<>> \/ (\E X : s \in Seq(X)) => \E T : CallsAmong(s) \in Seq(T)
    <2> SUFFICES ASSUME NEW s, NEW X, s \in Seq(X) PROVE \E T : CallsAmong(s) \in Seq(T)
      BY <1>1
    <2> QED
      BY CallsAmongType
  <1> DEFINE first == IF row.answers = <<>> THEN <<>> ELSE row.answers[1]
  <1>3. \E X : first \in Seq(X)
    <2>1. CASE row.answers = <<>>
      BY <2>1, <1>1
    <2>2. CASE row.answers # <<>>
      <3> DEFINE A == Range(row.answers)
      <3> HIDE DEF A
      <3>1. row.answers \in Seq(A)
        BY <1>0 DEF A
      <3>2. 1 \in DOMAIN row.answers
        BY <2>2, <3>1
      <3> QED
        BY <1>0, <2>2, <3>2
    <2> QED
      BY <2>1, <2>2
  <1> DEFINE Listings(t) == \E T : t \in Seq(T)
  <1>4. Listings(CallsAmong(first)) /\ Listings(CallsAmong(ToolsAmong(first))) /\ Listings(CallsAmong(<<>>))
    <2>1. PICK X : first \in Seq(X)
      BY <1>3
    <2> HIDE DEF first
    <2>2. ToolsAmong(first) \in Seq(X)
      BY <2>1, ToolsAmongType
    <2>3. <<>> \in Seq(X)
      OBVIOUS
    <2> QED
      BY <2>1, <2>2, <2>3, CallsAmongType
  <1>5. row.family \in Families
    BY RowsAssumption
  <1> DEFINE raw == Wire(row.family, row.answers, row.older)
  <1>6. CASE row.family = "anthropic"
    <2>1. CaptureTurn(row).calls = CallsAmong(first)
      BY <1>6 DEF CaptureTurn, Turn, AnthropicTurn, Wire
    <2> QED
      BY <2>1, <1>4
  <1>7. CASE row.family = "gemini"
    <2>1. CaptureTurn(row).calls = CallsAmong(first)
      BY <1>7 DEF CaptureTurn, Turn, GeminiTurn, GeminiCalls, Candidate, Wire
    <2> QED
      BY <2>1, <1>4
  <1>8. CASE row.family = "openai_compat"
    <2>1. raw = [n \in DOMAIN row.answers |-> OpenAIMessage(row.answers[n], row.older)]
      BY <1>8 DEF Wire
    <2>2. CaptureTurn(row).calls = OpenAICalls(raw)
      BY <1>8 DEF CaptureTurn, Turn, OpenAITurn
    <2>3. CASE row.answers = <<>>
      <3>1. raw = <<>>
        BY <2>1, <2>3
      <3>2. OpenAICalls(raw) = CallsAmong(<<>>)
        BY <3>1 DEF OpenAICalls, ResponseMessage
      <3> QED
        BY <2>2, <3>2, <1>4
    <2>4. CASE row.answers # <<>>
      <3> DEFINE A == Range(row.answers)
      <3> HIDE DEF A
      <3>1. row.answers \in Seq(A)
        BY <1>0 DEF A
      <3>2. 1 \in DOMAIN row.answers
        BY <2>4, <3>1
      <3>3. raw # <<>> /\ raw[1] = OpenAIMessage(first, row.older)
        BY <2>1, <2>4, <3>2
      <3>4. OpenAIMessage(first, row.older).calls = IF row.older THEN <<>> ELSE ToolsAmong(first)
        BY DEF OpenAIMessage, ToolsAmong, ToolOf
      <3>5. \E t \in {<<>>, ToolsAmong(first)} : OpenAICalls(raw) = CallsAmong(t)
        <4> HIDE DEF raw, first
        <4>1. ResponseMessage(raw) = CanonicalMessage(raw[1])
          BY <3>3 DEF ResponseMessage
        <4>2. ResponseMessage(raw).calls \in {<<>>, ToolsAmong(first)} /\ ResponseMessage(raw).functionCall = <<>>
          BY <3>3, <3>4, <4>1 DEF CanonicalMessage
        <4> QED
          BY <4>2 DEF OpenAICalls
      <3> HIDE DEF raw, first
      <3> QED
        BY <2>2, <3>5, <1>4
    <2> QED
      BY <2>3, <2>4
  <1> QED
    BY <1>5, <1>6, <1>7, <1>8 DEF Families

(* ... and those of a row of an http_capture_jsonl log.                    *)
LEMMA CaptureShaped ==
    ASSUME NEW row \in CaptureRows, NEW line \in Nat, line # 0,
           NEW e \in Range(ToEvents(CaptureTurn(row), line, row.ts))
    PROVE  /\ e.id = IdIn(e.id, NoFile) /\ e.id.of \in Nat /\ e.id.of # 0
           /\ e.ts \in Int /\ e.type # "file.diff"
           /\ DOMAIN e.payload \subseteq Range(FieldOrder)
           /\ Has(e.payload, "path") => e.payload.path \in Paths
  <1>1. row.ts \in Int /\ {"messages", "output", "arguments"} \subseteq Range(FieldOrder)
    BY RowsAssumption
  <1> DEFINE turn == CaptureTurn(row)
             made == ToEvents(turn, line, row.ts)
  <1>2. \E T : turn.calls \in Seq(T)
    BY CallsOfTurn
  <1> HIDE DEF turn
  <1>3. Makes(made, turn, line, row.ts)
    BY <1>2, EventsOfTurn
  <1> HIDE DEF made
  <1>4. Range(made) \subseteq {RequestOf(turn, line, row.ts), ResponseOf(turn, line, row.ts)}
                     \cup {CallEvent(turn, line, row.ts, k) : k \in 1..Len(turn.calls)}
    BY <1>3 DEF Makes, Range
  <1>5. e \in Range(made)
    BY DEF made, turn
  <1>6. CASE e = RequestOf(turn, line, row.ts)
    BY <1>1, <1>6 DEF RequestOf, TurnEvent, IdIn, NoFile, Has
  <1>7. CASE e = ResponseOf(turn, line, row.ts)
    BY <1>1, <1>7 DEF ResponseOf, TurnEvent, IdIn, NoFile, Has
  <1>8. ASSUME NEW k \in 1..Len(turn.calls), e = CallEvent(turn, line, row.ts, k)
        PROVE  /\ e.id = IdIn(e.id, NoFile) /\ e.id.of \in Nat /\ e.id.of # 0
               /\ e.ts \in Int /\ e.type # "file.diff"
               /\ DOMAIN e.payload \subseteq Range(FieldOrder)
               /\ Has(e.payload, "path") => e.payload.path \in Paths
    BY <1>1, <1>8 DEF CallEvent, TurnEvent, IdIn, NoFile, Has
  <1> QED
    BY <1>4, <1>5, <1>6, <1>7, <1>8

(* The events of a log have that shape.                                    *)
LEMMA EventsShaped ==
    ASSUME NEW f \in {"generic_jsonl", "http_capture_jsonl"}, NEW e \in EventsOf(f)
    PROVE  Shaped(e)
  <1>1. PICK row \in RowsOf(f), line \in 1..MaxRows : e \in Range(RowEvents(f, row, line))
    BY DEF EventsOf
  <1>2. line \in Nat /\ line # 0
    BY RowsAssumption
  <1>3. \A file \in DiffFiles : IdIn(e.id, file) \in Ids
    BY DEF Ids
  <1>4. CASE f = "generic_jsonl"
    <2>1. e = GenericEvent(row, line) /\ row \in GenericRows
      BY <1>1, <1>4 DEF RowEvents, RowsOf, Range
    <2> QED
      BY <1>2, <1>3, <2>1, GenericShaped DEF Shaped
  <1>5. CASE f = "http_capture_jsonl"
    <2>1. row \in CaptureRows /\ e \in Range(ToEvents(CaptureTurn(row), line, row.ts))
      BY <1>1, <1>5 DEF RowEvents, RowsOf
    <2> QED
      BY <1>2, <1>3, <2>1, CaptureShaped DEF Shaped
  <1> QED
    BY <1>4, <1>5

(* What iter_events gives.                                                 *)
LEMMA IterEventsType ==
    ASSUME NEW f \in {"generic_jsonl", "http_capture_jsonl"}, NEW rows \in Seq(RowsOf(f)), Len(rows) <= MaxRows
    PROVE  IterEvents(f, rows) \in Seq(EventsOf(f))
  <1> DEFINE T == EventsOf(f)
             parts == [n \in DOMAIN rows |-> RowEvents(f, rows[n], n)]
  <1>1. \A row \in RowsOf(f), line \in 1..MaxRows : \E X : RowEvents(f, row, line) \in Seq(X)
    <2> SUFFICES ASSUME NEW row \in RowsOf(f), NEW line \in 1..MaxRows
                 PROVE  \E X : RowEvents(f, row, line) \in Seq(X)
      OBVIOUS
    <2>1. CASE f = "generic_jsonl"
      <3> DEFINE g == GenericEvent(row, line)
      <3> HIDE DEF g
      <3>1. <<g>> \in Seq({g})
        OBVIOUS
      <3> QED
        BY <2>1, <3>1 DEF RowEvents, g
    <2>2. CASE f = "http_capture_jsonl"
      <3>1. row \in CaptureRows
        BY <2>2 DEF RowsOf
      <3>2. Makes(ToEvents(CaptureTurn(row), line, row.ts), CaptureTurn(row), line, row.ts)
        <4>1. \E X : CaptureTurn(row).calls \in Seq(X)
          BY <3>1, CallsOfTurn
        <4> QED
          BY <4>1, EventsOfTurn
      <3> QED
        BY <2>2, <3>2 DEF RowEvents, Makes
    <2> QED
      BY <2>1, <2>2
  <1>2. \A row \in RowsOf(f), line \in 1..MaxRows : RowEvents(f, row, line) \in Seq(T)
    <2> SUFFICES ASSUME NEW row \in RowsOf(f), NEW line \in 1..MaxRows
                 PROVE  RowEvents(f, row, line) \in Seq(T)
      OBVIOUS
    <2> DEFINE s == RowEvents(f, row, line)
    <2>1. Range(s) \subseteq T
      BY DEF EventsOf
    <2>2. PICK X : s \in Seq(X)
      BY <1>1
    <2> HIDE DEF s, T
    <2>3. \A n \in 1..Len(s) : s[n] \in T
      BY <2>1, <2>2 DEF Range
    <2>4. s \in Seq(T)
      BY <2>2, <2>3
    <2> QED
      BY <2>4 DEF s
  <1>3. \A n \in DOMAIN rows : rows[n] \in RowsOf(f) /\ n \in 1..MaxRows
    <2>1. Len(rows) \in Nat /\ DOMAIN rows = 1..Len(rows) /\ MaxRows \in Nat
      BY RowsAssumption
    <2> QED
      BY <2>1
  <1> DEFINE U == Seq(T)
  <1>4. \A n \in DOMAIN rows : parts[n] \in U
    BY <1>2, <1>3
  <1> HIDE DEF U
  <1>5. parts \in Seq(U)
    BY <1>4
  <1> HIDE DEF parts, T
  <1>6. FlattenSeq(parts) \in Seq(T)
    BY <1>5, FlattenPlaces DEF U
  <1> QED
    BY <1>6 DEF parts, T, IterEvents

-------------------------------------------------------------------------------
(* The diffs found in a log.                                               *)

(* Parts with one entry at most: where each entry is from.                 *)
Picks(flat, parts, at) ==
    /\ at \in [1..Len(flat) -> 1..Len(parts)]
    /\ \A i \in 1..Len(flat) : parts[at[i]] = <<flat[i]>>
    /\ \A i, j \in 1..Len(flat) : at[i] = at[j] => i = j
    /\ \A k \in 1..Len(parts) : parts[k] = <<>> \/ \E i \in 1..Len(flat) : at[i] = k

(* A sequence of one element.                                              *)
LEMMA One == \A x, y : <<x>> # <<>> /\ (<<x>> = <<y>> => x = y)
  OBVIOUS

AtMostOne(part, T) == part = <<>> \/ \E entry \in T : part = <<entry>>

(* FlattenSeq of such parts.                                               *)
LEMMA FlattenPicks ==
    ASSUME NEW T, NEW parts \in Seq(Seq(T)), \A k \in 1..Len(parts) : AtMostOne(parts[k], T)
    PROVE  FlattenSeq(parts) \in Seq(T) /\ \E at : Picks(FlattenSeq(parts), parts, at)
  <1> DEFINE flat == FlattenSeq(parts)
  <1>1. flat \in Seq(T) /\ Flat(flat, parts)
    BY FlattenPlaces
  <1> HIDE DEF flat
  <1>2. PICK part, pos : ComesFrom(flat, parts, part, pos)
    BY <1>1 DEF Flat
  <1>3. Len(flat) \in Nat /\ part \in [1..Len(flat) -> 1..Len(parts)]
    BY <1>1, <1>2 DEF ComesFrom
  <1>4. \A i \in 1..Len(flat) : parts[part[i]] = <<flat[i]>> /\ pos[i] = 1
    <2> SUFFICES ASSUME NEW i \in 1..Len(flat) PROVE parts[part[i]] = <<flat[i]>> /\ pos[i] = 1
      OBVIOUS
    <2>1. /\ part[i] \in 1..Len(parts) /\ pos[i] \in 1..Len(parts[part[i]])
          /\ flat[i] = parts[part[i]][pos[i]]
      BY <1>2 DEF ComesFrom
    <2>2. PICK entry \in T : parts[part[i]] = <<entry>>
      BY <2>1 DEF AtMostOne
    <2>3. pos[i] \in 1..1
      BY <2>1, <2>2
    <2>4. pos[i] = 1
      BY <2>3
    <2> QED
      BY <2>1, <2>2, <2>4
  <1>5. \A i, j \in 1..Len(flat) : part[i] = part[j] => i = j
    <2> SUFFICES ASSUME NEW i \in 1..Len(flat), NEW j \in 1..Len(flat), part[i] = part[j], i < j PROVE FALSE
      BY <1>3
    <2>1. part[i] < part[j] \/ (part[i] = part[j] /\ pos[i] < pos[j])
      BY <1>2 DEF ComesFrom
    <2>2. part[i] \in Int /\ pos[i] = 1 /\ pos[j] = 1
      BY <1>3, <1>4
    <2> QED
      BY <2>1, <2>2
  <1>6. \A k \in 1..Len(parts) : parts[k] = <<>> \/ \E i \in 1..Len(flat) : part[i] = k
    <2> SUFFICES ASSUME NEW k \in 1..Len(parts), parts[k] # <<>> PROVE \E i \in 1..Len(flat) : part[i] = k
      OBVIOUS
    <2>1. 1 \in 1..Len(parts[k])
      BY DEF AtMostOne
    <2> QED
      BY <2>1, <1>2 DEF ComesFrom
  <1>7. Picks(flat, parts, part)
    BY <1>3, <1>4, <1>5, <1>6 DEF Picks
  <1> QED
    BY <1>1, <1>7 DEF flat

-------------------------------------------------------------------------------
IsLogDiff(d, e) ==
    \E file \in DiffFiles \ {NoFile} : d.event = DiffEvent(IdIn(e.id, file), e.ts, file, "log")

(* The diff of an event is named after the event and a file.               *)
LEMMA LogDiffOfEvent ==
    ASSUME NEW e, Shaped(e)
    PROVE  LogDiff(e) = <<>> \/ \E d : LogDiff(e) = <<d>> /\ IsLogDiff(d, e)
  <1> DEFINE payload == Externalized(e).payload
             At(file, content) == [event |-> DiffEvent(IdIn(e.id, file), e.ts, file, "log"),
                                   content |-> content]
  <1>1. \A file \in DiffFiles \ {NoFile} : \A content : IsLogDiff(At(file, content), e)
    BY DEF IsLogDiff
  <1>2. PathOf(payload) \in DiffFiles
    <2>1. payload = Restrict(e.payload, DOMAIN e.payload \ DOMAIN PayloadKeys(e))
      BY DEF Externalized
    <2>2. Has(payload, "path") => Has(e.payload, "path") /\ payload.path = e.payload.path
      BY <2>1 DEF Restrict, Has
    <2>3. Has(payload, "path") => payload.path \in Paths
      BY <2>2 DEF Shaped
    <2> HIDE DEF payload
    <2>4. Has(payload, "path") => NormalPath[payload.path] \in Range(NormalPath)
      BY <2>3, PathsAssumption DEF Range
    <2> QED
      BY <2>4 DEF PathOf, DiffFiles
  <1>3. "unknown.txt" \in DiffFiles \ {NoFile}
    BY DEF DiffFiles, NoFile
  <1>4. \/ LogDiff(e) = <<>>
        \/ \E file \in DiffFiles \ {NoFile} : \E content : LogDiff(e) = <<At(file, content)>>
    <2>1. LogDiff(e) = IF Has(payload, "patch") /\ payload.patch \in Patches
                       THEN <<At(IF PathOf(payload) = NoFile THEN "unknown.txt" ELSE PathOf(payload),
                                 <<payload.patch>>)>>
                       ELSE IF Has(payload, "before") /\ Has(payload, "after") /\ PathOf(payload) # NoFile
                               /\ payload.before # payload.after
                            THEN <<At(PathOf(payload), <<payload.before, payload.after>>)>>
                            ELSE <<>>
      BY DEF LogDiff
    <2> HIDE DEF payload, At
    <2> QED
      BY <2>1, <1>2, <1>3
  <1> HIDE DEF At, payload
  <1> QED
    BY <1>1, <1>4

(* Which events the diffs of a log are from.                               *)
FromLog(diffs, es, at) ==
    /\ Len(diffs) \in Nat /\ DOMAIN diffs = 1..Len(diffs)
    /\ at \in [1..Len(diffs) -> 1..Len(es)]
    /\ \A i \in 1..Len(diffs) : LogDiff(es[at[i]]) = <<diffs[i]>> /\ IsLogDiff(diffs[i], es[at[i]])
    /\ \A i, j \in 1..Len(diffs) : at[i] = at[j] => i = j
    /\ \A k \in 1..Len(es) : LogDiff(es[k]) = <<>> \/ \E i \in 1..Len(diffs) : at[i] = k

AllShaped(es) == \A n \in 1..Len(es) : Shaped(es[n])

(* The diffs of a log are those of its events, in their order.             *)
LEMMA LogDiffsOfEvents ==
    ASSUME NEW E, NEW es \in Seq(E), AllShaped(es)
    PROVE  \E at : FromLog(LogDiffs(es), es, at)
  <1> DEFINE parts == [n \in DOMAIN es |-> LogDiff(es[n])]
             T == UNION {Range(LogDiff(es[n])) : n \in DOMAIN es}
             diffs == LogDiffs(es)
  <1>1. Len(es) \in Nat /\ DOMAIN es = 1..Len(es)
    OBVIOUS
  <1>2. \A n \in DOMAIN es : LogDiff(es[n]) = <<>> \/ \E d : LogDiff(es[n]) = <<d>> /\ IsLogDiff(d, es[n])
    BY <1>1, LogDiffOfEvent DEF AllShaped
  <1>3. \A n \in DOMAIN es : AtMostOne(LogDiff(es[n]), T)
    <2> SUFFICES ASSUME NEW n \in DOMAIN es PROVE AtMostOne(LogDiff(es[n]), T)
      OBVIOUS
    <2>1. Range(LogDiff(es[n])) \subseteq T
      OBVIOUS
    <2> HIDE DEF T
    <2>2. CASE LogDiff(es[n]) = <<>>
      BY <2>2 DEF AtMostOne
    <2>3. CASE \E d : LogDiff(es[n]) = <<d>>
      <3>1. PICK d : LogDiff(es[n]) = <<d>>
        BY <2>3
      <3>2. d \in T
        BY <2>1, <3>1 DEF Range
      <3> QED
        BY <3>1, <3>2 DEF AtMostOne
    <2> QED
      BY <1>2, <2>2, <2>3
  <1> HIDE DEF T
  <1> DEFINE U == Seq(T)
  <1>4. \A n \in DOMAIN es : LogDiff(es[n]) \in U
    <2>1. <<>> \in Seq(T) /\ \A x \in T : <<x>> \in Seq(T)
      OBVIOUS
    <2> QED
      BY <1>3, <2>1 DEF AtMostOne
  <1> HIDE DEF U
  <1>5. parts \in Seq(U) /\ Len(parts) = Len(es) /\ \A n \in 1..Len(es) : parts[n] = LogDiff(es[n])
    BY <1>1, <1>4
  <1>6. diffs = FlattenSeq(parts)
    BY DEF LogDiffs
  <1> HIDE DEF parts, diffs
  <1>7. diffs \in Seq(T) /\ \E at : Picks(diffs, parts, at)
    <2>1. \A k \in 1..Len(parts) : AtMostOne(parts[k], T)
      BY <1>1, <1>3, <1>5
    <2>2. parts \in Seq(Seq(T))
      BY <1>5 DEF U
    <2> QED
      BY <1>6, <2>1, <2>2, FlattenPicks
  <1>8. PICK at : Picks(diffs, parts, at)
    BY <1>7
  <1>9. Len(diffs) \in Nat /\ DOMAIN diffs = 1..Len(diffs)
    BY <1>7
  <1>10. at \in [1..Len(diffs) -> 1..Len(es)]
    BY <1>5, <1>8 DEF Picks
  <1>11. \A i \in 1..Len(diffs) : LogDiff(es[at[i]]) = <<diffs[i]>>
    BY <1>5, <1>8, <1>10 DEF Picks
  <1>12. \A i \in 1..Len(diffs) : IsLogDiff(diffs[i], es[at[i]])
    <2> SUFFICES ASSUME NEW i \in 1..Len(diffs) PROVE IsLogDiff(diffs[i], es[at[i]])
      OBVIOUS
    <2>1. PICK d : LogDiff(es[at[i]]) = <<d>> /\ IsLogDiff(d, es[at[i]])
      <3>1. at[i] \in DOMAIN es
        BY <1>1, <1>10
      <3>2. LogDiff(es[at[i]]) # <<>>
        BY <1>11, One
      <3> QED
        BY <3>1, <3>2, <1>2
    <2>2. d = diffs[i]
      BY <2>1, <1>11
    <2> QED
      BY <2>1, <2>2
  <1>13. \A i, j \in 1..Len(diffs) : at[i] = at[j] => i = j
    BY <1>8 DEF Picks
  <1>14. \A k \in 1..Len(es) : LogDiff(es[k]) = <<>> \/ \E i \in 1..Len(diffs) : at[i] = k
    BY <1>5, <1>8 DEF Picks
  <1>15. FromLog(diffs, es, at)
    BY <1>9, <1>10, <1>11, <1>12, <1>13, <1>14 DEF FromLog
  <1> QED
    BY <1>15 DEF diffs

-------------------------------------------------------------------------------
(* The diffs between the workspaces.                                       *)

Changed(sp, covered) == {f \in Files \ covered : sp.before[f] # sp.after[f]}

IsSnapshot(d, sp, file) ==
    \E ts \in Int :
        d = [event |-> DiffEvent([of |-> 0, part |-> 0, file |-> file], ts, file, "snapshot"),
             content |-> <<sp.before[file], sp.after[file]>>]

(* Which files the diffs of the workspaces are of.                         *)
FromFiles(diffs, sp, changed, at) ==
    /\ Len(diffs) \in Nat /\ DOMAIN diffs = 1..Len(diffs)
    /\ at \in [1..Len(diffs) -> 1..Len(FileOrder)]
    /\ \A i \in 1..Len(diffs) :
          FileOrder[at[i]] \in changed /\ IsSnapshot(diffs[i], sp, FileOrder[at[i]])
    /\ \A i, j \in 1..Len(diffs) : at[i] = at[j] => i = j
    /\ \A k \in 1..Len(FileOrder) : FileOrder[k] \in changed => \E i \in 1..Len(diffs) : at[i] = k

(* Each file that changed has one.                                         *)
LEMMA SnapshotDiffsOfFiles ==
    ASSUME NEW sp, NEW covered, NEW ts \in Int
    PROVE  \E at : FromFiles(SnapshotDiffs(sp, covered, ts), sp, Changed(sp, covered), at)
  <1> DEFINE changed == Changed(sp, covered)
             Counter(i) == Cardinality({j \in 1..i : FileOrder[j] \in changed})
             Snapshot(f, counter) ==
                 [event |-> DiffEvent([of |-> 0, part |-> 0, file |-> f], ts + counter, f, "snapshot"),
                  content |-> <<sp.before[f], sp.after[f]>>]
             parts == [i \in DOMAIN FileOrder |->
                          IF FileOrder[i] \in changed THEN <<Snapshot(FileOrder[i], Counter(i))>> ELSE <<>>]
             T == {Snapshot(FileOrder[i], Counter(i)) : i \in DOMAIN FileOrder}
             diffs == SnapshotDiffs(sp, covered, ts)
             N == Len(FileOrder)
  <1>1. N \in Nat /\ DOMAIN FileOrder = 1..N
    BY PathsAssumption
  <1>2. diffs = FlattenSeq(parts)
    BY DEF SnapshotDiffs, Changed
  <1>3. \A i \in 1..N : IsSnapshot(Snapshot(FileOrder[i], Counter(i)), sp, FileOrder[i])
    <2> SUFFICES ASSUME NEW i \in 1..N PROVE IsSnapshot(Snapshot(FileOrder[i], Counter(i)), sp, FileOrder[i])
      OBVIOUS
    <2> DEFINE S == {j \in 1..i : FileOrder[j] \in changed}
    <2>1. S \in SUBSET (1..i) /\ IsFiniteSet(1..i)
      BY <1>1, FS_Interval
    <2>2. Cardinality(S) \in Nat
      <3> HIDE DEF S
      <3> QED
        BY <2>1, FS_Subset, FS_CardinalityType
    <2>3. ts + Counter(i) \in Int
      BY <2>2
    <2> HIDE DEF Counter
    <2> QED
      BY <2>3 DEF IsSnapshot
  <1> HIDE DEF Snapshot, changed, Counter
  <1>4. \A i \in 1..N : parts[i] = IF FileOrder[i] \in changed THEN <<Snapshot(FileOrder[i], Counter(i))>> ELSE <<>>
    BY <1>1
  <1>5. \A i \in 1..N : Snapshot(FileOrder[i], Counter(i)) \in T
    BY <1>1
  <1> HIDE DEF T
  <1>6. \A i \in 1..N : AtMostOne(parts[i], T)
    BY <1>4, <1>5 DEF AtMostOne
  <1> DEFINE U == Seq(T)
  <1>7. \A i \in 1..N : parts[i] \in U
    <2>1. <<>> \in Seq(T) /\ \A x \in T : <<x>> \in Seq(T)
      OBVIOUS
    <2> HIDE DEF parts
    <2> QED
      BY <1>6, <2>1 DEF AtMostOne
  <1>8. parts = [i \in 1..N |-> parts[i]]
    BY <1>1
  <1> HIDE DEF parts, U, N
  <1>9. parts \in Seq(U) /\ Len(parts) = N
    <2>1. parts \in [1..N -> U]
      BY <1>7, <1>8
    <2> QED
      BY <2>1, <1>1
  <1>10. diffs \in Seq(T) /\ \E at : Picks(diffs, parts, at)
    <2>1. parts \in Seq(Seq(T)) /\ \A k \in 1..Len(parts) : AtMostOne(parts[k], T)
      BY <1>6, <1>9 DEF U
    <2> HIDE DEF diffs
    <2> QED
      BY <1>2, <2>1, FlattenPicks
  <1> HIDE DEF diffs
  <1>11. PICK at : Picks(diffs, parts, at)
    BY <1>10
  <1>12. Len(diffs) \in Nat /\ DOMAIN diffs = 1..Len(diffs)
    BY <1>10
  <1>13. at \in [1..Len(diffs) -> 1..N]
    BY <1>9, <1>11 DEF Picks
  <1>14. \A i \in 1..Len(diffs) : FileOrder[at[i]] \in changed /\ IsSnapshot(diffs[i], sp, FileOrder[at[i]])
    <2> SUFFICES ASSUME NEW i \in 1..Len(diffs)
                 PROVE  FileOrder[at[i]] \in changed /\ IsSnapshot(diffs[i], sp, FileOrder[at[i]])
      OBVIOUS
    <2>1. at[i] \in 1..N /\ parts[at[i]] = <<diffs[i]>>
      BY <1>11, <1>13 DEF Picks
    <2>2. FileOrder[at[i]] \in changed /\ diffs[i] = Snapshot(FileOrder[at[i]], Counter(at[i]))
      BY <2>1, <1>4, One
    <2> QED
      BY <2>1, <2>2, <1>3
  <1>15. \A i, j \in 1..Len(diffs) : at[i] = at[j] => i = j
    BY <1>11 DEF Picks
  <1>16. \A k \in 1..N : FileOrder[k] \in changed => \E i \in 1..Len(diffs) : at[i] = k
    <2> SUFFICES ASSUME NEW k \in 1..N, FileOrder[k] \in changed PROVE \E i \in 1..Len(diffs) : at[i] = k
      OBVIOUS
    <2>1. parts[k] # <<>>
      BY <1>4, One
    <2> QED
      BY <2>1, <1>9, <1>11 DEF Picks
  <1>17. FromFiles(diffs, sp, changed, at)
    BY <1>12, <1>13, <1>14, <1>15, <1>16 DEF FromFiles, N
  <1> QED
    BY <1>17 DEF diffs, changed

Covered(es) == {LogDiffs(es)[n].event.payload.path : n \in DOMAIN LogDiffs(es)}

(* Snapshots, with and without workspaces.                                 *)
LEMMA SnapshotsOfFiles ==
    ASSUME NEW E, NEW es \in Seq(E), AllShaped(es), NEW sp
    PROVE  \E at : FromFiles(Snapshots(es, sp), sp,
                             IF sp.given THEN Changed(sp, Covered(es)) ELSE {}, at)
  <1> DEFINE ts == IF es = <<>> THEN 0 ELSE Last(es).ts
  <1>1. CASE ~sp.given
    <2>1. Snapshots(es, sp) = <<>>
      BY <1>1 DEF Snapshots
    <2>2. FromFiles(<<>>, sp, {}, <<>>)
      BY PathsAssumption DEF FromFiles
    <2> QED
      BY <1>1, <2>1, <2>2
  <1>2. CASE sp.given
    <2>1. Snapshots(es, sp) = SnapshotDiffs(sp, Covered(es), ts)
      BY <1>2 DEF Snapshots, Covered
    <2>2. ts \in Int
      <3>1. CASE es = <<>>
        BY <3>1
      <3>2. CASE es # <<>>
        <4>1. Len(es) \in 1..Len(es)
          BY <3>2
        <4> QED
          BY <3>2, <4>1 DEF AllShaped, Shaped, Last
      <3> QED
        BY <3>1, <3>2
    <2> HIDE DEF ts
    <2>3. \E at : FromFiles(SnapshotDiffs(sp, Covered(es), ts), sp, Changed(sp, Covered(es)), at)
      BY <2>2, SnapshotDiffsOfFiles
    <2> QED
      BY <1>2, <2>1, <2>3
  <1> QED
    BY <1>1, <1>2

-------------------------------------------------------------------------------
(* Sequences one after the other, and what a sort of them depends on.      *)

(* c has the elements of s, then those of t.                               *)
Follows(s, t, c) ==
    /\ Len(s) \in Nat /\ Len(t) \in Nat /\ Len(c) = Len(s) + Len(t)
    /\ \A n \in 1..Len(s) : c[n] = s[n]
    /\ \A n \in 1..Len(t) : c[Len(s) + n] = t[n]
    /\ \A n \in 1..Len(c) : n \in 1..Len(s) \/ n - Len(s) \in 1..Len(t)

(* Concatenation.                                                          *)
LEMMA ConcatPlaces ==
    ASSUME NEW S, NEW T, NEW s \in Seq(S), NEW t \in Seq(T)
    PROVE  /\ s \o t \in Seq(S \cup T) /\ Follows(s, t, s \o t)
           /\ Range(s \o t) = Range(s) \cup Range(t)
  <1> DEFINE U == S \cup T
             L == Len(s)
             M == Len(t)
             c == s \o t
  <1>1. s \in Seq(U) /\ t \in Seq(U)
    OBVIOUS
  <1> HIDE DEF U
  <1>2. /\ c \in Seq(U) /\ Len(c) = L + M /\ L \in Nat /\ M \in Nat
        /\ DOMAIN c = 1..(L + M) /\ DOMAIN s = 1..L /\ DOMAIN t = 1..M
        /\ \A n \in 1..(L + M) : c[n] = IF n <= L THEN s[n] ELSE t[n - L]
    BY <1>1
  <1> HIDE DEF c, L, M
  <1>3. \A n \in 1..L : n \in 1..(L + M) /\ c[n] = s[n]
    BY <1>2
  <1>4. \A n \in 1..M : L + n \in 1..(L + M) /\ c[L + n] = t[n]
    <2> SUFFICES ASSUME NEW n \in 1..M PROVE L + n \in 1..(L + M) /\ c[L + n] = t[n]
      OBVIOUS
    <2>1. L + n \in 1..(L + M) /\ ~(L + n <= L) /\ (L + n) - L = n
      BY <1>2
    <2> QED
      BY <2>1, <1>2
  <1>5. \A n \in 1..(L + M) : n \in 1..L \/ (n - L \in 1..M /\ n = L + (n - L))
    BY <1>2
  <1>6. Range(c) = Range(s) \cup Range(t)
    <2>1. ASSUME NEW x \in Range(c) PROVE x \in Range(s) \cup Range(t)
      <3>1. PICK n \in 1..(L + M) : c[n] = x
        BY <1>2 DEF Range
      <3> QED
        BY <3>1, <1>2, <1>3, <1>4, <1>5 DEF Range
    <2>2. ASSUME NEW x \in Range(s) PROVE x \in Range(c)
      BY <1>2, <1>3 DEF Range
    <2>3. ASSUME NEW x \in Range(t) PROVE x \in Range(c)
      <3>1. PICK n \in 1..M : t[n] = x
        BY <1>2 DEF Range
      <3> QED
        BY <3>1, <1>2, <1>4 DEF Range
    <2> QED
      BY <2>1, <2>2, <2>3
  <1>7. \A n \in 1..Len(c) : n \in 1..L \/ n - L \in 1..M
    BY <1>2, <1>5
  <1>8. Follows(s, t, c)
    BY <1>2, <1>3, <1>4, <1>7 DEF Follows, L, M
  <1> QED
    BY <1>2, <1>6, <1>8 DEF c, U

IdsApart(s) == \A m, n \in 1..Len(s) : s[m].id = s[n].id => m = n

(* Identifiers differ in a concatenation, if they do within and between    *)
(* its parts.                                                              *)
LEMMA ConcatApart ==
    ASSUME NEW S, NEW T, NEW s \in Seq(S), NEW t \in Seq(T), IdsApart(s), IdsApart(t),
           \A x \in Range(s), y \in Range(t) : x.id # y.id
    PROVE  IdsApart(s \o t)
  <1> DEFINE L == Len(s)
             M == Len(t)
             c == s \o t
  <1>1. /\ L \in Nat /\ M \in Nat /\ Len(c) = L + M
        /\ \A n \in 1..L : c[n] = s[n]
        /\ \A n \in 1..M : c[L + n] = t[n]
        /\ \A n \in 1..Len(c) : n \in 1..L \/ n - L \in 1..M
    BY ConcatPlaces DEF Follows
  <1>2. \A m \in 1..L, n \in 1..M : s[m].id # t[n].id
    BY DEF Range
  <1>3. IdsApart(s) /\ IdsApart(t)
    OBVIOUS
  <1>4. /\ \A m, n \in 1..L : s[m].id = s[n].id => m = n
        /\ \A m, n \in 1..M : t[m].id = t[n].id => m = n
    BY <1>3 DEF IdsApart
  <1> HIDE DEF c, L, M
  <1>5. \A n \in 1..Len(c) : \/ n \in 1..L /\ c[n] = s[n]
                             \/ \E k \in 1..M : n = L + k /\ c[n] = t[k]
    <2> SUFFICES ASSUME NEW n \in 1..Len(c), n \notin 1..L
                 PROVE  \E k \in 1..M : n = L + k /\ c[n] = t[k]
      BY <1>1
    <2>1. n - L \in 1..M /\ n = L + (n - L)
      BY <1>1
    <2> QED
      BY <2>1, <1>1
  <1>6. \A m, n \in 1..Len(c) : c[m].id = c[n].id => m = n
    <2> SUFFICES ASSUME NEW m \in 1..Len(c), NEW n \in 1..Len(c), c[m].id = c[n].id PROVE m = n
      OBVIOUS
    <2>1. CASE m \in 1..L /\ c[m] = s[m] /\ n \in 1..L /\ c[n] = s[n]
      BY <2>1, <1>4
    <2>2. ASSUME NEW k \in 1..M, NEW l \in 1..M, m = L + k, n = L + l, c[m] = t[k], c[n] = t[l] PROVE m = n
      BY <2>2, <1>4
    <2>3. ASSUME NEW k \in 1..M, n \in 1..L, c[n] = s[n], c[m] = t[k] PROVE FALSE
      BY <2>3, <1>2
    <2>4. ASSUME NEW k \in 1..M, m \in 1..L, c[m] = s[m], c[n] = t[k] PROVE FALSE
      BY <2>4, <1>2
    <2> QED
      BY <1>5, <2>1, <2>2, <2>3, <2>4
  <1> QED
    BY <1>6 DEF IdsApart, c

(* Elements that differ are as many as the sequence has places.            *)
LEMMA SizeOfRange ==
    ASSUME NEW S, NEW s \in Seq(S), \A m, n \in 1..Len(s) : s[m] = s[n] => m = n
    PROVE  Cardinality(Range(s)) = Len(s)
  <1> DEFINE R == Range(s)
             L == Len(s)
  <1>1. L \in Nat /\ DOMAIN s = 1..L
    OBVIOUS
  <1>2. s = [n \in 1..L |-> s[n]]
    OBVIOUS
  <1>3. \A n \in 1..L : s[n] \in R
    BY <1>1 DEF Range
  <1>4. \A x \in R : \E n \in 1..L : s[n] = x
    BY <1>1 DEF Range
  <1>5. \A m, n \in 1..L : s[m] = s[n] => m = n
    OBVIOUS
  <1> HIDE DEF R, L
  <1>6. s \in Bijection(1..L, R)
    <2>1. s \in [1..L -> R]
      BY <1>2, <1>3
    <2> QED
      BY <2>1, <1>4, <1>5 DEF Bijection, Injection, Surjection, IsInjective
  <1>7. IsFiniteSet(1..L) /\ Cardinality(1..L) = L
    <2>1. 1 \in Nat /\ L \in Nat
      BY <1>1
    <2> QED
      BY <2>1, FS_Interval
  <1>8. Cardinality(R) = L
    BY <1>6, <1>7, FS_Bijection DEF ExistsBijection
  <1> QED
    BY <1>8 DEF R, L

(* A sort is settled by what it sorts.                                     *)
LEMMA SameOrder ==
    ASSUME NEW S, NEW T, NEW s \in Seq(S), NEW t \in Seq(T), Timed(s), Timed(t), Range(s) = Range(t),
           \A m, n \in 1..Len(s) : m # n => Hash[s[m].id] # Hash[s[n].id],
           \A m, n \in 1..Len(t) : m # n => Hash[t[m].id] # Hash[t[n].id]
    PROVE  InOrder(s) = InOrder(t)
  <1> DEFINE R == Range(s)
             L == Len(s)
             M == Len(t)
  <1>1. L \in Nat /\ M \in Nat /\ DOMAIN s = 1..L /\ DOMAIN t = 1..M
    OBVIOUS
  <1>2. L = M
    <2>1. \A m, n \in 1..L : s[m] = s[n] => m = n
      OBVIOUS
    <2>2. \A m, n \in 1..M : t[m] = t[n] => m = n
      OBVIOUS
    <2>3. Cardinality(Range(s)) = L
      BY <2>1, SizeOfRange
    <2>4. Cardinality(Range(t)) = M
      BY <2>2, SizeOfRange
    <2> QED
      BY <2>3, <2>4
  <1>3. PICK p : /\ Permutes(p, L)
                 /\ InOrder(s) = [k \in 1..L |-> s[p[k]]]
                 /\ \A k \in 1..L : RankIn(R, s[p[k]]) = k
    BY InOrderPermutes
  <1>4. PICK q : /\ Permutes(q, M)
                 /\ InOrder(t) = [k \in 1..M |-> t[q[k]]]
                 /\ \A k \in 1..M : RankIn(R, t[q[k]]) = k
    BY InOrderPermutes
  <1>5. ASSUME NEW k \in 1..L PROVE s[p[k]] = t[q[k]]
    <2>1. q[k] \in 1..M
      BY <1>2, <1>4 DEF Permutes
    <2>2. t[q[k]] \in Range(t)
      BY <2>1, <1>1 DEF Range
    <2>3. PICK n \in 1..L : s[n] = t[q[k]]
      BY <2>2, <1>1 DEF Range
    <2>4. PICK j \in 1..L : p[j] = n
      BY <1>3 DEF Permutes
    <2>5. RankIn(R, t[q[k]]) = j /\ RankIn(R, t[q[k]]) = k
      <3> HIDE DEF R
      <3>1. RankIn(R, s[p[j]]) = j
        BY <1>3
      <3>2. s[p[j]] = t[q[k]]
        BY <2>3, <2>4
      <3>3. k \in 1..M
        BY <1>2
      <3> QED
        BY <3>1, <3>2, <3>3, <1>4
    <2> QED
      BY <2>3, <2>4, <2>5
  <1> HIDE DEF L, M
  <1> QED
    BY <1>2, <1>3, <1>4, <1>5

-------------------------------------------------------------------------------
(* The entries of a timeline.                                              *)

(* What is sorted: the events, the diffs found in them and the snapshots.  *)
KeptOf(es) == [n \in DOMAIN es |-> Externalized(es[n])]
FoundIn(es) == EventsIn(LogDiffs(es))
TakenOf(es, sp) == EventsIn(Snapshots(es, sp))

Dated(s) == \A x \in Range(s) : x.ts \in Int /\ x.id \in Ids

Listed(s) == s \in Seq(Range(s)) /\ Len(s) \in Nat /\ DOMAIN s = 1..Len(s)

(* A function on 1..N is a list of N.                                      *)
LEMMA ListIsListed ==
    ASSUME NEW N \in Nat, NEW s, s = [n \in 1..N |-> s[n]]
    PROVE  Listed(s) /\ Len(s) = N
  <1>1. DOMAIN s = 1..N
    OBVIOUS
  <1>2. \A n \in 1..N : s[n] \in Range(s)
    BY <1>1 DEF Range
  <1> DEFINE R == Range(s)
  <1> HIDE DEF R
  <1>3. s \in [1..N -> R]
    BY <1>2 DEF R
  <1>4. s \in Seq(R) /\ Len(s) = N
    BY <1>3
  <1> QED
    BY <1>1, <1>4 DEF Listed, R

(* The elements of a concatenation.                                        *)
LEMMA ConcatRange ==
    ASSUME NEW S, NEW T, NEW s \in Seq(S), NEW t \in Seq(T)
    PROVE  s \o t \in Seq(S \cup T) /\ Range(s \o t) = Range(s) \cup Range(t)
  BY ConcatPlaces

(* What holds of two lists, of their concatenation.                        *)
LEMMA ListedConcat ==
    ASSUME NEW s, NEW t, Listed(s), Listed(t)
    PROVE  /\ Listed(s \o t) /\ Range(s \o t) = Range(s) \cup Range(t)
           /\ Dated(s) /\ Dated(t) => Dated(s \o t)
           /\ IdsApart(s) /\ IdsApart(t) /\ (\A x \in Range(s), y \in Range(t) : x.id # y.id)
                 => IdsApart(s \o t)
  <1> DEFINE S == Range(s)
             T == Range(t)
             c == s \o t
  <1>1. s \in Seq(S) /\ t \in Seq(T)
    BY DEF Listed
  <1>a. ASSUME NEW A, NEW B, s \in Seq(A), t \in Seq(B)
        PROVE  s \o t \in Seq(A \cup B) /\ Range(s \o t) = Range(s) \cup Range(t)
    BY <1>a, ConcatRange
  <1>2. c \in Seq(S \cup T) /\ Range(c) = S \cup T
    <2> HIDE DEF S, T
    <2>1. s \o t \in Seq(S \cup T) /\ Range(s \o t) = Range(s) \cup Range(t)
      BY <1>1, <1>a
    <2> QED
      BY <2>1 DEF S, T
  <1>3. IdsApart(s) /\ IdsApart(t) /\ (\A x \in S, y \in T : x.id # y.id) => IdsApart(c)
    <2> SUFFICES ASSUME IdsApart(s), IdsApart(t), \A x \in Range(s), y \in Range(t) : x.id # y.id
                 PROVE  IdsApart(s \o t)
      OBVIOUS
    <2> HIDE DEF S, T, c
    <2> QED
      BY <1>1, ConcatApart
  <1> HIDE DEF S, T, c
  <1>4. Listed(c)
    <2> DEFINE R == Range(c)
    <2>1. c \in Seq(R)
      BY <1>2
    <2> HIDE DEF R
    <2>2. Len(c) \in Nat /\ DOMAIN c = 1..Len(c)
      BY <2>1
    <2> QED
      BY <2>1, <2>2 DEF Listed, R
  <1>5. Dated(s) /\ Dated(t) => Dated(c)
    BY <1>2 DEF Dated, S, T
  <1> QED
    BY <1>2, <1>3, <1>4, <1>5 DEF S, T, c

(* The entries of the events ...                                           *)
LEMMA KeptEntries ==
    ASSUME NEW E, NEW es \in Seq(E), AllShaped(es)
    PROVE  /\ Listed(KeptOf(es)) /\ Dated(KeptOf(es)) /\ Len(KeptOf(es)) = Len(es)
           /\ \A n \in 1..Len(es) : KeptOf(es)[n] = Externalized(es[n])
           /\ \A x \in Range(KeptOf(es)) : x.id.file = NoFile /\ x.id.of # 0 /\ x.type # "file.diff"
           /\ IdsApart(es) => IdsApart(KeptOf(es))
  <1> DEFINE s == KeptOf(es)
             N == Len(es)
  <1>1. N \in Nat /\ DOMAIN es = 1..N
    OBVIOUS
  <1>2. \A n \in 1..N : s[n] = Externalized(es[n])
    BY <1>1 DEF KeptOf
  <1>3. s = [n \in 1..N |-> s[n]]
    BY <1>1 DEF KeptOf
  <1>4. \A n \in 1..N : s[n].id = es[n].id /\ s[n].ts = es[n].ts /\ s[n].type = es[n].type
    <2>1. \A e : Externalized(e).id = e.id /\ Externalized(e).ts = e.ts /\ Externalized(e).type = e.type
      BY DEF Externalized
    <2> HIDE DEF s
    <2> QED
      BY <2>1, <1>2
  <1>5. \A n \in 1..N : Shaped(es[n])
    BY DEF AllShaped
  <1> HIDE DEF s, N
  <1>6. Listed(s) /\ Len(s) = N
    BY <1>1, <1>3, ListIsListed
  <1>7. \A x \in Range(s) : \E n \in 1..N : x = s[n]
    BY <1>3 DEF Range
  <1>8. ASSUME NEW n \in 1..N
        PROVE  /\ s[n].ts \in Int /\ s[n].id \in Ids
               /\ s[n].id.file = NoFile /\ s[n].id.of # 0 /\ s[n].type # "file.diff"
    <2>1. es[n].id = IdIn(es[n].id, NoFile) /\ NoFile \in DiffFiles
      BY <1>5 DEF Shaped, DiffFiles
    <2>2. es[n].id \in Ids
      BY <1>5, <2>1 DEF Shaped
    <2>3. es[n].id.file = NoFile
      BY <2>1 DEF IdIn
    <2> QED
      BY <1>4, <1>5, <2>2, <2>3 DEF Shaped
  <1>9. IdsApart(es) => IdsApart(s)
    BY <1>4, <1>6 DEF IdsApart, N
  <1> QED
    BY <1>2, <1>6, <1>7, <1>8, <1>9 DEF s, N, Dated

(* ... of the diffs found in them ...                                      *)
LEMMA FoundEntries ==
    ASSUME NEW E, NEW es \in Seq(E), AllShaped(es), NEW at, FromLog(LogDiffs(es), es, at)
    PROVE  /\ Listed(FoundIn(es)) /\ Dated(FoundIn(es)) /\ Len(FoundIn(es)) = Len(LogDiffs(es))
           /\ \A n \in 1..Len(LogDiffs(es)) : FoundIn(es)[n] = LogDiffs(es)[n].event
           /\ \A x \in Range(FoundIn(es)) : x.id.file # NoFile /\ x.id.of # 0
           /\ IdsApart(es) => IdsApart(FoundIn(es))
  <1> DEFINE s == FoundIn(es)
             diffs == LogDiffs(es)
             N == Len(diffs)
  <1>1. N \in Nat /\ DOMAIN diffs = 1..N
    BY DEF FromLog
  <1>2. \A n \in 1..N : s[n] = diffs[n].event
    BY <1>1 DEF FoundIn, EventsIn
  <1>3. s = [n \in 1..N |-> s[n]]
    BY <1>1 DEF FoundIn, EventsIn
  <1>4. \A n \in 1..N : at[n] \in 1..Len(es) /\ IsLogDiff(diffs[n], es[at[n]])
    BY DEF FromLog
  <1>5. \A m, n \in 1..N : at[m] = at[n] => m = n
    BY DEF FromLog
  <1> HIDE DEF s, N, diffs
  <1>6. Listed(s) /\ Len(s) = N
    BY <1>1, <1>3, ListIsListed
  <1>7. \A x \in Range(s) : \E n \in 1..N : x = s[n]
    BY <1>3 DEF Range
  <1>8. ASSUME NEW n \in 1..N
        PROVE  /\ s[n].ts \in Int /\ s[n].id \in Ids
               /\ s[n].id.file # NoFile /\ s[n].id.of # 0
               /\ s[n].id.of = es[at[n]].id.of /\ s[n].id.part = es[at[n]].id.part
    <2> DEFINE e == es[at[n]]
    <2>1. Shaped(e)
      BY <1>4 DEF AllShaped
    <2> HIDE DEF e
    <2>2. PICK file \in DiffFiles \ {NoFile} : s[n] = DiffEvent(IdIn(e.id, file), e.ts, file, "log")
      BY <1>2, <1>4 DEF IsLogDiff, e
    <2>3. s[n].id = IdIn(e.id, file) /\ s[n].ts = e.ts
      BY <2>2 DEF DiffEvent
    <2>4. s[n].id.file = file /\ s[n].id.of = e.id.of /\ s[n].id.part = e.id.part
      BY <2>3 DEF IdIn
    <2> QED
      BY <2>1, <2>3, <2>4 DEF Shaped, e
  <1>9. ASSUME IdsApart(es) PROVE IdsApart(s)
    <2> SUFFICES ASSUME NEW m \in 1..N, NEW n \in 1..N, s[m].id = s[n].id PROVE m = n
      BY <1>6 DEF IdsApart
    <2>1. es[at[m]].id.of = es[at[n]].id.of /\ es[at[m]].id.part = es[at[n]].id.part
      BY <1>8
    <2>2. es[at[m]].id = IdIn(es[at[m]].id, NoFile) /\ es[at[n]].id = IdIn(es[at[n]].id, NoFile)
      BY <1>4 DEF AllShaped, Shaped
    <2>3. es[at[m]].id = es[at[n]].id
      BY <2>1, <2>2 DEF IdIn
    <2> QED
      BY <2>3, <1>4, <1>5, <1>9 DEF IdsApart
  <1> QED
    BY <1>2, <1>6, <1>7, <1>8, <1>9 DEF s, N, diffs, Dated

(* ... and of the diffs between the workspaces.                            *)
LEMMA TakenEntries ==
    ASSUME NEW es, NEW sp, NEW changed, NEW at,
           FromFiles(Snapshots(es, sp), sp, changed, at), changed \subseteq Files
    PROVE  /\ Listed(TakenOf(es, sp)) /\ Dated(TakenOf(es, sp))
           /\ Len(TakenOf(es, sp)) = Len(Snapshots(es, sp))
           /\ \A n \in 1..Len(Snapshots(es, sp)) : TakenOf(es, sp)[n] = Snapshots(es, sp)[n].event
           /\ \A x \in Range(TakenOf(es, sp)) : x.id.file # NoFile /\ x.id.of = 0
           /\ IdsApart(TakenOf(es, sp))
  <1> DEFINE s == TakenOf(es, sp)
             diffs == Snapshots(es, sp)
             N == Len(diffs)
  <1>1. N \in Nat /\ DOMAIN diffs = 1..N
    BY DEF FromFiles
  <1>2. \A n \in 1..N : s[n] = diffs[n].event
    BY <1>1 DEF TakenOf, EventsIn
  <1>3. s = [n \in 1..N |-> s[n]]
    BY <1>1 DEF TakenOf, EventsIn
  <1>4. \A n \in 1..N : /\ at[n] \in DOMAIN FileOrder /\ FileOrder[at[n]] \in Files
                        /\ IsSnapshot(diffs[n], sp, FileOrder[at[n]])
    <2>1. DOMAIN FileOrder = 1..Len(FileOrder)
      BY PathsAssumption
    <2> QED
      BY <2>1 DEF FromFiles
  <1>5. \A m, n \in 1..N : FileOrder[at[m]] = FileOrder[at[n]] => m = n
    <2>1. \A m, n \in 1..N : at[m] = at[n] => m = n
      BY DEF FromFiles
    <2> QED
      BY <2>1, <1>4, PathsAssumption
  <1> HIDE DEF s, N, diffs
  <1>6. Listed(s) /\ Len(s) = N
    BY <1>1, <1>3, ListIsListed
  <1>7. \A x \in Range(s) : \E n \in 1..N : x = s[n]
    BY <1>3 DEF Range
  <1>8. ASSUME NEW n \in 1..N
        PROVE  /\ s[n].ts \in Int /\ s[n].id \in Ids
               /\ s[n].id.file # NoFile /\ s[n].id.of = 0 /\ s[n].id.file = FileOrder[at[n]]
    <2> DEFINE file == FileOrder[at[n]]
    <2>2. file \in Files /\ NoFile \notin Files
      BY <1>4, PathsAssumption
    <2>0. IsSnapshot(diffs[n], sp, file)
      BY <1>4
    <2> HIDE DEF file
    <2>1. PICK ts \in Int : s[n] = DiffEvent([of |-> 0, part |-> 0, file |-> file], ts, file, "snapshot")
      <3>1. PICK ts \in Int : diffs[n] = [event |-> DiffEvent([of |-> 0, part |-> 0, file |-> file], ts, file, "snapshot"),
                                          content |-> <<sp.before[file], sp.after[file]>>]
        BY <2>0 DEF IsSnapshot
      <3>2. diffs[n].event = DiffEvent([of |-> 0, part |-> 0, file |-> file], ts, file, "snapshot")
        BY <3>1
      <3> QED
        BY <3>2, <1>2
    <2>3. s[n].id = [of |-> 0, part |-> 0, file |-> file] /\ s[n].ts = ts
      BY <2>1 DEF DiffEvent
    <2>4. s[n].id \in Ids
      BY <2>2, <2>3 DEF Ids
    <2> QED
      BY <2>2, <2>3, <2>4 DEF file
  <1>9. IdsApart(s)
    <2> SUFFICES ASSUME NEW m \in 1..N, NEW n \in 1..N, s[m].id = s[n].id PROVE m = n
      BY <1>6 DEF IdsApart
    <2> QED
      BY <1>5, <1>8
  <1> QED
    BY <1>2, <1>6, <1>7, <1>8, <1>9 DEF s, N, diffs, Dated

Entries(es, sp) == KeptOf(es) \o FoundIn(es) \o TakenOf(es, sp)

(* The entries of a timeline, before they are sorted.                      *)
LEMMA EntriesOfTimeline ==
    ASSUME NEW E, NEW es \in Seq(E), AllShaped(es), NEW sp
    PROVE  /\ Timeline(es, sp) = InOrder(Entries(es, sp))
           /\ Listed(Entries(es, sp)) /\ Dated(Entries(es, sp)) /\ Timed(Entries(es, sp))
           /\ Range(Entries(es, sp)) = Range(KeptOf(es)) \cup Range(FoundIn(es)) \cup Range(TakenOf(es, sp))
           /\ IdsApart(es) => IdsApart(Entries(es, sp))
  <1> DEFINE K == KeptOf(es)
             F == FoundIn(es)
             S == TakenOf(es, sp)
             KF == K \o F
             all == KF \o S
             changed == IF sp.given THEN Changed(sp, Covered(es)) ELSE {}
  <1>1. PICK at : FromLog(LogDiffs(es), es, at)
    BY LogDiffsOfEvents
  <1>2. PICK to : FromFiles(Snapshots(es, sp), sp, changed, to)
    BY SnapshotsOfFiles
  <1>3. changed \subseteq Files
    BY DEF Changed
  <1> HIDE DEF changed
  <1>4. /\ Listed(K) /\ Dated(K) /\ (IdsApart(es) => IdsApart(K))
        /\ \A x \in Range(K) : x.id.file = NoFile /\ x.id.of # 0
    BY KeptEntries
  <1>5. /\ Listed(F) /\ Dated(F) /\ (IdsApart(es) => IdsApart(F))
        /\ \A x \in Range(F) : x.id.file # NoFile /\ x.id.of # 0
    BY <1>1, FoundEntries
  <1>6. /\ Listed(S) /\ Dated(S) /\ IdsApart(S)
        /\ \A x \in Range(S) : x.id.file # NoFile /\ x.id.of = 0
    BY <1>2, <1>3, TakenEntries
  <1>7. Timeline(es, sp) = InOrder(Entries(es, sp))
    BY DEF Timeline, Entries, KeptOf, FoundIn, TakenOf
  <1> HIDE DEF K, F, S
  <1>8. /\ Listed(KF) /\ Dated(KF) /\ Range(KF) = Range(K) \cup Range(F)
        /\ IdsApart(es) => IdsApart(KF)
    <2>1. \A x \in Range(K), y \in Range(F) : x.id # y.id
      BY <1>4, <1>5
    <2> QED
      BY <2>1, <1>4, <1>5, ListedConcat
  <1> HIDE DEF KF
  <1>9. /\ Listed(all) /\ Dated(all) /\ Range(all) = Range(KF) \cup Range(S)
        /\ IdsApart(es) => IdsApart(all)
    <2>1. \A x \in Range(KF), y \in Range(S) : x.id # y.id
      BY <1>4, <1>5, <1>6, <1>8
    <2> QED
      BY <2>1, <1>6, <1>8, ListedConcat
  <1> HIDE DEF all
  <1>13. Timed(all)
    <2>1. \A n \in DOMAIN all : all[n] \in Range(all)
      BY DEF Range
    <2> QED
      BY <2>1, <1>9, HashAssumption DEF Timed, Dated
  <1>14. all = Entries(es, sp)
    BY DEF all, KF, K, F, S, Entries
  <1> QED
    BY <1>7, <1>8, <1>9, <1>13, <1>14 DEF K, F, S

-------------------------------------------------------------------------------
(* Artifacts.                                                              *)

(* Which diffs a log gives depends on which events it has only.            *)
FoundAmong(R) == UNION {Range(LogDiff(e)) : e \in R}

(* So the order of the events does not matter to which diffs they give.    *)
LEMMA FoundRange ==
    ASSUME NEW E, NEW es \in Seq(E), AllShaped(es)
    PROVE  Range(LogDiffs(es)) = FoundAmong(Range(es))
  <1> DEFINE diffs == LogDiffs(es)
  <1>1. PICK at : FromLog(diffs, es, at)
    BY LogDiffsOfEvents
  <1> HIDE DEF diffs
  <1>2. DOMAIN es = 1..Len(es) /\ DOMAIN diffs = 1..Len(diffs)
    BY <1>1 DEF FromLog
  <1>3. ASSUME NEW d \in Range(diffs) PROVE d \in FoundAmong(Range(es))
    <2>1. PICK i \in 1..Len(diffs) : diffs[i] = d
      BY <1>2 DEF Range
    <2>2. at[i] \in 1..Len(es) /\ LogDiff(es[at[i]]) = <<d>>
      BY <2>1, <1>1 DEF FromLog
    <2>3. es[at[i]] \in Range(es)
      BY <2>2, <1>2 DEF Range
    <2>4. d \in Range(LogDiff(es[at[i]]))
      BY <2>2 DEF Range
    <2> QED
      BY <2>3, <2>4 DEF FoundAmong
  <1>4. ASSUME NEW d \in FoundAmong(Range(es)) PROVE d \in Range(diffs)
    <2>1. PICK e \in Range(es) : d \in Range(LogDiff(e))
      BY DEF FoundAmong
    <2>2. PICK k \in 1..Len(es) : es[k] = e
      BY <1>2 DEF Range
    <2>3. LogDiff(e) # <<>>
      BY <2>1 DEF Range
    <2>4. PICK i \in 1..Len(diffs) : at[i] = k
      BY <2>2, <2>3, <1>1 DEF FromLog
    <2>5. LogDiff(e) = <<diffs[i]>>
      BY <2>2, <2>4, <1>1 DEF FromLog
    <2>6. d = diffs[i]
      BY <2>1, <2>5 DEF Range
    <2> QED
      BY <2>6, <1>2 DEF Range
  <1> QED
    BY <1>3, <1>4 DEF diffs

HashesApart(s) == \A m, n \in 1..Len(s) : m # n => Hash[s[m].id] # Hash[s[n].id]

(* Where identifiers differ, so do their hashes.                           *)
LEMMA HashesOfEntries ==
    ASSUME NEW s, Listed(s), Dated(s), IdsApart(s)
    PROVE  HashesApart(s)
  <1>1. \A n \in 1..Len(s) : s[n] \in Range(s)
    BY DEF Listed, Range
  <1> QED
    BY <1>1, HashAssumption DEF Dated, IdsApart, HashesApart

(* The same events, in two orders, of which one is last if that matters.   *)
SameEvents(es, fs, sp) ==
    /\ AllShaped(es) /\ AllShaped(fs) /\ IdsApart(es) /\ IdsApart(fs)
    /\ Range(es) = Range(fs) /\ Len(es) = Len(fs)
    /\ sp.given /\ Len(es) # 0 => es[Len(es)] = fs[Len(es)]

(* The diffs between the workspaces depend on the last event only.         *)
LEMMA SameSnapshots ==
    ASSUME NEW E, NEW es \in Seq(E), NEW fs \in Seq(E), NEW sp, SameEvents(es, fs, sp)
    PROVE  Snapshots(es, sp) = Snapshots(fs, sp)
  <1> DEFINE ts(s) == IF s = <<>> THEN 0 ELSE Last(s).ts
  <1>1. AllShaped(es) /\ AllShaped(fs) /\ Range(es) = Range(fs) /\ Len(es) = Len(fs)
    BY DEF SameEvents
  <1>2. Range(LogDiffs(es)) = Range(LogDiffs(fs))
    BY <1>1, FoundRange
  <1>3. \A s : Covered(s) = {d.event.payload.path : d \in Range(LogDiffs(s))}
    BY DEF Covered, Range
  <1>4. Covered(es) = Covered(fs)
    BY <1>2, <1>3
  <1>5. sp.given => ts(es) = ts(fs)
    BY DEF SameEvents, Last
  <1>6. \A s : Snapshots(s, sp) = IF ~sp.given THEN <<>> ELSE SnapshotDiffs(sp, Covered(s), ts(s))
    BY DEF Snapshots, Covered
  <1> HIDE DEF ts
  <1> QED
    BY <1>4, <1>5, <1>6

(* The timeline depends on which events there are, not on their order.     *)
LEMMA SameTimeline ==
    ASSUME NEW E, NEW es \in Seq(E), NEW fs \in Seq(E), NEW sp, SameEvents(es, fs, sp)
    PROVE  Timeline(es, sp) = Timeline(fs, sp)
  <1> DEFINE s == Entries(es, sp)
             t == Entries(fs, sp)
  <1>1. /\ AllShaped(es) /\ AllShaped(fs) /\ IdsApart(es) /\ IdsApart(fs)
        /\ Range(es) = Range(fs)
    BY DEF SameEvents
  <1>2. TakenOf(es, sp) = TakenOf(fs, sp)
    BY SameSnapshots DEF TakenOf
  <1>3. Range(FoundIn(es)) = Range(FoundIn(fs))
    <2>1. Range(LogDiffs(es)) = Range(LogDiffs(fs))
      BY <1>1, FoundRange
    <2>2. \A u : Range(FoundIn(u)) = {d.event : d \in Range(LogDiffs(u))}
      BY DEF FoundIn, EventsIn, Range
    <2> QED
      BY <2>1, <2>2
  <1>4. Range(KeptOf(es)) = Range(KeptOf(fs))
    <2>1. \A u : Range(KeptOf(u)) = {Externalized(e) : e \in Range(u)}
      BY DEF KeptOf, Range
    <2> QED
      BY <1>1, <2>1
  <1>5. /\ Timeline(es, sp) = InOrder(s)
        /\ Listed(s) /\ Dated(s) /\ Timed(s) /\ IdsApart(s)
        /\ Range(s) = Range(KeptOf(es)) \cup Range(FoundIn(es)) \cup Range(TakenOf(es, sp))
    BY <1>1, EntriesOfTimeline
  <1>6. /\ Timeline(fs, sp) = InOrder(t)
        /\ Listed(t) /\ Dated(t) /\ Timed(t) /\ IdsApart(t)
        /\ Range(t) = Range(KeptOf(fs)) \cup Range(FoundIn(fs)) \cup Range(TakenOf(fs, sp))
    BY <1>1, EntriesOfTimeline
  <1> HIDE DEF s, t
  <1>7. Range(s) = Range(t)
    BY <1>2, <1>3, <1>4, <1>5, <1>6
  <1>8. HashesApart(s) /\ HashesApart(t)
    BY <1>5, <1>6, HashesOfEntries
  <1>9. s \in Seq(Range(s)) /\ t \in Seq(Range(t))
    BY <1>5, <1>6 DEF Listed
  <1>10. InOrder(s) = InOrder(t)
    <2> DEFINE R == Range(s)
    <2>1. s \in Seq(R) /\ t \in Seq(R)
      BY <1>7, <1>9
    <2> HIDE DEF R
    <2> QED
      BY <2>1, <1>5, <1>6, <1>7, <1>8, SameOrder DEF HashesApart
  <1> QED
    BY <1>5, <1>6, <1>10
-------------------------------------------------------------------------------
(* Artifacts that replace one another.                                     *)
LastWins(merged, A, N) ==
    \A n \in 1..N : \A k \in DOMAIN A[n] :
        (\A m \in 1..N : m > n => k \notin DOMAIN A[m]) => merged[k] = A[n][k]

(* Merged has the keys of all steps, and of a key the content of its last  *)
(* step.                                                                   *)
LEMMA MergedIs ==
    ASSUME NEW N \in Nat, NEW A, DOMAIN A = 1..N
    PROVE  /\ DOMAIN Merged(A) = UNION {DOMAIN A[n] : n \in 1..N}
           /\ Merged(A) = [k \in DOMAIN Merged(A) |-> Merged(A)[k]]
           /\ LastWins(Merged(A), A, N)
  <1>1. DOMAIN Merged(A) = UNION {DOMAIN A[n] : n \in 1..N}
    BY DEF Merged
  <1>2. Merged(A) = [k \in DOMAIN Merged(A) |-> Merged(A)[k]]
    BY DEF Merged
  <1>3. ASSUME NEW n \in 1..N, NEW k \in DOMAIN A[n], \A m \in 1..N : m > n => k \notin DOMAIN A[m]
        PROVE  Merged(A)[k] = A[n][k]
    <2> DEFINE S == {m \in DOMAIN A : k \in DOMAIN A[m]}
    <2>1. n \in S /\ \A m \in S : n >= m
      BY <1>3
    <2>2. S \subseteq Int
      OBVIOUS
    <2>3. Merged(A)[k] = A[Max(S)][k]
      BY DEF Merged
    <2> HIDE DEF S
    <2>4. Max(S) \in S /\ \A m \in S : Max(S) >= m
      BY <2>1 DEF Max
    <2>5. Max(S) = n
      <3> DEFINE x == Max(S)
      <3>1. x \in S /\ x >= n
        BY <2>1, <2>4
      <3> HIDE DEF x
      <3>2. x \in Int /\ n \in Int /\ n >= x
        BY <2>1, <2>2, <3>1
      <3>3. x = n
        BY <3>1, <3>2
      <3> QED
        BY <3>3 DEF x
    <2> QED
      BY <2>3, <2>5
  <1> QED
    BY <1>1, <1>2, <1>3 DEF LastWins

StepOf(e) == Merged(<<PayloadArtifacts(e), DiffArtifacts(LogDiff(e))>>)
StepsOf(es) == [n \in DOMAIN es |-> StepOf(es[n])]
LastStep(es, sp) == DiffArtifacts(Snapshots(es, sp))

DiffKey(d) == d.event.refs.artifact

(* The artifacts of diffs with keys that differ.                           *)
LEMMA DiffArtifactsAre ==
    ASSUME NEW diffs
    PROVE  /\ DOMAIN DiffArtifacts(diffs) = {DiffKey(d) : d \in Range(diffs)}
           /\ \A n \in DOMAIN diffs :
                 (\A m \in DOMAIN diffs : DiffKey(diffs[m]) = DiffKey(diffs[n]) => m = n)
                 => DiffArtifacts(diffs)[DiffKey(diffs[n])] = diffs[n].content
  <1>1. DOMAIN DiffArtifacts(diffs) = {DiffKey(diffs[n]) : n \in DOMAIN diffs}
    BY DEF DiffArtifacts, DiffKey
  <1>2. {DiffKey(diffs[n]) : n \in DOMAIN diffs} = {DiffKey(d) : d \in Range(diffs)}
    BY DEF Range
  <1>3. ASSUME NEW n \in DOMAIN diffs, \A m \in DOMAIN diffs : DiffKey(diffs[m]) = DiffKey(diffs[n]) => m = n
        PROVE  DiffArtifacts(diffs)[DiffKey(diffs[n])] = diffs[n].content
    <2> DEFINE k == DiffKey(diffs[n])
    <2>1. DiffArtifacts(diffs)[k] = diffs[CHOOSE m \in DOMAIN diffs : DiffKey(diffs[m]) = k].content
      BY <1>1 DEF DiffArtifacts, DiffKey
    <2>2. (CHOOSE m \in DOMAIN diffs : DiffKey(diffs[m]) = k) = n
      BY <1>3
    <2> QED
      BY <2>1, <2>2
  <1> QED
    BY <1>1, <1>2, <1>3

(* The artifacts of an event have its identifier in their keys.            *)
LEMMA KeysOfStep ==
    ASSUME NEW e, Shaped(e)
    PROVE  /\ DOMAIN StepOf(e) = DOMAIN PayloadArtifacts(e) \cup DOMAIN DiffArtifacts(LogDiff(e))
           /\ \A k \in DOMAIN PayloadArtifacts(e) : k.dir = "payloads" /\ k.id = e.id
           /\ \A k \in DOMAIN DiffArtifacts(LogDiff(e)) :
                 k.dir = "diffs" /\ k.id.of = e.id.of /\ k.id.part = e.id.part
           /\ \A k \in DOMAIN PayloadArtifacts(e) : StepOf(e)[k] = PayloadArtifacts(e)[k]
           /\ \A k \in DOMAIN DiffArtifacts(LogDiff(e)) : StepOf(e)[k] = DiffArtifacts(LogDiff(e))[k]
  <1> DEFINE P == PayloadArtifacts(e)
             D == DiffArtifacts(LogDiff(e))
             A == <<P, D>>
  <1>1. \A k \in DOMAIN P : k.dir = "payloads" /\ k.id = e.id
    <2> SUFFICES ASSUME NEW k \in DOMAIN P PROVE k.dir = "payloads" /\ k.id = e.id
      OBVIOUS
    <2>1. k \in Range(PayloadKeys(e))
      BY DEF PayloadArtifacts
    <2>2. \E n : k = ArtifactKey("payloads", e.id, n)
      BY <2>1 DEF PayloadKeys, Range
    <2> QED
      BY <2>2 DEF ArtifactKey
  <1>2. \A k \in DOMAIN D : k.dir = "diffs" /\ k.id.of = e.id.of /\ k.id.part = e.id.part
    <2> SUFFICES ASSUME NEW k \in DOMAIN D PROVE k.dir = "diffs" /\ k.id.of = e.id.of /\ k.id.part = e.id.part
      OBVIOUS
    <2>1. PICK d \in Range(LogDiff(e)) : k = DiffKey(d)
      BY DiffArtifactsAre
    <2>2. IsLogDiff(d, e)
      <3>1. LogDiff(e) # <<>>
        BY <2>1 DEF Range
      <3>2. PICK c : LogDiff(e) = <<c>> /\ IsLogDiff(c, e)
        BY <3>1, LogDiffOfEvent
      <3>3. d = c
        BY <2>1, <3>2 DEF Range
      <3> QED
        BY <3>2, <3>3
    <2>3. PICK file : d.event = DiffEvent(IdIn(e.id, file), e.ts, file, "log")
      BY <2>2 DEF IsLogDiff
    <2>4. k = ArtifactKey("diffs", IdIn(e.id, file), 0)
      BY <2>1, <2>3 DEF DiffKey, DiffEvent
    <2> QED
      BY <2>4 DEF ArtifactKey, IdIn
  <1> HIDE DEF P, D
  <1>3. DOMAIN A = 1..2 /\ A[1] = P /\ A[2] = D
    OBVIOUS
  <1>4. StepOf(e) = Merged(A)
    BY DEF StepOf, P, D
  <1> HIDE DEF A
  <1>5. DOMAIN Merged(A) = UNION {DOMAIN A[n] : n \in 1..2}
    BY <1>3, MergedIs
  <1>6. DOMAIN Merged(A) = DOMAIN P \cup DOMAIN D
    BY <1>3, <1>5
  <1>7. LastWins(Merged(A), A, 2)
    BY <1>3, MergedIs
  <1>8. \A k \in DOMAIN P : Merged(A)[k] = P[k]
    BY <1>1, <1>2, <1>3, <1>7 DEF LastWins
  <1>9. \A k \in DOMAIN D : Merged(A)[k] = D[k]
    BY <1>3, <1>7 DEF LastWins
  <1> QED
    BY <1>1, <1>2, <1>4, <1>6, <1>8, <1>9 DEF P, D

(* The key of a diff between the workspaces names no event.                *)
LEMMA SnapshotKey ==
    ASSUME NEW d, NEW sp, NEW file, IsSnapshot(d, sp, file)
    PROVE  /\ DiffKey(d) = ArtifactKey("diffs", [of |-> 0, part |-> 0, file |-> file], 0)
           /\ d.content = <<sp.before[file], sp.after[file]>>
           /\ d.event.type = "file.diff" /\ d.event.payload.path = file
           /\ d.event.payload.origin = "snapshot"
           /\ d.event.id = [of |-> 0, part |-> 0, file |-> file]
  <1> DEFINE id == [of |-> 0, part |-> 0, file |-> file]
             content == <<sp.before[file], sp.after[file]>>
  <1> HIDE DEF id, content
  <1>1. PICK ts \in Int : d = [event |-> DiffEvent(id, ts, file, "snapshot"), content |-> content]
    BY DEF IsSnapshot, id, content
  <1>2. d.event = DiffEvent(id, ts, file, "snapshot") /\ d.content = content
    BY <1>1
  <1>3. DiffKey(d) = ArtifactKey("diffs", id, 0)
    BY <1>2 DEF DiffKey, DiffEvent
  <1>4. /\ d.event.type = "file.diff" /\ d.event.payload.path = file
        /\ d.event.payload.origin = "snapshot" /\ d.event.id = id
    BY <1>2 DEF DiffEvent
  <1> QED
    BY <1>2, <1>3, <1>4 DEF id, content

(* The artifacts of a log: those of each event, and those of the snapshots.*)
LaidOut(a, last, es) ==
    /\ DOMAIN a = (UNION {DOMAIN StepOf(e) : e \in Range(es)}) \cup DOMAIN last
    /\ a = [k \in DOMAIN a |-> a[k]]
    /\ \A k \in DOMAIN last : k.dir = "diffs" /\ k.id.of = 0 /\ a[k] = last[k]
    /\ IdsApart(es) =>
          \A n \in DOMAIN es : \A k \in DOMAIN StepOf(es[n]) : a[k] = StepOf(es[n])[k]

(* No step replaces an artifact of another, if identifiers differ.         *)
LEMMA ArtifactsAre ==
    ASSUME NEW E, NEW es \in Seq(E), AllShaped(es), NEW sp
    PROVE  LaidOut(Artifacts(es, sp), LastStep(es, sp), es)
  <1> DEFINE N == Len(es)
             S == LastStep(es, sp)
             steps == StepsOf(es)
             A == Append(steps, S)
  <1>1. N \in Nat /\ DOMAIN es = 1..N
    OBVIOUS
  <1>2. DOMAIN steps = 1..N /\ \A n \in 1..N : steps[n] = StepOf(es[n])
    BY <1>1 DEF StepsOf
  <1>3. steps = [n \in 1..N |-> steps[n]]
    BY <1>1 DEF StepsOf
  <1>4. Artifacts(es, sp) = Merged(A)
    BY DEF Artifacts, StepsOf, StepOf, LastStep
  <1>5. \A n \in 1..N : Shaped(es[n])
    BY DEF AllShaped
  <1>6. \A k \in DOMAIN S : k.dir = "diffs" /\ k.id.of = 0
    <2> SUFFICES ASSUME NEW k \in DOMAIN S PROVE k.dir = "diffs" /\ k.id.of = 0
      OBVIOUS
    <2> DEFINE diffs == Snapshots(es, sp)
    <2>1. PICK d \in Range(diffs) : k = DiffKey(d)
      BY DiffArtifactsAre DEF LastStep
    <2>2. PICK at : FromFiles(diffs, sp, IF sp.given THEN Changed(sp, Covered(es)) ELSE {}, at)
      BY SnapshotsOfFiles
    <2> HIDE DEF diffs
    <2>3. \E file : IsSnapshot(d, sp, file)
      BY <2>1, <2>2 DEF FromFiles, Range
    <2>4. PICK file : IsSnapshot(d, sp, file)
      BY <2>3
    <2>5. DiffKey(d) = ArtifactKey("diffs", [of |-> 0, part |-> 0, file |-> file], 0)
      BY <2>4, SnapshotKey
    <2> QED
      BY <2>1, <2>5 DEF ArtifactKey
  <1> HIDE DEF N, S, steps
  <1>7. /\ DOMAIN A = 1..(N + 1) /\ A[N + 1] = S /\ \A n \in 1..N : A[n] = StepOf(es[n])
    <2>1. Listed(steps) /\ Len(steps) = N
      BY <1>1, <1>3, ListIsListed
    <2> DEFINE T == Range(steps) \cup {S}
    <2>2. steps \in Seq(T) /\ S \in T
      <3> DEFINE R == Range(steps)
      <3>1. steps \in Seq(R)
        BY <2>1 DEF Listed
      <3> HIDE DEF R
      <3> QED
        BY <3>1 DEF R
    <2> HIDE DEF T
    <2>3. DOMAIN A = 1..(N + 1) /\ A[N + 1] = S /\ \A n \in 1..N : A[n] = steps[n]
      BY <1>1, <2>1, <2>2
    <2> QED
      BY <2>3, <1>2
  <1> HIDE DEF A
  <1>8. N + 1 \in Nat /\ N + 1 \in 1..(N + 1) /\ \A n \in 1..N : n \in 1..(N + 1) /\ N + 1 > n
    BY <1>1
  <1>8a. \A m \in 1..(N + 1) : m \in 1..N \/ m = N + 1
    BY <1>1
  <1>9. /\ DOMAIN Merged(A) = UNION {DOMAIN A[n] : n \in 1..(N + 1)}
        /\ Merged(A) = [k \in DOMAIN Merged(A) |-> Merged(A)[k]]
        /\ LastWins(Merged(A), A, N + 1)
    BY <1>7, <1>8, MergedIs
  <1>10. DOMAIN Merged(A) = (UNION {DOMAIN StepOf(e) : e \in Range(es)}) \cup DOMAIN S
    <2>1. ASSUME NEW k \in DOMAIN Merged(A)
          PROVE  k \in (UNION {DOMAIN StepOf(e) : e \in Range(es)}) \cup DOMAIN S
      <3>1. PICK n \in 1..(N + 1) : k \in DOMAIN A[n]
        BY <1>9
      <3>2. CASE n = N + 1
        BY <3>1, <3>2, <1>7
      <3>3. CASE n \in 1..N
        <4>1. es[n] \in Range(es) /\ k \in DOMAIN StepOf(es[n])
          BY <3>1, <3>3, <1>1, <1>7 DEF Range
        <4> QED
          BY <4>1
      <3> QED
        BY <1>8a, <3>2, <3>3
    <2>2. ASSUME NEW e \in Range(es), NEW k \in DOMAIN StepOf(e) PROVE k \in DOMAIN Merged(A)
      <3>1. PICK n \in 1..N : es[n] = e
        BY <1>1 DEF Range
      <3>2. k \in DOMAIN A[n]
        BY <3>1, <1>7
      <3> QED
        BY <3>2, <1>8, <1>9
    <2>3. DOMAIN S \subseteq DOMAIN Merged(A)
      BY <1>7, <1>8, <1>9
    <2> QED
      BY <2>1, <2>2, <2>3
  <1>11. \A k \in DOMAIN S : Merged(A)[k] = S[k]
    <2>1. \A m \in 1..(N + 1) : ~(m > N + 1)
      BY <1>1
    <2> QED
      BY <2>1, <1>7, <1>8, <1>9 DEF LastWins
  <1>12. ASSUME IdsApart(es), NEW n \in 1..N, NEW k \in DOMAIN StepOf(es[n])
         PROVE  Merged(A)[k] = StepOf(es[n])[k]
    <2>1. \A m \in 1..N : \A j \in DOMAIN StepOf(es[m]) :
             j.id.of = es[m].id.of /\ j.id.part = es[m].id.part
      <3> SUFFICES ASSUME NEW m \in 1..N, NEW j \in DOMAIN StepOf(es[m])
                   PROVE  j.id.of = es[m].id.of /\ j.id.part = es[m].id.part
        OBVIOUS
      <3>1. Shaped(es[m])
        BY <1>5
      <3> QED
        BY <3>1, KeysOfStep
    <2>2. \A m \in 1..N : k \in DOMAIN StepOf(es[m]) => m = n
      <3> SUFFICES ASSUME NEW m \in 1..N, k \in DOMAIN StepOf(es[m]) PROVE m = n
        OBVIOUS
      <3>1. es[m].id.of = es[n].id.of /\ es[m].id.part = es[n].id.part
        BY <2>1
      <3>2. es[m].id = IdIn(es[m].id, NoFile) /\ es[n].id = IdIn(es[n].id, NoFile)
        BY <1>5 DEF Shaped
      <3>3. es[m].id = es[n].id
        BY <3>1, <3>2 DEF IdIn
      <3> QED
        BY <3>3, <1>12 DEF IdsApart, N
    <2>3. k \notin DOMAIN S
      BY <2>1, <1>5, <1>6 DEF Shaped
    <2>4. \A m \in 1..(N + 1) : m > n => k \notin DOMAIN A[m]
      <3> SUFFICES ASSUME NEW m \in 1..(N + 1), m > n, k \in DOMAIN A[m] PROVE FALSE
        OBVIOUS
      <3>1. m # n
        BY <1>1
      <3> QED
        BY <3>1, <1>7, <1>8a, <2>2, <2>3
    <2> QED
      BY <2>4, <1>7, <1>8, <1>9 DEF LastWins
  <1>13. LaidOut(Merged(A), S, es)
    BY <1>1, <1>6, <1>9, <1>10, <1>11, <1>12 DEF LaidOut
  <1> QED
    BY <1>4, <1>13 DEF S

-------------------------------------------------------------------------------
(* The order of the events.                                                *)

(* The artifacts depend on which events there are, not on their order.     *)
LEMMA SameArtifacts ==
    ASSUME NEW E, NEW es \in Seq(E), NEW fs \in Seq(E), NEW sp, SameEvents(es, fs, sp)
    PROVE  Artifacts(es, sp) = Artifacts(fs, sp)
  <1> DEFINE a == Artifacts(es, sp)
             b == Artifacts(fs, sp)
             L == LastStep(es, sp)
  <1>1. /\ AllShaped(es) /\ AllShaped(fs) /\ IdsApart(es) /\ IdsApart(fs)
        /\ Range(es) = Range(fs)
    BY DEF SameEvents
  <1>2. LastStep(fs, sp) = L
    BY SameSnapshots DEF LastStep
  <1>3. LaidOut(a, L, es)
    BY <1>1, ArtifactsAre
  <1>4. LaidOut(b, L, fs)
    BY <1>1, <1>2, ArtifactsAre
  <1> HIDE DEF a, b, L
  <1>5. DOMAIN a = DOMAIN b
    BY <1>1, <1>3, <1>4 DEF LaidOut
  <1>6. ASSUME NEW k \in DOMAIN a PROVE a[k] = b[k]
    <2>1. CASE k \in DOMAIN L
      BY <2>1, <1>3, <1>4 DEF LaidOut
    <2>2. ASSUME NEW e \in Range(es), k \in DOMAIN StepOf(e) PROVE a[k] = b[k]
      <3>1. PICK n \in DOMAIN es : es[n] = e
        BY DEF Range
      <3>2. PICK m \in DOMAIN fs : fs[m] = e
        BY <1>1 DEF Range
      <3> QED
        BY <2>2, <3>1, <3>2, <1>1, <1>3, <1>4 DEF LaidOut
    <2> QED
      BY <2>1, <2>2, <1>3 DEF LaidOut
  <1>7. a = b
    BY <1>3, <1>4, <1>5, <1>6 DEF LaidOut
  <1> QED
    BY <1>7 DEF a, b

(* Two events of a log change places.                                      *)
Swapped(es, m, n) == [es EXCEPT ![m] = es[n], ![n] = es[m]]

(* They are the same events.                                               *)
LEMMA SwappedSame ==
    ASSUME NEW E, NEW es \in Seq(E), AllShaped(es), IdsApart(es), NEW sp,
           NEW m \in 1..Len(es), NEW n \in 1..Len(es), m # n,
           sp.given => m # Len(es) /\ n # Len(es)
    PROVE  Swapped(es, m, n) \in Seq(E) /\ SameEvents(es, Swapped(es, m, n), sp)
  <1> DEFINE fs == Swapped(es, m, n)
             N == Len(es)
  <1>1. N \in Nat /\ DOMAIN es = 1..N /\ \A i \in 1..N : es[i] \in E
    OBVIOUS
  <1>2. fs = [i \in 1..N |-> IF i = n THEN es[m] ELSE IF i = m THEN es[n] ELSE es[i]]
    BY <1>1 DEF Swapped
  <1>3. \A i \in 1..N : fs[i] = IF i = n THEN es[m] ELSE IF i = m THEN es[n] ELSE es[i]
    BY <1>2
  <1>4. fs \in Seq(E) /\ Len(fs) = N /\ DOMAIN fs = 1..N
    <2>1. m \in 1..N /\ n \in 1..N
      OBVIOUS
    <2>2. \A i \in 1..N : fs[i] \in E
      BY <1>1, <1>3, <2>1
    <2>3. fs = [i \in 1..N |-> fs[i]]
      BY <1>2
    <2> HIDE DEF fs, N
    <2> QED
      BY <1>1, <2>2, <2>3
  <1> HIDE DEF fs
  <1>5. Range(fs) = Range(es)
    <2>1. ASSUME NEW i \in 1..N PROVE \E j \in 1..N : es[j] = fs[i]
      BY <1>3
    <2>2. ASSUME NEW i \in 1..N PROVE \E j \in 1..N : fs[j] = es[i]
      <3>1. CASE i = n
        BY <3>1, <1>3
      <3>2. CASE i = m
        BY <3>2, <1>3
      <3>3. CASE i # m /\ i # n
        BY <3>3, <1>3
      <3> QED
        BY <3>1, <3>2, <3>3
    <2>3. ASSUME NEW x \in Range(fs) PROVE x \in Range(es)
      <3>1. PICK i \in 1..N : fs[i] = x
        BY <1>4 DEF Range
      <3> QED
        BY <3>1, <2>1, <1>1 DEF Range
    <2>4. ASSUME NEW x \in Range(es) PROVE x \in Range(fs)
      <3>1. PICK i \in 1..N : es[i] = x
        BY <1>1 DEF Range
      <3> QED
        BY <3>1, <2>2, <1>4 DEF Range
    <2> QED
      BY <2>3, <2>4
  <1>6. AllShaped(fs)
    <2>1. \A i \in 1..N : Shaped(es[i])
      BY DEF AllShaped
    <2> QED
      BY <2>1, <1>3, <1>4 DEF AllShaped
  <1>7. IdsApart(fs)
    <2>1. \A i, j \in 1..N : es[i].id = es[j].id => i = j
      BY DEF IdsApart
    <2>2. \A i, j \in 1..N : fs[i].id = fs[j].id => i = j
      BY <2>1, <1>3
    <2> QED
      BY <2>2, <1>4 DEF IdsApart
  <1>8. sp.given /\ N # 0 => es[N] = fs[N]
    <2> SUFFICES ASSUME sp.given, N # 0 PROVE es[N] = fs[N]
      OBVIOUS
    <2>1. N # m /\ N # n
      OBVIOUS
    <2>2. N \in 1..N
      <3> HIDE DEF N
      <3> QED
        BY <1>1
    <2> QED
      BY <2>1, <2>2, <1>3
  <1>9. SameEvents(es, fs, sp)
    BY <1>4, <1>5, <1>6, <1>7, <1>8 DEF SameEvents, N
  <1> QED
    BY <1>4, <1>9 DEF fs

(* The pack of a build is what normalization makes of what was read.       *)
Written(made, given, raw, without) ==
    /\ pack.timeline = Timeline(made, given)
    /\ pack.artifacts = PackArtifacts(made, given, raw, without)

(* TimelineHasOneOrder, of a pack made from the events.                    *)
LEMMA OneOrder ==
    ASSUME NEW E, events \in Seq(E), AllShaped(events),
           place = "done" => Written(events, spaces, ingested, excluded)
    PROVE  TimelineHasOneOrder
  <1> SUFFICES ASSUME place = "done", IdsDiffer,
                      NEW m \in 1..(IF spaces.given THEN Len(events) - 1 ELSE Len(events)),
                      NEW n \in 1..(IF spaces.given THEN Len(events) - 1 ELSE Len(events)), m < n
               PROVE  /\ Timeline(Swapped(events, m, n), spaces) = pack.timeline
                      /\ PackArtifacts(Swapped(events, m, n), spaces, ingested, excluded) = pack.artifacts
    BY DEF TimelineHasOneOrder, Swapped
  <1> DEFINE es == events
             fs == Swapped(es, m, n)
  <1>1. IdsApart(es)
    BY DEF IdsDiffer, IdsApart
  <1>2. Len(es) \in Nat
    OBVIOUS
  <1>3. /\ m \in 1..Len(es) /\ n \in 1..Len(es) /\ m # n
        /\ spaces.given => m # Len(es) /\ n # Len(es)
    BY <1>2
  <1>4. fs \in Seq(E) /\ SameEvents(es, fs, spaces)
    BY <1>1, <1>3, SwappedSame
  <1> HIDE DEF fs
  <1>5. Timeline(es, spaces) = Timeline(fs, spaces) /\ Artifacts(es, spaces) = Artifacts(fs, spaces)
    BY <1>4, SameTimeline, SameArtifacts
  <1>6. Written(es, spaces, ingested, excluded)
    OBVIOUS
  <1> HIDE DEF es
  <1>7. PackArtifacts(es, spaces, ingested, excluded) = PackArtifacts(fs, spaces, ingested, excluded)
    BY <1>5 DEF PackArtifacts
  <1>8. Timeline(fs, spaces) = pack.timeline /\ PackArtifacts(fs, spaces, ingested, excluded) = pack.artifacts
    BY <1>5, <1>6, <1>7 DEF Written
  <1> QED
    BY <1>8 DEF fs, es

-------------------------------------------------------------------------------
(* The keys of artifacts, and what the redaction leaves of them.           *)

(* Fields are numbered differently ...                                     *)
LEMMA NumbersDiffer ==
    ASSUME NEW fields, fields \subseteq Range(FieldOrder), NEW f \in fields, NEW g \in fields,
           Number(f, fields) = Number(g, fields)
    PROVE  f = g
  <1> DEFINE N == Len(FieldOrder)
             upto(x) == {y \in fields : PlaceOf(y) <= PlaceOf(x)}
  <1>1. N \in Nat /\ DOMAIN FieldOrder = 1..N
    BY PathsAssumption
  <1>2. \A x \in fields : PlaceOf(x) \in 1..N /\ FieldOrder[PlaceOf(x)] = x
    <2>1. \A x \in fields : \E i \in 1..N : FieldOrder[i] = x
      BY <1>1 DEF Range
    <2> QED
      BY <1>1, <2>1 DEF PlaceOf
  <1>3. IsFiniteSet(fields)
    <2> DEFINE places == {PlaceOf(x) : x \in fields}
               h == [i \in places |-> FieldOrder[i]]
    <2>1. IsFiniteSet(1..N) /\ places \in SUBSET (1..N)
      <3>1. 1 \in Nat /\ N \in Nat
        BY <1>1
      <3> QED
        BY <3>1, <1>2, FS_Interval
    <2>2. IsFiniteSet(places)
      <3> HIDE DEF places
      <3> QED
        BY <2>1, FS_Subset
    <2>3. h \in Surjection(places, fields)
      <3>1. \A i \in places : h[i] \in fields
        BY <1>2
      <3>2. \A x \in fields : PlaceOf(x) \in places /\ h[PlaceOf(x)] = x
        BY <1>2
      <3>3. h = [i \in places |-> h[i]]
        OBVIOUS
      <3> HIDE DEF h, places
      <3>4. h \in [places -> fields]
        BY <3>1, <3>3
      <3> QED
        BY <3>2, <3>4 DEF Surjection
    <2> HIDE DEF h, places
    <2> QED
      BY <2>2, <2>3, FS_Surjection
  <1>4. \A x \in fields : IsFiniteSet(upto(x)) /\ Cardinality(upto(x)) \in Nat /\ Number(x, fields) = Cardinality(upto(x))
    <2> SUFFICES ASSUME NEW x \in fields
                 PROVE  IsFiniteSet(upto(x)) /\ Cardinality(upto(x)) \in Nat /\ Number(x, fields) = Cardinality(upto(x))
      OBVIOUS
    <2>1. upto(x) \in SUBSET fields /\ Number(x, fields) = Cardinality(upto(x))
      BY DEF Number
    <2> HIDE DEF upto
    <2> QED
      BY <2>1, <1>3, FS_Subset, FS_CardinalityType
  <1>5. \A x, y \in fields : PlaceOf(x) < PlaceOf(y) => Number(x, fields) # Number(y, fields)
    <2> SUFFICES ASSUME NEW x \in fields, NEW y \in fields, PlaceOf(x) < PlaceOf(y)
                 PROVE  Number(x, fields) # Number(y, fields)
      OBVIOUS
    <2>1. PlaceOf(x) \in Int /\ PlaceOf(y) \in Int /\ \A z \in fields : PlaceOf(z) \in Int
      BY <1>1, <1>2
    <2>2. upto(x) \in SUBSET upto(y) /\ y \in upto(y) /\ y \notin upto(x)
      BY <2>1
    <2>3. upto(x) \in SUBSET upto(y) /\ upto(x) # upto(y)
      BY <2>2
    <2> HIDE DEF upto
    <2>4. Cardinality(upto(x)) # Cardinality(upto(y))
      BY <2>3, <1>4, FS_Subset
    <2> QED
      BY <2>4, <1>4
  <1>6. PlaceOf(f) = PlaceOf(g)
    <2>1. PlaceOf(f) \in Int /\ PlaceOf(g) \in Int
      BY <1>1, <1>2
    <2>2. ~(PlaceOf(f) < PlaceOf(g)) /\ ~(PlaceOf(g) < PlaceOf(f))
      BY <1>5
    <2> QED
      BY <2>1, <2>2
  <1> QED
    BY <1>2, <1>6

(* ... so that each long text has an artifact of its own.                  *)
LEMMA PayloadsKept ==
    ASSUME NEW e, Shaped(e), NEW f \in LongFields(e.payload)
    PROVE  /\ PayloadKeys(e)[f] \in DOMAIN PayloadArtifacts(e)
           /\ PayloadArtifacts(e)[PayloadKeys(e)[f]] = <<e.payload[f]>>
           /\ PayloadKeys(e)[f].dir = "payloads"
  <1> DEFINE fields == LongFields(e.payload)
             keys == PayloadKeys(e)
             k == keys[f]
  <1>1. fields \subseteq Range(FieldOrder)
    BY DEF Shaped, LongFields
  <1>2. DOMAIN keys = fields /\ \A g \in fields : keys[g] = ArtifactKey("payloads", e.id, Number(g, fields))
    BY DEF PayloadKeys
  <1> HIDE DEF fields, keys
  <1>3. f \in fields
    BY DEF fields
  <1>4. \A g \in fields : keys[g] = k => g = f
    <2> SUFFICES ASSUME NEW g \in fields, keys[g] = k PROVE g = f
      OBVIOUS
    <2>1. Number(g, fields) = Number(f, fields)
      BY <1>2, <1>3 DEF ArtifactKey
    <2> QED
      BY <2>1, <1>1, <1>3, NumbersDiffer
  <1>5. k \in Range(keys)
    BY <1>2, <1>3 DEF Range
  <1>6. PayloadArtifacts(e) = [j \in Range(keys) |-> <<e.payload[CHOOSE g \in DOMAIN keys : keys[g] = j]>>]
    BY DEF PayloadArtifacts, keys
  <1>7. (CHOOSE g \in DOMAIN keys : keys[g] = k) = f
    BY <1>2, <1>3, <1>4
  <1>8. k \in DOMAIN PayloadArtifacts(e) /\ PayloadArtifacts(e)[k] = <<e.payload[f]>>
    BY <1>5, <1>6, <1>7
  <1>9. k.dir = "payloads"
    BY <1>2, <1>3 DEF ArtifactKey
  <1> QED
    BY <1>8, <1>9 DEF keys

(* The artifacts of a pack: unless excluded, those of the events and, where*)
(* those do not replace them, those of the ingestor.                       *)
Packed(p, raw, a, without) ==
    /\ \A k \in DOMAIN p : k.dir \notin without
    /\ \A k \in DOMAIN a : k.dir \notin without => k \in DOMAIN p /\ p[k] = Redacted(a[k])
    /\ \A k \in DOMAIN raw : k.dir \notin without /\ k \notin DOMAIN a => k \in DOMAIN p /\ p[k] = Redacted(raw[k])

(* What PackArtifacts keeps.                                               *)
LEMMA PackArtifactsAre ==
    ASSUME NEW made, NEW given, NEW raw, NEW without
    PROVE  Packed(PackArtifacts(made, given, raw, without), raw, Artifacts(made, given), without)
  <1> DEFINE a == Artifacts(made, given)
             A == <<raw, a>>
             m == Merged(A)
             p == PackArtifacts(made, given, raw, without)
  <1>1. p = RedactArtifacts(m, without)
    BY DEF PackArtifacts
  <1> HIDE DEF a
  <1>2. DOMAIN A = 1..2 /\ A[1] = raw /\ A[2] = a
    OBVIOUS
  <1> HIDE DEF A
  <1>3. DOMAIN m = UNION {DOMAIN A[n] : n \in 1..2} /\ LastWins(m, A, 2)
    BY <1>2, MergedIs
  <1> HIDE DEF m, p
  <1>4. DOMAIN m = DOMAIN raw \cup DOMAIN a
    BY <1>2, <1>3
  <1>5. \A k \in DOMAIN a : m[k] = a[k]
    BY <1>2, <1>3 DEF LastWins
  <1>6. \A k \in DOMAIN raw : k \notin DOMAIN a => m[k] = raw[k]
    BY <1>2, <1>3 DEF LastWins
  <1>7. DOMAIN p = {k \in DOMAIN m : k.dir \notin without} /\ \A k \in DOMAIN p : p[k] = Redacted(m[k])
    BY <1>1 DEF RedactArtifacts
  <1>8. Packed(p, raw, a, without)
    BY <1>4, <1>5, <1>6, <1>7 DEF Packed
  <1> QED
    BY <1>8 DEF p, a

(* The artifacts of the ingestor have the line of their row in their keys. *)
LEMMA RawKeys ==
    ASSUME NEW f, NEW row, NEW line, NEW k \in DOMAIN RowArtifacts(f, row, line)
    PROVE  k.id.of = line /\ k.dir \in {"ingest", "capture"}
  <1> DEFINE id == [of |-> line, part |-> 0, file |-> NoFile]
  <1>1. \E n : k = ArtifactKey("ingest", id, n) \/ k = ArtifactKey("capture", id, n)
    <2>1. CASE f = "generic_jsonl"
      BY <2>1 DEF RowArtifacts
    <2>2. CASE f # "generic_jsonl"
      BY <2>2 DEF RowArtifacts
    <2> QED
      BY <2>1, <2>2
  <1>2. id.of = line
    OBVIOUS
  <1> HIDE DEF id
  <1> QED
    BY <1>1, <1>2 DEF ArtifactKey

(* No row replaces an artifact of another in extract_artifacts.            *)
LEMMA RawArtifactsAre ==
    ASSUME NEW f, NEW E, NEW rows \in Seq(E), NEW n \in DOMAIN rows, NEW k \in DOMAIN RowArtifacts(f, rows[n], n)
    PROVE  /\ k \in DOMAIN ExtractArtifacts(f, rows)
           /\ ExtractArtifacts(f, rows)[k] = RowArtifacts(f, rows[n], n)[k]
  <1> DEFINE N == Len(rows)
             A == [i \in DOMAIN rows |-> RowArtifacts(f, rows[i], i)]
  <1>1. N \in Nat /\ DOMAIN A = 1..N /\ n \in 1..N /\ \A i \in 1..N : A[i] = RowArtifacts(f, rows[i], i)
    OBVIOUS
  <1>2. ExtractArtifacts(f, rows) = Merged(A)
    BY DEF ExtractArtifacts
  <1> HIDE DEF A, N
  <1>3. DOMAIN Merged(A) = UNION {DOMAIN A[i] : i \in 1..N} /\ LastWins(Merged(A), A, N)
    BY <1>1, MergedIs
  <1>4. \A i \in 1..N : k \in DOMAIN A[i] => i = n
    <2> SUFFICES ASSUME NEW i \in 1..N, k \in DOMAIN A[i] PROVE i = n
      OBVIOUS
    <2>1. k \in DOMAIN RowArtifacts(f, rows[i], i)
      BY <1>1
    <2> QED
      BY <2>1, RawKeys
  <1>5. k \in DOMAIN A[n]
    BY <1>1
  <1>6. Merged(A)[k] = A[n][k]
    <2>1. \A i \in 1..N : i > n => k \notin DOMAIN A[i]
      BY <1>1, <1>4
    <2> QED
      BY <2>1, <1>1, <1>3, <1>5 DEF LastWins
  <1> QED
    BY <1>1, <1>2, <1>3, <1>5, <1>6

-------------------------------------------------------------------------------
(* The log in the pack.                                                    *)

(* Sorting loses no entry.                                                 *)
LEMMA RangeOfTimeline ==
    ASSUME NEW E, NEW es \in Seq(E), AllShaped(es), NEW given
    PROVE  Range(Timeline(es, given))
             = Range(KeptOf(es)) \cup Range(FoundIn(es)) \cup Range(TakenOf(es, given))
  <1> DEFINE s == Entries(es, given)
             N == Len(s)
  <1>1. /\ Timeline(es, given) = InOrder(s) /\ Listed(s) /\ Timed(s)
        /\ Range(s) = Range(KeptOf(es)) \cup Range(FoundIn(es)) \cup Range(TakenOf(es, given))
    BY EntriesOfTimeline
  <1> HIDE DEF s
  <1>2. s \in Seq(Range(s)) /\ DOMAIN s = 1..N
    BY <1>1 DEF Listed
  <1>3. PICK p : Permutes(p, N) /\ InOrder(s) = [k \in 1..N |-> s[p[k]]]
    BY <1>1, <1>2, InOrderPermutes
  <1>4. \A k \in 1..N : p[k] \in 1..N
    BY <1>3 DEF Permutes
  <1>5. \A n \in 1..N : \E k \in 1..N : p[k] = n
    BY <1>3 DEF Permutes
  <1> HIDE DEF N
  <1>6. Range(InOrder(s)) = Range(s)
    <2>1. ASSUME NEW x \in Range(InOrder(s)) PROVE x \in Range(s)
      <3>1. PICK k \in 1..N : x = s[p[k]]
        BY <1>3 DEF Range
      <3> QED
        BY <3>1, <1>2, <1>4 DEF Range
    <2>2. ASSUME NEW x \in Range(s) PROVE x \in Range(InOrder(s))
      <3>1. PICK n \in 1..N : x = s[n]
        BY <1>2 DEF Range
      <3>2. PICK k \in 1..N : p[k] = n
        BY <1>5
      <3> QED
        BY <3>1, <3>2, <1>3 DEF Range
    <2> QED
      BY <2>1, <2>2
  <1> QED
    BY <1>1, <1>6

(* The one entry of an event.                                              *)
LEMMA EntryOfEvent ==
    ASSUME NEW E, NEW es \in Seq(E), AllShaped(es), IdsApart(es), NEW given, NEW n \in 1..Len(es)
    PROVE  {x \in Range(Timeline(es, given)) : x.id = es[n].id} = {Externalized(es[n])}
  <1> DEFINE changed == IF given.given THEN Changed(given, Covered(es)) ELSE {}
             e == Externalized(es[n])
  <1>1. PICK at : FromLog(LogDiffs(es), es, at)
    BY LogDiffsOfEvents
  <1>2. PICK to : FromFiles(Snapshots(es, given), given, changed, to)
    BY SnapshotsOfFiles
  <1>3. changed \subseteq Files
    BY DEF Changed
  <1> HIDE DEF changed
  <1>4. /\ Listed(KeptOf(es)) /\ Len(KeptOf(es)) = Len(es)
        /\ \A m \in 1..Len(es) : KeptOf(es)[m] = Externalized(es[m])
        /\ \A x \in Range(KeptOf(es)) : x.id.file = NoFile
    BY KeptEntries
  <1>5. \A x \in Range(FoundIn(es)) : x.id.file # NoFile
    BY <1>1, FoundEntries
  <1>6. \A x \in Range(TakenOf(es, given)) : x.id.file # NoFile
    BY <1>2, <1>3, TakenEntries
  <1>7. Range(Timeline(es, given)) = Range(KeptOf(es)) \cup Range(FoundIn(es)) \cup Range(TakenOf(es, given))
    BY RangeOfTimeline
  <1>8. \A x : Externalized(x).id = x.id
    BY DEF Externalized
  <1>9. e \in Range(KeptOf(es)) /\ e.id = es[n].id
    BY <1>4, <1>8 DEF Listed, Range
  <1>10. ASSUME NEW x \in Range(Timeline(es, given)), x.id = es[n].id PROVE x = e
    <2>1. x \in Range(KeptOf(es))
      <3>1. e.id.file = NoFile
        BY <1>4, <1>9
      <3>2. x.id.file = NoFile
        BY <3>1, <1>9, <1>10
      <3> QED
        BY <3>2, <1>5, <1>6, <1>7, <1>10
    <2>2. PICK m \in 1..Len(es) : x = Externalized(es[m])
      BY <2>1, <1>4 DEF Listed, Range
    <2>3. es[m].id = es[n].id
      BY <2>2, <1>8, <1>10
    <2>4. m = n
      BY <2>3 DEF IdsApart
    <2> QED
      BY <2>2, <2>4
  <1>11. e \in Range(Timeline(es, given))
    BY <1>7, <1>9
  <1> HIDE DEF e
  <1>12. {x \in Range(Timeline(es, given)) : x.id = es[n].id} = {e}
    BY <1>9, <1>10, <1>11
  <1> QED
    BY <1>12 DEF e

(* An entry of an event has its texts, or refers to them.                  *)
HasText(e, x, f, a) ==
    IF f \in DOMAIN e.refs
    THEN e.refs[f] \in DOMAIN a /\ a[e.refs[f]] = <<x.payload[f]>>
    ELSE e.payload[f] = x.payload[f]

(* Each text of a payload is in the entry or in the artifact it refers to. *)
LEMMA TextsOfEvent ==
    ASSUME NEW E, NEW es \in Seq(E), AllShaped(es), IdsApart(es), NEW given, NEW n \in 1..Len(es),
           NEW f \in DOMAIN es[n].payload
    PROVE  HasText(Externalized(es[n]), es[n], f, Artifacts(es, given))
  <1> DEFINE x == es[n]
             e == Externalized(x)
             a == Artifacts(es, given)
             last == LastStep(es, given)
             keys == PayloadKeys(x)
  <1>1. e.refs = keys /\ e.payload = Restrict(x.payload, DOMAIN x.payload \ DOMAIN keys)
    BY DEF Externalized
  <1>2. DOMAIN keys = LongFields(x.payload)
    BY DEF PayloadKeys
  <1>3. Shaped(x) /\ x \in Range(es)
    BY DEF AllShaped, Range
  <1>4. LaidOut(a, last, es)
    BY ArtifactsAre
  <1> HIDE DEF x, e, a, last, keys
  <1>5. CASE f \in DOMAIN keys
    <2> DEFINE k == keys[f]
    <2>1. f \in LongFields(x.payload)
      BY <1>2, <1>5
    <2>2. k \in DOMAIN PayloadArtifacts(x) /\ PayloadArtifacts(x)[k] = <<x.payload[f]>>
      BY <2>1, <1>3, PayloadsKept DEF keys
    <2> HIDE DEF k
    <2>3. k \in DOMAIN StepOf(x) /\ StepOf(x)[k] = <<x.payload[f]>>
      BY <2>2, <1>3, KeysOfStep
    <2>4. k \in DOMAIN a
      BY <2>3, <1>3, <1>4 DEF LaidOut
    <2>5. a[k] = <<x.payload[f]>>
      <3>1. n \in DOMAIN es /\ k \in DOMAIN StepOf(es[n]) /\ StepOf(es[n])[k] = <<x.payload[f]>>
        BY <2>3 DEF x
      <3> QED
        BY <3>1, <1>4 DEF LaidOut
    <2> QED
      BY <1>1, <1>5, <2>4, <2>5 DEF k, x, e, a, HasText
  <1>6. CASE f \notin DOMAIN keys
    <2>1. f \in DOMAIN x.payload
      BY DEF x
    <2>2. e.payload[f] = x.payload[f]
      BY <1>1, <1>6, <2>1 DEF Restrict
    <2> QED
      BY <1>1, <1>6, <2>2 DEF x, e, a, HasText
  <1> QED
    BY <1>5, <1>6

(* PackHoldsTheLog, of a pack made from the events and rows.               *)
LEMMA HoldsTheLog ==
    ASSUME NEW E, events \in Seq(E), AllShaped(events), NEW R, log \in Seq(R),
           place = "done" => /\ Written(events, spaces, ingested, excluded)
                             /\ ingested = ExtractArtifacts(format, log)
    PROVE  PackHoldsTheLog
  <1> SUFFICES ASSUME place = "done", IdsDiffer PROVE PackHoldsTheLog
    BY DEF PackHoldsTheLog
  <1> DEFINE a == Artifacts(events, spaces)
  <1>1. IdsApart(events) /\ DOMAIN events = 1..Len(events)
    BY DEF IdsDiffer, IdsApart
  <1>2. pack.timeline = Timeline(events, spaces) /\ Packed(pack.artifacts, ingested, a, excluded)
    BY PackArtifactsAre DEF Written
  <1> HIDE DEF a
  <1>3. ASSUME NEW n \in DOMAIN events
        PROVE  LET entries == {e \in Range(pack.timeline) : e.id = events[n].id}
                   Kept(e, f) ==
                       IF f \in DOMAIN e.refs
                       THEN Resolves(e.refs[f], Redacted(<<events[n].payload[f]>>))
                       ELSE e.payload[f] = events[n].payload[f]
               IN  /\ Cardinality(entries) = 1
                   /\ \A e \in entries : \A f \in DOMAIN events[n].payload : Kept(e, f)
    <2> DEFINE x == Externalized(events[n])
    <2>1. {e \in Range(pack.timeline) : e.id = events[n].id} = {x}
      BY <1>1, <1>2, <1>3, EntryOfEvent
    <2>2. Cardinality({x}) = 1
      BY FS_Singleton
    <2>3. ASSUME NEW f \in DOMAIN events[n].payload
          PROVE  IF f \in DOMAIN x.refs
                 THEN Resolves(x.refs[f], Redacted(<<events[n].payload[f]>>))
                 ELSE x.payload[f] = events[n].payload[f]
      <3>1. HasText(x, events[n], f, a)
        BY <1>1, <1>3, <2>3, TextsOfEvent DEF a
      <3> HIDE DEF x
      <3> QED
        BY <3>1, <1>2 DEF HasText, Packed, Resolves
    <2> HIDE DEF x
    <2> QED
      BY <2>1, <2>2, <2>3
  <1>4. ASSUME NEW n \in DOMAIN log, NEW key \in DOMAIN RowArtifacts(format, log[n], n)
        PROVE  Resolves(key, Redacted(RowArtifacts(format, log[n], n)[key]))
    <2> DEFINE c == RowArtifacts(format, log[n], n)[key]
    <2>1. key \in DOMAIN ingested /\ ingested[key] = c
      BY <1>4, RawArtifactsAre
    <2>2. key.dir \in {"ingest", "capture"}
      BY <1>4, RawKeys
    <2> HIDE DEF c
    <2>3. key \notin DOMAIN a
      <3> SUFFICES ASSUME key \in DOMAIN a PROVE FALSE
        OBVIOUS
      <3>1. LaidOut(a, LastStep(events, spaces), events)
        BY ArtifactsAre DEF a
      <3>2. CASE key \in DOMAIN LastStep(events, spaces)
        BY <2>2, <3>1, <3>2 DEF LaidOut
      <3>3. ASSUME NEW e \in Range(events), key \in DOMAIN StepOf(e) PROVE FALSE
        <4>1. Shaped(e)
          BY DEF AllShaped, Range
        <4> QED
          BY <2>2, <3>3, <4>1, KeysOfStep
      <3> QED
        BY <3>1, <3>2, <3>3 DEF LaidOut
    <2>4. Resolves(key, Redacted(c))
      BY <2>1, <2>3, <1>2 DEF Packed, Resolves
    <2> QED
      BY <2>4 DEF c
  <1> QED
    BY <1>3, <1>4 DEF PackHoldsTheLog

-------------------------------------------------------------------------------
(* The diffs in the pack.                                                  *)

IsDiffOf(x, file) == x.type = "file.diff" /\ x.payload.path = file

(* A diff found in the log: of a file that is covered, with an artifact.   *)
FoundDiff(x, es, a) ==
    /\ x.type = "file.diff" /\ x.payload.origin = "log"
    /\ x.payload.path \in Covered(es) /\ FileOf(x.payload.path) = x.payload.path
    /\ x.refs.artifact \in DOMAIN a /\ x.refs.artifact.dir = "diffs"
    /\ \E n \in DOMAIN es : es[n].ts <= x.ts /\ x.id.of = es[n].id.of

(* The entries of diffs found in the log.                                  *)
LEMMA FoundDiffs ==
    ASSUME NEW E, NEW es \in Seq(E), AllShaped(es), NEW sp
    PROVE  /\ \A x \in Range(FoundIn(es)) : FoundDiff(x, es, Artifacts(es, sp))
           /\ \A file \in Covered(es) : \E x \in Range(FoundIn(es)) : x.payload.path = file
  <1> DEFINE a == Artifacts(es, sp)
             diffs == LogDiffs(es)
  <1>1. PICK at : FromLog(diffs, es, at)
    BY LogDiffsOfEvents
  <1>2. /\ Listed(FoundIn(es)) /\ Len(FoundIn(es)) = Len(diffs)
        /\ \A n \in 1..Len(diffs) : FoundIn(es)[n] = diffs[n].event
    BY <1>1, FoundEntries
  <1>3. Covered(es) = {diffs[n].event.payload.path : n \in 1..Len(diffs)}
    BY <1>1 DEF Covered, FromLog
  <1>4. LaidOut(a, LastStep(es, sp), es)
    BY ArtifactsAre
  <1>5. DOMAIN es = 1..Len(es)
    OBVIOUS
  <1> HIDE DEF a, diffs
  <1>6. \A x \in Range(FoundIn(es)) : \E n \in 1..Len(diffs) : x = diffs[n].event
    BY <1>2 DEF Listed, Range
  <1>7. ASSUME NEW n \in 1..Len(diffs) PROVE FoundDiff(diffs[n].event, es, a)
    <2> DEFINE d == diffs[n]
               e == es[at[n]]
               x == d.event
    <2>1. at[n] \in DOMAIN es /\ LogDiff(e) = <<d>> /\ IsLogDiff(d, e)
      BY <1>1, <1>5 DEF FromLog
    <2>2. e \in Range(es) /\ Shaped(e)
      BY <2>1, <1>5 DEF Range, AllShaped
    <2>3. x.payload.path \in Covered(es)
      BY <1>3
    <2> HIDE DEF e, d
    <2>4. PICK file \in DiffFiles \ {NoFile} : x = DiffEvent(IdIn(e.id, file), e.ts, file, "log")
      BY <2>1 DEF IsLogDiff
    <2>5. /\ x.type = "file.diff" /\ x.payload.origin = "log" /\ x.payload.path = file
          /\ x.refs.artifact = ArtifactKey("diffs", IdIn(e.id, file), 0) /\ x.ts = e.ts
          /\ x.id = IdIn(e.id, file)
      BY <2>4 DEF DiffEvent
    <2>6. FileOf(file) = file
      <3>1. file \in Files \cup {"unknown.txt"} \cup Range(NormalPath)
        BY <2>4 DEF DiffFiles
      <3> QED
        BY <3>1, PathsAssumption DEF FileOf
    <2>7. x.refs.artifact.dir = "diffs" /\ x.id.of = e.id.of
      BY <2>5 DEF ArtifactKey, IdIn
    <2>8. x.refs.artifact \in DOMAIN a
      <3>1. d \in Range(LogDiff(e)) /\ x.refs.artifact = DiffKey(d)
        BY <2>1 DEF Range, DiffKey
      <3>2. x.refs.artifact \in DOMAIN DiffArtifacts(LogDiff(e))
        BY <3>1, DiffArtifactsAre
      <3>3. x.refs.artifact \in DOMAIN StepOf(e)
        BY <3>2, <2>2, KeysOfStep
      <3> QED
        BY <3>3, <2>2, <1>4 DEF LaidOut
    <2>9. e.ts <= x.ts
      BY <2>2, <2>5 DEF Shaped
    <2>10. \E m \in DOMAIN es : es[m].ts <= x.ts /\ x.id.of = es[m].id.of
      BY <2>1, <2>7, <2>9 DEF e
    <2> HIDE DEF x
    <2>11. FoundDiff(x, es, a)
      BY <2>3, <2>5, <2>6, <2>7, <2>8, <2>10 DEF FoundDiff
    <2> QED
      BY <2>11 DEF x, d
  <1>8. ASSUME NEW file \in Covered(es) PROVE \E x \in Range(FoundIn(es)) : x.payload.path = file
    <2>1. PICK n \in 1..Len(diffs) : file = diffs[n].event.payload.path
      BY <1>3
    <2>2. FoundIn(es)[n] \in Range(FoundIn(es))
      BY <1>2 DEF Listed, Range
    <2> QED
      BY <2>1, <2>2, <1>2
  <1> QED
    BY <1>6, <1>7, <1>8 DEF a

(* A diff of the workspaces: of a changed file that is not covered, with   *)
(* the artifact that shows the change.                                     *)
TakenDiff(x, es, sp, a) ==
    /\ x.type = "file.diff" /\ x.payload.origin = "snapshot"
    /\ x.payload.path \in Changed(sp, Covered(es)) /\ FileOf(x.payload.path) = x.payload.path
    /\ x.id = [of |-> 0, part |-> 0, file |-> x.payload.path]
    /\ x.refs.artifact \in DOMAIN a /\ x.refs.artifact.dir = "diffs"
    /\ a[x.refs.artifact] = <<sp.before[x.payload.path], sp.after[x.payload.path]>>

(* The entries of diffs between the workspaces.                            *)
LEMMA TakenDiffs ==
    ASSUME NEW E, NEW es \in Seq(E), AllShaped(es), NEW sp
    PROVE  /\ \A x \in Range(TakenOf(es, sp)) : TakenDiff(x, es, sp, Artifacts(es, sp))
           /\ sp.given => \A file \in Changed(sp, Covered(es)) :
                             \E x \in Range(TakenOf(es, sp)) : x.payload.path = file
  <1> DEFINE a == Artifacts(es, sp)
             diffs == Snapshots(es, sp)
             last == LastStep(es, sp)
             C == Changed(sp, Covered(es))
             changed == IF sp.given THEN C ELSE {}
  <1>1. PICK at : FromFiles(diffs, sp, changed, at)
    BY SnapshotsOfFiles
  <1>2. changed \subseteq C /\ C \subseteq Files /\ (sp.given => changed = C)
    BY DEF Changed
  <1>3. last = DiffArtifacts(diffs)
    BY DEF LastStep
  <1> HIDE DEF changed, C, last
  <1>4. /\ Listed(TakenOf(es, sp)) /\ Len(TakenOf(es, sp)) = Len(diffs)
        /\ \A n \in 1..Len(diffs) : TakenOf(es, sp)[n] = diffs[n].event
    <2>1. changed \subseteq Files
      BY <1>2
    <2> QED
      BY <1>1, <2>1, TakenEntries
  <1>5. LaidOut(a, last, es)
    BY ArtifactsAre DEF last
  <1>6. DOMAIN FileOrder = 1..Len(FileOrder)
    BY PathsAssumption
  <1> HIDE DEF a, diffs
  <1>7. \A x \in Range(TakenOf(es, sp)) : \E n \in 1..Len(diffs) : x = diffs[n].event
    BY <1>4 DEF Listed, Range
  <1>8. /\ DOMAIN diffs = 1..Len(diffs)
        /\ \A n \in 1..Len(diffs) : /\ at[n] \in DOMAIN FileOrder /\ FileOrder[at[n]] \in changed
                                    /\ IsSnapshot(diffs[n], sp, FileOrder[at[n]])
        /\ \A m, n \in 1..Len(diffs) : at[m] = at[n] => m = n
    BY <1>1, <1>6 DEF FromFiles
  <1>9. \A n \in 1..Len(diffs) :
            /\ DiffKey(diffs[n]) = ArtifactKey("diffs", [of |-> 0, part |-> 0, file |-> FileOrder[at[n]]], 0)
            /\ diffs[n].content = <<sp.before[FileOrder[at[n]]], sp.after[FileOrder[at[n]]]>>
            /\ diffs[n].event.type = "file.diff" /\ diffs[n].event.payload.path = FileOrder[at[n]]
            /\ diffs[n].event.payload.origin = "snapshot"
            /\ diffs[n].event.id = [of |-> 0, part |-> 0, file |-> FileOrder[at[n]]]
    BY <1>8, SnapshotKey
  <1>9a. \A file : ArtifactKey("diffs", [of |-> 0, part |-> 0, file |-> file], 0).dir = "diffs"
                  /\ ArtifactKey("diffs", [of |-> 0, part |-> 0, file |-> file], 0).id.file = file
    BY DEF ArtifactKey
  <1>9b. \A n \in 1..Len(diffs) : DiffKey(diffs[n]).dir = "diffs"
    <2> SUFFICES ASSUME NEW n \in 1..Len(diffs) PROVE DiffKey(diffs[n]).dir = "diffs"
      OBVIOUS
    <2>1. DiffKey(diffs[n]) = ArtifactKey("diffs", [of |-> 0, part |-> 0, file |-> FileOrder[at[n]]], 0)
      BY <1>9
    <2> QED
      BY <2>1 DEF ArtifactKey
  <1>10. \A m, n \in 1..Len(diffs) : DiffKey(diffs[m]) = DiffKey(diffs[n]) => m = n
    <2> SUFFICES ASSUME NEW m \in 1..Len(diffs), NEW n \in 1..Len(diffs), DiffKey(diffs[m]) = DiffKey(diffs[n])
                 PROVE  m = n
      OBVIOUS
    <2>1. FileOrder[at[m]] = FileOrder[at[n]]
      <3>1. DiffKey(diffs[m]).id.file = FileOrder[at[m]] /\ DiffKey(diffs[n]).id.file = FileOrder[at[n]]
        BY <1>9, <1>9a
      <3> QED
        BY <3>1
    <2>2. at[m] = at[n]
      BY <2>1, <1>8, PathsAssumption
    <2> QED
      BY <2>2, <1>8
  <1>11. ASSUME NEW n \in 1..Len(diffs) PROVE TakenDiff(diffs[n].event, es, sp, a)
    <2> DEFINE x == diffs[n].event
               file == FileOrder[at[n]]
               k == DiffKey(diffs[n])
    <2>1. file \in C /\ file \in Files
      BY <1>2, <1>8
    <2>2. x.refs.artifact = k
      BY DEF DiffKey
    <2>3. /\ x.type = "file.diff" /\ x.payload.origin = "snapshot" /\ x.payload.path = file
          /\ x.id = [of |-> 0, part |-> 0, file |-> file]
          /\ diffs[n].content = <<sp.before[file], sp.after[file]>>
      BY <1>9
    <2>3a. k.dir = "diffs"
      BY <1>9b
    <2>4. FileOf(file) = file
      BY <2>1, PathsAssumption DEF FileOf
    <2>5. k \in DOMAIN last
      <3>1. diffs[n] \in Range(diffs)
        BY <1>8 DEF Range
      <3> QED
        BY <3>1, <1>3, DiffArtifactsAre
    <2>6. last[k] = diffs[n].content
      BY <1>3, <1>8, <1>10, DiffArtifactsAre
    <2>7. k \in DOMAIN a /\ a[k] = diffs[n].content
      BY <2>5, <2>6, <1>5 DEF LaidOut
    <2> HIDE DEF x, file, k
    <2>8. TakenDiff(x, es, sp, a)
      BY <2>1, <2>2, <2>3, <2>3a, <2>4, <2>7 DEF TakenDiff, C
    <2> QED
      BY <2>8 DEF x
  <1>12. ASSUME sp.given, NEW file \in C PROVE \E x \in Range(TakenOf(es, sp)) : x.payload.path = file
    <2>1. PICK k \in 1..Len(FileOrder) : FileOrder[k] = file
      BY <1>2, <1>6, <1>12 DEF Files, Range
    <2>2. PICK n \in 1..Len(diffs) : at[n] = k
      BY <2>1, <1>1, <1>2, <1>12 DEF FromFiles
    <2>3. TakenOf(es, sp)[n] \in Range(TakenOf(es, sp)) /\ TakenOf(es, sp)[n] = diffs[n].event
      BY <1>4 DEF Listed, Range
    <2> QED
      BY <2>1, <2>2, <2>3, <1>9
  <1> QED
    BY <1>7, <1>11, <1>12 DEF a, C

-------------------------------------------------------------------------------
(* The diffs of one file.                                                  *)

(* Diffs among the entries, and where an entry that is a diff of a file    *)
(* that the log does not cover can be.                                     *)
LEMMA DiffEntries ==
    ASSUME NEW E, NEW es \in Seq(E), AllShaped(es), NEW sp
    PROVE  /\ \A x \in Range(Timeline(es, sp)) :
                 x.type = "file.diff" <=> x \in Range(FoundIn(es)) \cup Range(TakenOf(es, sp))
           /\ Range(FoundIn(es)) \cup Range(TakenOf(es, sp)) \subseteq Range(Timeline(es, sp))
  <1>1. \A x \in Range(KeptOf(es)) : x.type # "file.diff"
    BY KeptEntries
  <1>2. \A x \in Range(FoundIn(es)) : x.type = "file.diff"
    BY FoundDiffs DEF FoundDiff
  <1>3. \A x \in Range(TakenOf(es, sp)) : x.type = "file.diff"
    <2>1. \A x \in Range(TakenOf(es, sp)) : TakenDiff(x, es, sp, Artifacts(es, sp))
      BY TakenDiffs
    <2> QED
      BY <2>1 DEF TakenDiff
  <1> QED
    BY <1>1, <1>2, <1>3, RangeOfTimeline

(* A file the log does not cover has one diff at most in the timeline.     *)
LEMMA OnePlace ==
    ASSUME NEW E, NEW es \in Seq(E), AllShaped(es), NEW sp, NEW file, file \notin Covered(es),
           NEW i \in DOMAIN Timeline(es, sp), NEW j \in DOMAIN Timeline(es, sp),
           IsDiffOf(Timeline(es, sp)[i], file), IsDiffOf(Timeline(es, sp)[j], file)
    PROVE  i = j
  <1> DEFINE s == Entries(es, sp)
             N == Len(s)
             K == KeptOf(es)
             F == FoundIn(es)
             S == TakenOf(es, sp)
             KF == K \o F
             changed == IF sp.given THEN Changed(sp, Covered(es)) ELSE {}
  <1>1. Timeline(es, sp) = InOrder(s) /\ Listed(s) /\ Timed(s)
    BY EntriesOfTimeline
  <1>2. PICK to : FromFiles(Snapshots(es, sp), sp, changed, to)
    BY SnapshotsOfFiles
  <1>3. changed \subseteq Files
    BY DEF Changed
  <1> HIDE DEF changed
  <1>4. Listed(S) /\ IdsApart(S)
    BY <1>2, <1>3, TakenEntries
  <1>5. Listed(K) /\ \A x \in Range(K) : x.type # "file.diff"
    BY KeptEntries
  <1>6. PICK at : FromLog(LogDiffs(es), es, at)
    BY LogDiffsOfEvents
  <1>7. Listed(F)
    BY <1>6, FoundEntries
  <1>8. \A x \in Range(F) : x.payload.path \in Covered(es)
    BY FoundDiffs DEF FoundDiff
  <1>9. \A x \in Range(S) : x.id = [of |-> 0, part |-> 0, file |-> x.payload.path]
    <2>1. \A x \in Range(S) : TakenDiff(x, es, sp, Artifacts(es, sp))
      BY TakenDiffs
    <2> HIDE DEF S
    <2> QED
      BY <2>1 DEF TakenDiff
  <1>10. s = KF \o S
    BY DEF Entries
  <1> HIDE DEF s, K, F, S
  <1>11. Listed(KF) /\ Range(KF) = Range(K) \cup Range(F)
    BY <1>5, <1>7, ListedConcat
  <1>12. \A x \in Range(KF) : ~IsDiffOf(x, file)
    BY <1>5, <1>8, <1>11 DEF IsDiffOf
  <1> HIDE DEF KF
  <1>13. Follows(KF, S, s)
    BY <1>4, <1>10, <1>11, ConcatPlaces DEF Listed
  <1> DEFINE L == Len(KF)
  <1>14. \A n \in 1..N : IsDiffOf(s[n], file) => /\ n - L \in 1..Len(S) /\ s[n] = S[n - L]
                                                 /\ S[n - L].id = [of |-> 0, part |-> 0, file |-> file]
    <2> SUFFICES ASSUME NEW n \in 1..N, IsDiffOf(s[n], file)
                 PROVE  /\ n - L \in 1..Len(S) /\ s[n] = S[n - L]
                        /\ S[n - L].id = [of |-> 0, part |-> 0, file |-> file]
      OBVIOUS
    <2>1. n \notin 1..L
      <3> SUFFICES ASSUME n \in 1..L PROVE FALSE
        OBVIOUS
      <3>1. s[n] = KF[n] /\ KF[n] \in Range(KF)
        BY <1>11, <1>13 DEF Follows, Listed, Range
      <3> QED
        BY <3>1, <1>12
    <2>2. n - L \in 1..Len(S) /\ L \in Nat
      BY <2>1, <1>13 DEF Follows
    <2>3. s[L + (n - L)] = S[n - L]
      BY <2>2, <1>13 DEF Follows
    <2>4. L + (n - L) = n
      BY <2>2
    <2>5. S[n - L] \in Range(S)
      BY <2>2, <1>4 DEF Listed, Range
    <2>6. S[n - L].payload.path = file
      BY <2>3, <2>4 DEF IsDiffOf
    <2> QED
      BY <2>2, <2>3, <2>4, <2>5, <2>6, <1>9
  <1>15. \A m, n \in 1..N : IsDiffOf(s[m], file) /\ IsDiffOf(s[n], file) => m = n
    <2> SUFFICES ASSUME NEW m \in 1..N, NEW n \in 1..N, IsDiffOf(s[m], file), IsDiffOf(s[n], file) PROVE m = n
      OBVIOUS
    <2>1. m - L \in 1..Len(S) /\ n - L \in 1..Len(S) /\ S[m - L].id = S[n - L].id
      BY <1>14
    <2>2. m - L = n - L
      BY <2>1, <1>4 DEF IdsApart
    <2>3. L \in Int /\ m \in Int /\ n \in Int
      BY <1>13 DEF Follows
    <2> HIDE DEF L
    <2> QED
      BY <2>2, <2>3
  <1>16. s \in Seq(Range(s)) /\ DOMAIN s = 1..N
    BY <1>1 DEF Listed
  <1>17. PICK p : Permutes(p, N) /\ InOrder(s) = [k \in 1..N |-> s[p[k]]]
    BY <1>1, <1>16, InOrderPermutes
  <1>18. i \in 1..N /\ j \in 1..N /\ Timeline(es, sp)[i] = s[p[i]] /\ Timeline(es, sp)[j] = s[p[j]]
    <2>1. Timeline(es, sp) = [k \in 1..N |-> s[p[k]]]
      BY <1>1, <1>17
    <2> HIDE DEF N
    <2> QED
      BY <2>1
  <1>19. p[i] \in 1..N /\ p[j] \in 1..N
    BY <1>17, <1>18 DEF Permutes
  <1>20. p[i] = p[j]
    BY <1>15, <1>18, <1>19
  <1> QED
    BY <1>17, <1>18, <1>20 DEF Permutes

-------------------------------------------------------------------------------
(* pack diff.                                                              *)

(* A timeline is a sequence.                                               *)
LEMMA TimelineListed ==
    ASSUME NEW E, NEW es \in Seq(E), AllShaped(es), NEW sp
    PROVE  Listed(Timeline(es, sp))
  <1> DEFINE s == Entries(es, sp)
             N == Len(s)
  <1>1. Timeline(es, sp) = InOrder(s) /\ Listed(s) /\ Timed(s)
    BY EntriesOfTimeline
  <1> HIDE DEF s
  <1>2. s \in Seq(Range(s)) /\ N \in Nat
    BY <1>1 DEF Listed
  <1>3. PICK p : InOrder(s) = [k \in 1..N |-> s[p[k]]]
    BY <1>1, <1>2, InOrderPermutes
  <1> HIDE DEF N
  <1>4. InOrder(s) = [k \in 1..N |-> InOrder(s)[k]]
    BY <1>3
  <1> QED
    BY <1>1, <1>2, <1>4, ListIsListed

(* What pack diff selects for a file, and from where in the timeline.      *)
Selects(selected, file, t, at) ==
    /\ Len(selected) \in Nat /\ DOMAIN selected = 1..Len(selected)
    /\ at \in [1..Len(selected) -> DOMAIN t]
    /\ \A i \in 1..Len(selected) : selected[i] = t[at[i]] /\ IsDiffOf(selected[i], file)
    /\ \A i, j \in 1..Len(selected) : at[i] = at[j] => i = j
    /\ \A k \in DOMAIN t : IsDiffOf(t[k], file) => \E i \in 1..Len(selected) : at[i] = k

KeysOf(selected) == [n \in DOMAIN selected |-> selected[n].refs.artifact]

Shows(selected, keys, a, code, shown) ==
    IF selected = <<>> \/ \E n \in DOMAIN keys : keys[n] \notin DOMAIN a
    THEN code = 1 /\ shown = <<>>
    ELSE code = 0 /\ shown = [n \in DOMAIN keys |-> a[keys[n]]]

(* RenderDiff follows the diffs of the file to their artifacts.            *)
LEMMA RenderSelects ==
    ASSUME NEW file, Listed(pack.timeline)
    PROVE  \E selected, at :
              /\ Selects(selected, file, pack.timeline, at)
              /\ Shows(selected, KeysOf(selected), pack.artifacts, RenderDiff(file).code, RenderDiff(file).shown)
  <1> DEFINE t == pack.timeline
             Part(x) == IF IsDiffOf(x, file) THEN <<x>> ELSE <<>>
             parts == [n \in DOMAIN t |-> Part(t[n])]
             T == Range(t)
             U == Seq(T)
             selected == FlattenSeq(parts)
             render == RenderDiff(file)
             N == Len(t)
  <1>1. N \in Nat /\ DOMAIN t = 1..N /\ \A n \in 1..N : t[n] \in T
    BY DEF Listed, Range
  <1>2. render = IF selected = <<>> \/ \E n \in DOMAIN KeysOf(selected) : KeysOf(selected)[n] \notin DOMAIN pack.artifacts
                 THEN [code |-> 1, shown |-> <<>>]
                 ELSE [code |-> 0, shown |-> [n \in DOMAIN KeysOf(selected) |-> pack.artifacts[KeysOf(selected)[n]]]]
    BY DEF RenderDiff, KeysOf, IsDiffOf
  <1> HIDE DEF render, selected
  <1>3. Shows(selected, KeysOf(selected), pack.artifacts, render.code, render.shown)
    <2> DEFINE keys == KeysOf(selected)
               shown == [n \in DOMAIN keys |-> pack.artifacts[keys[n]]]
               Fails == selected = <<>> \/ \E n \in DOMAIN keys : keys[n] \notin DOMAIN pack.artifacts
    <2>1. render = IF Fails THEN [code |-> 1, shown |-> <<>>] ELSE [code |-> 0, shown |-> shown]
      BY <1>2
    <2> HIDE DEF shown, Fails
    <2>2. IF Fails THEN render.code = 1 /\ render.shown = <<>> ELSE render.code = 0 /\ render.shown = shown
      BY <2>1
    <2> QED
      BY <2>2 DEF shown, Fails, Shows
  <1> HIDE DEF T
  <1>4. \A n \in 1..N : /\ parts[n] = IF IsDiffOf(t[n], file) THEN <<t[n]>> ELSE <<>>
                        /\ AtMostOne(parts[n], T)
    BY <1>1 DEF AtMostOne
  <1>5. \A n \in 1..N : parts[n] \in U
    <2>1. <<>> \in Seq(T) /\ \A x \in T : <<x>> \in Seq(T)
      OBVIOUS
    <2> QED
      BY <1>1, <2>1
  <1>6. parts = [n \in 1..N |-> parts[n]]
    BY <1>1
  <1> HIDE DEF parts, U, N
  <1>7. parts \in Seq(U) /\ Len(parts) = N
    <2>1. parts \in [1..N -> U]
      BY <1>5, <1>6
    <2> QED
      BY <2>1, <1>1
  <1>8. selected \in Seq(T) /\ \E at : Picks(selected, parts, at)
    <2>1. parts \in Seq(Seq(T)) /\ \A k \in 1..Len(parts) : AtMostOne(parts[k], T)
      BY <1>4, <1>7 DEF U
    <2> QED
      BY <2>1, FlattenPicks DEF selected
  <1>9. PICK at : Picks(selected, parts, at)
    BY <1>8
  <1>10. Len(selected) \in Nat /\ DOMAIN selected = 1..Len(selected)
    BY <1>8
  <1>11. at \in [1..Len(selected) -> DOMAIN t]
    BY <1>1, <1>7, <1>9 DEF Picks
  <1>12. \A i \in 1..Len(selected) : selected[i] = t[at[i]] /\ IsDiffOf(selected[i], file)
    <2> SUFFICES ASSUME NEW i \in 1..Len(selected) PROVE selected[i] = t[at[i]] /\ IsDiffOf(selected[i], file)
      OBVIOUS
    <2>1. at[i] \in 1..N /\ parts[at[i]] = <<selected[i]>>
      BY <1>1, <1>9, <1>11 DEF Picks
    <2>2. IsDiffOf(t[at[i]], file) /\ <<selected[i]>> = <<t[at[i]]>>
      BY <2>1, <1>4, One
    <2> QED
      BY <2>2, One
  <1>13. \A i, j \in 1..Len(selected) : at[i] = at[j] => i = j
    BY <1>9 DEF Picks
  <1>14. \A k \in DOMAIN t : IsDiffOf(t[k], file) => \E i \in 1..Len(selected) : at[i] = k
    <2> SUFFICES ASSUME NEW k \in DOMAIN t, IsDiffOf(t[k], file) PROVE \E i \in 1..Len(selected) : at[i] = k
      OBVIOUS
    <2>1. k \in 1..N /\ parts[k] # <<>>
      BY <1>1, <1>4, One
    <2> QED
      BY <2>1, <1>7, <1>9 DEF Picks
  <1>15. Selects(selected, file, t, at)
    BY <1>10, <1>11, <1>12, <1>13, <1>14 DEF Selects
  <1> QED
    BY <1>3, <1>15 DEF render

-------------------------------------------------------------------------------
(* The diffs of a file, and what pack diff shows of them.                  *)

(* The diffs of a file in a pack.                                          *)
LEMMA DiffsOfFile ==
    ASSUME NEW E, NEW es \in Seq(E), AllShaped(es), NEW sp, pack.timeline = Timeline(es, sp), NEW file
    PROVE  /\ DiffsOf(file) = {x \in Range(FoundIn(es)) \cup Range(TakenOf(es, sp)) : x.payload.path = file}
           /\ DiffsOf(file) = {x \in Range(pack.timeline) : IsDiffOf(x, file)}
  <1> DEFINE F == Range(FoundIn(es))
             S == Range(TakenOf(es, sp))
             T == Range(pack.timeline)
  <1>1. (\A x \in T : x.type = "file.diff" <=> x \in F \cup S) /\ F \cup S \subseteq T
    BY DiffEntries
  <1>2. \A x \in F : FileOf(x.payload.path) = x.payload.path
    <2>1. \A x \in F : FoundDiff(x, es, Artifacts(es, sp))
      BY FoundDiffs
    <2> HIDE DEF F
    <2> QED
      BY <2>1 DEF FoundDiff
  <1>3. \A x \in S : FileOf(x.payload.path) = x.payload.path
    <2>1. \A x \in S : TakenDiff(x, es, sp, Artifacts(es, sp))
      BY TakenDiffs
    <2> HIDE DEF S
    <2> QED
      BY <2>1 DEF TakenDiff
  <1>4. DiffsOf(file) = {x \in T : x.type = "file.diff" /\ FileOf(x.payload.path) = file}
    BY DEF DiffsOf
  <1> HIDE DEF F, S, T
  <1>5. \A x \in T : x.type = "file.diff" => FileOf(x.payload.path) = x.payload.path
    BY <1>1, <1>2, <1>3
  <1>6. DiffsOf(file) = {x \in F \cup S : x.payload.path = file}
    BY <1>1, <1>4, <1>5
  <1>7. DiffsOf(file) = {x \in T : IsDiffOf(x, file)}
    BY <1>4, <1>5 DEF IsDiffOf
  <1> QED
    BY <1>6, <1>7 DEF F, S, T

OriginsOf(file) == {e.payload.origin : e \in DiffsOf(file)}

(* A file has diffs of one origin.                                         *)
LEMMA OneOrigin ==
    ASSUME NEW E, NEW es \in Seq(E), AllShaped(es), NEW sp, pack.timeline = Timeline(es, sp), NEW file
    PROVE  /\ file \in Covered(es) => OriginsOf(file) = {"log"}
           /\ file \notin Covered(es) => /\ OriginsOf(file) \subseteq {"snapshot"}
                                         /\ DiffsOf(file) \subseteq Range(TakenOf(es, sp))
           /\ sp.given /\ file \in Files /\ sp.before[file] # sp.after[file] => OriginsOf(file) # {}
           /\ Cardinality(OriginsOf(file)) <= 1
  <1> DEFINE F == Range(FoundIn(es))
             S == Range(TakenOf(es, sp))
             D == DiffsOf(file)
  <1>1. D = {x \in F \cup S : x.payload.path = file}
    BY DiffsOfFile
  <1>2. \A x \in F : x.payload.origin = "log" /\ x.payload.path \in Covered(es)
    <2>1. \A x \in F : FoundDiff(x, es, Artifacts(es, sp))
      BY FoundDiffs
    <2> HIDE DEF F
    <2> QED
      BY <2>1 DEF FoundDiff
  <1>3. \A x \in S : x.payload.origin = "snapshot" /\ x.payload.path \notin Covered(es)
    <2>1. \A x \in S : TakenDiff(x, es, sp, Artifacts(es, sp))
      BY TakenDiffs
    <2> HIDE DEF S
    <2> QED
      BY <2>1 DEF TakenDiff, Changed
  <1>4. file \in Covered(es) => \E x \in F : x.payload.path = file
    BY FoundDiffs
  <1>5. sp.given /\ file \in Changed(sp, Covered(es)) => \E x \in S : x.payload.path = file
    BY TakenDiffs
  <1>6. OriginsOf(file) = {e.payload.origin : e \in D}
    BY DEF OriginsOf
  <1> HIDE DEF F, S, D
  <1>7. file \in Covered(es) => OriginsOf(file) = {"log"}
    BY <1>1, <1>2, <1>3, <1>4, <1>6
  <1>8. file \notin Covered(es) => OriginsOf(file) \subseteq {"snapshot"} /\ D \subseteq S
    BY <1>1, <1>2, <1>3, <1>6
  <1>9. sp.given /\ file \in Files /\ sp.before[file] # sp.after[file] => OriginsOf(file) # {}
    <2> SUFFICES ASSUME sp.given, file \in Files, sp.before[file] # sp.after[file], file \notin Covered(es)
                 PROVE  OriginsOf(file) # {}
      BY <1>7
    <2>1. file \in Changed(sp, Covered(es))
      BY DEF Changed
    <2> QED
      BY <2>1, <1>1, <1>5, <1>6
  <1>10. Cardinality(OriginsOf(file)) <= 1
    <2>1. OriginsOf(file) \in {{}, {"log"}, {"snapshot"}}
      BY <1>7, <1>8
    <2>2. Cardinality({}) = 0 /\ Cardinality({"log"}) = 1 /\ Cardinality({"snapshot"}) = 1
      BY FS_EmptySet, FS_Singleton
    <2>3. \A O \in {{}, {"log"}, {"snapshot"}} : Cardinality(O) = 0 \/ Cardinality(O) = 1
      BY <2>2
    <2>4. Cardinality(OriginsOf(file)) = 0 \/ Cardinality(OriginsOf(file)) = 1
      BY <2>1, <2>3
    <2> QED
      BY <2>4
  <1> QED
    BY <1>7, <1>8, <1>9, <1>10 DEF D, S

(* pack diff shows the diffs of a file, unless they are excluded; and that *)
(* of the workspaces is shown alone.                                       *)
LEMMA DiffsRendered ==
    ASSUME NEW E, NEW es \in Seq(E), AllShaped(es), NEW sp, pack.timeline = Timeline(es, sp),
           NEW raw, NEW without, Packed(pack.artifacts, raw, Artifacts(es, sp), without), NEW file
    PROVE  /\ RenderDiff(file).code = 0 <=> (OriginsOf(file) # {} /\ "diffs" \notin without)
           /\ (RenderDiff(file).code = 0 /\ "snapshot" \in OriginsOf(file)) =>
                 RenderDiff(file).shown = <<Redacted(<<sp.before[file], sp.after[file]>>)>>
  <1> DEFINE a == Artifacts(es, sp)
             p == pack.artifacts
             t == pack.timeline
             code == RenderDiff(file).code
             shown == RenderDiff(file).shown
             D == DiffsOf(file)
  <1>1. Listed(t)
    BY TimelineListed
  <1>2. D = {x \in Range(t) : IsDiffOf(x, file)}
    BY DiffsOfFile
  <1>3. D \subseteq Range(FoundIn(es)) \cup Range(TakenOf(es, sp))
    BY DiffsOfFile
  <1>4. \A x \in D : x.refs.artifact \in DOMAIN a /\ x.refs.artifact.dir = "diffs"
    <2>1. \A x \in Range(FoundIn(es)) : x.refs.artifact \in DOMAIN a /\ x.refs.artifact.dir = "diffs"
      <3>1. \A x \in Range(FoundIn(es)) : FoundDiff(x, es, a)
        BY FoundDiffs
      <3> HIDE DEF a
      <3> QED
        BY <3>1 DEF FoundDiff
    <2>2. \A x \in Range(TakenOf(es, sp)) : x.refs.artifact \in DOMAIN a /\ x.refs.artifact.dir = "diffs"
      <3>1. \A x \in Range(TakenOf(es, sp)) : TakenDiff(x, es, sp, a)
        BY TakenDiffs
      <3> HIDE DEF a
      <3> QED
        BY <3>1 DEF TakenDiff
    <2> HIDE DEF a, D
    <2> QED
      BY <1>3, <2>1, <2>2
  <1>5. PICK selected, at : Selects(selected, file, t, at) /\ Shows(selected, KeysOf(selected), p, code, shown)
    BY <1>1, RenderSelects
  <1>6. OriginsOf(file) = {} <=> D = {}
    BY DEF OriginsOf
  <1> DEFINE keys == KeysOf(selected)
             N == Len(selected)
  <1>7. DOMAIN keys = 1..N /\ \A n \in 1..N : keys[n] = selected[n].refs.artifact
    BY <1>5 DEF KeysOf, Selects
  <1>8. N \in Nat /\ DOMAIN selected = 1..N /\ \A n \in 1..N : selected[n] \in D
    BY <1>2, <1>5 DEF Selects, Range
  <1>9. \A k \in DOMAIN p : k.dir \notin without
    BY DEF Packed
  <1>10. \A k \in DOMAIN a : k.dir \notin without => k \in DOMAIN p /\ p[k] = Redacted(a[k])
    BY DEF Packed
  <1> HIDE DEF a, p, t, code, shown, D, keys, N
  <1>11. D # {} => N # 0
    <2> SUFFICES ASSUME NEW x \in D PROVE N # 0
      OBVIOUS
    <2>1. PICK k \in DOMAIN t : t[k] = x /\ IsDiffOf(t[k], file)
      BY <1>2 DEF Range
    <2>2. \E i \in 1..Len(selected) : at[i] = k
      BY <2>1, <1>5 DEF Selects
    <2> QED
      BY <2>2 DEF N
  <1>12. selected = <<>> <=> N = 0
    BY <1>8 DEF N
  <1>13. D = {} => N = 0
    BY <1>8
  <1>14. \A n \in 1..N : keys[n] \in DOMAIN p <=> "diffs" \notin without
    BY <1>4, <1>7, <1>8, <1>9, <1>10
  <1>15. code = 0 <=> (D # {} /\ "diffs" \notin without)
    <2>1. code = 0 <=> ~(selected = <<>> \/ \E n \in 1..N : keys[n] \notin DOMAIN p)
      BY <1>5, <1>7 DEF Shows, keys
    <2>2. (N # 0 /\ \A n \in 1..N : keys[n] \in DOMAIN p) <=> (N # 0 /\ "diffs" \notin without)
      <3>1. N # 0 => 1 \in 1..N
        BY <1>8
      <3> QED
        BY <3>1, <1>14
    <2> QED
      BY <2>1, <2>2, <1>11, <1>12, <1>13
  <1>16. ASSUME code = 0, "snapshot" \in OriginsOf(file)
         PROVE  shown = <<Redacted(<<sp.before[file], sp.after[file]>>)>>
    <2>1. file \notin Covered(es) /\ D \subseteq Range(TakenOf(es, sp))
      <3>1. file \in Covered(es) => OriginsOf(file) = {"log"}
        BY OneOrigin
      <3>2. file \notin Covered(es)
        BY <1>16, <3>1
      <3> QED
        BY <3>2, OneOrigin DEF D
    <2>2. \A i, j \in 1..N : i = j
      <3> SUFFICES ASSUME NEW i \in 1..N, NEW j \in 1..N PROVE i = j
        OBVIOUS
      <3>1. /\ at[i] \in DOMAIN t /\ at[j] \in DOMAIN t
            /\ IsDiffOf(t[at[i]], file) /\ IsDiffOf(t[at[j]], file)
        BY <1>5 DEF Selects, N
      <3>2. at[i] = at[j]
        BY <2>1, <3>1, OnePlace DEF t
      <3> QED
        BY <3>2, <1>5 DEF Selects, N
    <2>3. N = 1
      <3>1. N # 0
        BY <1>11, <1>15, <1>16
      <3>2. 1 \in 1..N /\ N \in 1..N
        BY <3>1, <1>8
      <3> QED
        BY <2>2, <3>2
    <2>4. selected[1] \in D /\ keys[1] = selected[1].refs.artifact
      BY <2>3, <1>7, <1>8
    <2>5. a[keys[1]] = <<sp.before[file], sp.after[file]>>
      <3> DEFINE x == selected[1]
      <3>1. TakenDiff(x, es, sp, a)
        BY <2>1, <2>4, TakenDiffs DEF a
      <3>2. x.payload.path = file
        BY <2>4, <1>2 DEF IsDiffOf
      <3> HIDE DEF x
      <3>3. a[x.refs.artifact] = <<sp.before[x.payload.path], sp.after[x.payload.path]>>
        BY <3>1 DEF TakenDiff
      <3> QED
        BY <2>4, <3>2, <3>3 DEF x
    <2>6. keys[1] \in DOMAIN a /\ keys[1].dir = "diffs"
      BY <2>4, <1>4
    <2>7. p[keys[1]] = Redacted(a[keys[1]])
      BY <2>6, <1>10, <1>15, <1>16
    <2>8. shown = [n \in 1..1 |-> p[keys[n]]]
      BY <2>3, <1>5, <1>7, <1>16 DEF Shows, keys
    <2> DEFINE c == Redacted(<<sp.before[file], sp.after[file]>>)
    <2>9. p[keys[1]] = c
      BY <2>5, <2>7
    <2> HIDE DEF c
    <2>10. shown = <<c>>
      BY <2>8, <2>9
    <2> QED
      BY <2>10 DEF c
  <1> QED
    BY <1>6, <1>15, <1>16 DEF code, shown, D

-------------------------------------------------------------------------------
(* The command.                                                            *)

(* ChangedFilesHaveDiffs, of a pack made from the events.                  *)
LEMMA ChangedFiles ==
    ASSUME NEW E, events \in Seq(E), AllShaped(events),
           place = "done" => Written(events, spaces, ingested, excluded)
    PROVE  ChangedFilesHaveDiffs
  <1> SUFFICES ASSUME place = "done" PROVE ChangedFilesHaveDiffs
    BY DEF ChangedFilesHaveDiffs
  <1> DEFINE a == Artifacts(events, spaces)
  <1>1. pack.timeline = Timeline(events, spaces) /\ Packed(pack.artifacts, ingested, a, excluded)
    BY PackArtifactsAre DEF Written
  <1>2. \A file \in Files :
           LET origins == {e.payload.origin : e \in DiffsOf(file)}
               rendered == RenderDiff(file)
           IN  /\ Cardinality(origins) <= 1
               /\ rendered.code = 0 <=> (origins # {} /\ "diffs" \notin excluded)
               /\ (rendered.code = 0 /\ "snapshot" \in origins) =>
                     rendered.shown = <<Redacted(<<spaces.before[file], spaces.after[file]>>)>>
               /\ (spaces.given /\ spaces.before[file] # spaces.after[file]) => origins # {}
    <2> TAKE file \in Files
    <2> DEFINE origins == {e.payload.origin : e \in DiffsOf(file)}
    <2>1. origins = OriginsOf(file)
      BY DEF OriginsOf
    <2>2. /\ Cardinality(OriginsOf(file)) <= 1
          /\ spaces.given /\ spaces.before[file] # spaces.after[file] => OriginsOf(file) # {}
      BY <1>1, OneOrigin
    <2>3. /\ RenderDiff(file).code = 0 <=> (OriginsOf(file) # {} /\ "diffs" \notin excluded)
          /\ (RenderDiff(file).code = 0 /\ "snapshot" \in OriginsOf(file)) =>
                 RenderDiff(file).shown = <<Redacted(<<spaces.before[file], spaces.after[file]>>)>>
      BY <1>1, DiffsRendered
    <2> HIDE DEF origins, a
    <2> QED
      BY <2>1, <2>2, <2>3 DEF origins
  <1>3. \A file \in Files : \A e \in DiffsOf(file) :
           \/ e.payload.origin = "snapshot"
           \/ \E n \in DOMAIN events : events[n].ts <= e.ts /\ e.id.of = events[n].id.of
    <2> TAKE file \in Files
    <2> TAKE e \in DiffsOf(file)
    <2>1. e \in Range(FoundIn(events)) \cup Range(TakenOf(events, spaces))
      BY <1>1, DiffsOfFile
    <2>2. CASE e \in Range(FoundIn(events))
      <3>1. FoundDiff(e, events, a)
        BY <2>2, FoundDiffs
      <3> HIDE DEF a
      <3> QED
        BY <3>1 DEF FoundDiff
    <2>3. CASE e \in Range(TakenOf(events, spaces))
      <3>1. TakenDiff(e, events, spaces, a)
        BY <2>3, TakenDiffs
      <3> HIDE DEF a
      <3> QED
        BY <3>1 DEF TakenDiff
    <2> QED
      BY <2>1, <2>2, <2>3
  <1> HIDE DEF a
  <1> QED
    BY <1>2, <1>3 DEF ChangedFilesHaveDiffs

-------------------------------------------------------------------------------
(* The inductive invariant of a build: what each stage has is made from    *)
(* what was read, and the log is left alone once its artifacts are.        *)
Reading ==
    /\ format \in {"generic_jsonl", "http_capture_jsonl"}
    /\ log \in Seq(RowsOf(format)) /\ Len(log) <= MaxRows
    /\ place \in {"start", "events", "artifacts", "done", "raised"}

EventsRead == \E E : /\ events \in Seq(E) /\ AllShaped(events)

ArtifactsRead ==
    place \in {"artifacts", "done", "raised"} =>
        \E f, rows : f = format /\ rows = log /\ ingested = ExtractArtifacts(f, rows)

PackWritten ==
    place = "done" =>
        \E made, given, raw, without :
            /\ made = events /\ given = spaces /\ raw = ingested /\ without = excluded
            /\ pack.timeline = Timeline(made, given)
            /\ pack.artifacts = PackArtifacts(made, given, raw, without)

BuildInvariant == Reading /\ EventsRead /\ ArtifactsRead /\ PackWritten

(* What iter_events gives of a log.                                        *)
LEMMA IteratedShaped ==
    ASSUME NEW f \in {"generic_jsonl", "http_capture_jsonl"}, NEW rows \in Seq(RowsOf(f)), Len(rows) <= MaxRows
    PROVE  \E E : IterEvents(f, rows) \in Seq(E) /\ AllShaped(IterEvents(f, rows))
  <1> DEFINE es == IterEvents(f, rows)
             T == EventsOf(f)
  <1>1. es \in Seq(T)
    BY IterEventsType
  <1>2. \A e \in T : Shaped(e)
    BY EventsShaped
  <1> HIDE DEF es, T
  <1>3. \A n \in 1..Len(es) : es[n] \in T
    BY <1>1
  <1>4. AllShaped(es)
    BY <1>2, <1>3 DEF AllShaped
  <1> QED
    BY <1>1, <1>4 DEF es

(* Nothing is read or written yet.                                         *)
LEMMA BuildInvariantInit == BuildInit => BuildInvariant
  <1> SUFFICES ASSUME BuildInit PROVE BuildInvariant
    OBVIOUS
  <1>1. log = <<>> /\ events = <<>> /\ place = "start" /\ format \in {"generic_jsonl", "http_capture_jsonl"}
    BY DEF BuildInit
  <1>2. Reading
    <2>1. <<>> \in Seq(RowsOf(format)) /\ Len(<<>>) = 0 /\ 0 <= MaxRows
      BY RowsAssumption
    <2> QED
      BY <1>1, <2>1 DEF Reading
  <1>3. EventsRead
    <2>1. <<>> \in Seq({}) /\ 1..Len(<<>>) = {}
      OBVIOUS
    <2> QED
      BY <1>1, <2>1 DEF EventsRead, AllShaped
  <1> QED
    BY <1>1, <1>2, <1>3 DEF BuildInvariant, ArtifactsRead, PackWritten

(* Each step of the command keeps it, and so does the program that writes  *)
(* the log.                                                                *)
LEMMA BuildInvariantStep == BuildInvariant /\ [BuildNext]_buildVars => BuildInvariant'
  <1> SUFFICES ASSUME BuildInvariant, [BuildNext]_buildVars PROVE BuildInvariant'
    OBVIOUS
  <1> USE DEF BuildInvariant
  <1>1. CASE AppendRow
    <2>1. PICK row \in RowsOf(format) : log' = Append(log, row)
      BY <1>1 DEF AppendRow
    <2>2. /\ Len(log) < MaxRows /\ place \in {"start", "events"} /\ MaxRows \in Nat
          /\ UNCHANGED <<format, spaces, excluded, place, events, ingested, pack>>
      BY <1>1, RowsAssumption DEF AppendRow
    <2>3. Reading'
      <3> DEFINE T == RowsOf(format)
      <3>1. log \in Seq(T)
        BY DEF Reading
      <3>2. RowsOf(format)' = T
        BY <2>2 DEF RowsOf
      <3> HIDE DEF T
      <3>3. log' \in Seq(T) /\ Len(log') = Len(log) + 1 /\ Len(log) \in Nat
        BY <2>1, <3>1 DEF T
      <3>4. Len(log') <= MaxRows
        BY <2>2, <3>3
      <3> QED
        BY <2>2, <3>2, <3>3, <3>4 DEF Reading
    <2>4. EventsRead'
      BY <2>2 DEF EventsRead, AllShaped
    <2> QED
      BY <2>2, <2>3, <2>4 DEF ArtifactsRead, PackWritten
  <1>2. CASE ReadEvents
    <2>1. /\ place' = "events" /\ events' = IterEvents(format, log)
          /\ UNCHANGED <<format, spaces, excluded, log, ingested, pack>>
      BY <1>2 DEF ReadEvents
    <2>2. Reading'
      <3>1. RowsOf(format)' = RowsOf(format)
        BY <2>1 DEF RowsOf
      <3> QED
        BY <2>1, <3>1 DEF Reading
    <2>3. EventsRead'
      <3>1. \E E : IterEvents(format, log) \in Seq(E) /\ AllShaped(IterEvents(format, log))
        BY IteratedShaped DEF Reading
      <3>2. PICK made : made = IterEvents(format, log)
        OBVIOUS
      <3>3. events' = made /\ \E E : made \in Seq(E) /\ AllShaped(made)
        BY <2>1, <3>1, <3>2
      <3> QED
        BY <3>3 DEF EventsRead, AllShaped
    <2> QED
      BY <2>1, <2>2, <2>3 DEF ArtifactsRead, PackWritten
  <1>3. CASE ReadArtifacts
    <2>1. /\ place' = "artifacts" /\ ingested' = ExtractArtifacts(format, log)
          /\ UNCHANGED <<format, spaces, excluded, log, events, pack>>
      BY <1>3 DEF ReadArtifacts
    <2>2. Reading'
      <3>1. RowsOf(format)' = RowsOf(format)
        BY <2>1 DEF RowsOf
      <3> QED
        BY <2>1, <3>1 DEF Reading
    <2>3. EventsRead'
      BY <2>1 DEF EventsRead, AllShaped
    <2>4. ArtifactsRead'
      <3>1. PICK f, rows : f = format /\ rows = log
        OBVIOUS
      <3>2. f = format' /\ rows = log' /\ ingested' = ExtractArtifacts(f, rows)
        BY <2>1, <3>1
      <3> QED
        BY <3>2 DEF ArtifactsRead
    <2> QED
      BY <2>1, <2>2, <2>3, <2>4 DEF PackWritten
  <1>4. CASE Write
    <2>1. /\ place = "artifacts" /\ place' \in {"done", "raised"}
          /\ UNCHANGED <<format, spaces, excluded, log, events, ingested>>
          /\ place' = "done" => /\ pack'.timeline = Timeline(events, spaces)
                                /\ pack'.artifacts = PackArtifacts(events, spaces, ingested, excluded)
      BY <1>4 DEF Write
    <2>2. Reading'
      <3>1. RowsOf(format)' = RowsOf(format)
        BY <2>1 DEF RowsOf
      <3> QED
        BY <2>1, <3>1 DEF Reading
    <2>3. EventsRead'
      BY <2>1 DEF EventsRead, AllShaped
    <2>4. ArtifactsRead'
      <3>1. PICK f, rows : f = format /\ rows = log /\ ingested = ExtractArtifacts(f, rows)
        BY <2>1 DEF ArtifactsRead
      <3>2. f = format' /\ rows = log' /\ ingested' = ExtractArtifacts(f, rows)
        BY <2>1, <3>1
      <3> QED
        BY <3>2 DEF ArtifactsRead
    <2>5. PackWritten'
      <3> SUFFICES ASSUME place' = "done" PROVE PackWritten'
        BY DEF PackWritten
      <3>1. PICK made, given, raw, without : made = events /\ given = spaces /\ raw = ingested /\ without = excluded
        OBVIOUS
      <3>2. made = events' /\ given = spaces' /\ raw = ingested' /\ without = excluded'
        BY <2>1, <3>1
      <3>3. pack'.timeline = Timeline(made, given) /\ pack'.artifacts = PackArtifacts(made, given, raw, without)
        BY <2>1, <3>1
      <3> QED
        BY <3>2, <3>3 DEF PackWritten
    <2> QED
      BY <2>2, <2>3, <2>4, <2>5
  <1>5. CASE UNCHANGED buildVars
    <2>1. UNCHANGED <<format, spaces, excluded, log, place, events, ingested, pack>>
      BY <1>5 DEF buildVars
    <2>2. RowsOf(format)' = RowsOf(format)
      BY <2>1 DEF RowsOf
    <2>3. Reading'
      BY <2>1, <2>2 DEF Reading
    <2>4. EventsRead'
      BY <2>1 DEF EventsRead, AllShaped
    <2>5. ArtifactsRead'
      <3> SUFFICES ASSUME place' \in {"artifacts", "done", "raised"} PROVE ArtifactsRead'
        BY DEF ArtifactsRead
      <3>1. PICK f, rows : f = format /\ rows = log /\ ingested = ExtractArtifacts(f, rows)
        BY <2>1 DEF ArtifactsRead
      <3>2. f = format' /\ rows = log' /\ ingested' = ExtractArtifacts(f, rows)
        BY <2>1, <3>1
      <3> QED
        BY <3>2 DEF ArtifactsRead
    <2>6. PackWritten'
      <3> SUFFICES ASSUME place' = "done" PROVE PackWritten'
        BY DEF PackWritten
      <3>1. PICK made, given, raw, without :
                /\ made = events /\ given = spaces /\ raw = ingested /\ without = excluded
                /\ pack.timeline = Timeline(made, given)
                /\ pack.artifacts = PackArtifacts(made, given, raw, without)
        BY <2>1 DEF PackWritten
      <3>2. /\ made = events' /\ given = spaces' /\ raw = ingested' /\ without = excluded'
            /\ pack'.timeline = Timeline(made, given) /\ pack'.artifacts = PackArtifacts(made, given, raw, without)
        BY <2>1, <3>1
      <3> QED
        BY <3>2 DEF PackWritten
    <2> QED
      BY <2>3, <2>4, <2>5, <2>6
  <1> QED
    BY <1>1, <1>2, <1>3, <1>4, <1>5 DEF BuildNext

(* BuildInvariant, by induction over the steps.                            *)
LEMMA BuildInvariantHolds == BuildSpec => []BuildInvariant
  <1> QED
    BY BuildInvariantInit, BuildInvariantStep, PTL DEF BuildSpec

(* The invariant gives the four properties.                                *)
LEMMA BuildGives ==
    ASSUME BuildInvariant
    PROVE  PackHoldsTheLog /\ ChangedFilesHaveDiffs /\ TimelineHasOneOrder /\ ProvidersAgree
  <1>1. PICK E : events \in Seq(E) /\ AllShaped(events)
    BY DEF BuildInvariant, EventsRead
  <1>2. log \in Seq(RowsOf(format))
    BY DEF BuildInvariant, Reading
  <1>3. place = "done" => Written(events, spaces, ingested, excluded)
    BY DEF BuildInvariant, PackWritten, Written
  <1>4. place = "done" => ingested = ExtractArtifacts(format, log)
    BY DEF BuildInvariant, ArtifactsRead
  <1>5. PackHoldsTheLog
    <2> DEFINE R == RowsOf(format)
    <2>1. log \in Seq(R)
      BY <1>2
    <2> HIDE DEF R
    <2> QED
      BY <1>1, <1>3, <1>4, <2>1, HoldsTheLog
  <1>6. ChangedFilesHaveDiffs
    BY <1>1, <1>3, ChangedFiles
  <1>7. TimelineHasOneOrder
    BY <1>1, <1>3, OneOrder
  <1>8. ProvidersAgree
    BY <1>2, ProvidersAgreeOnLog
  <1> QED
    BY <1>5, <1>6, <1>7, <1>8

(* Nothing of a log is lost on the way into a pack: one entry for each     *)
(* event, each text in place or in the artifact the entry refers to, the   *)
(* rows in the artifacts of the ingestor (pack build in cli.py,            *)
(* _extract_large_payloads and normalize_events in normalize.py).          *)
THEOREM LogHeld == BuildSpec => []PackHoldsTheLog
  BY BuildInvariantHolds, BuildGives, PTL

(* A file the workspaces show as changed has a diff that `pack diff`       *)
(* renders, of one source only, dated no earlier than the event it was     *)
(* found in (_extract_log_diff and _snapshot_diffs in normalize.py,        *)
(* render_diff in diff_viewer.py).                                         *)
THEOREM ChangesShown == BuildSpec => []ChangedFilesHaveDiffs
  BY BuildInvariantHolds, BuildGives, PTL

(* The pack of a build does not depend on the order of the events in the   *)
(* log, but for the last of them where workspaces are given: the sort of   *)
(* normalize_events and the keys of its artifacts leave no room for it.    *)
THEOREM OneOrderOnly == BuildSpec => []TimelineHasOneOrder
  BY BuildInvariantHolds, BuildGives, PTL

(* The same parts of an answer give the same events, whichever provider    *)
(* sent them (the normalizers of llm/normalizers and to_events).           *)
THEOREM ProvidersSayTheSame == BuildSpec => []ProvidersAgree
  BY BuildInvariantHolds, BuildGives, PTL
===============================================================================
