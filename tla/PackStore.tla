------------------------------- MODULE PackStore -------------------------------
(***************************************************************************)
(* A pack directory: the files create_pack writes (pack_writer.py), what   *)
(* validate_pack finds in them, and the signature over them (signing.py).  *)
(*                                                                         *)
(* A pack is built in place, file by file, over whatever is there, or (by  *)
(* `watch --out`) built elsewhere and put in the place of the old one.     *)
(* Either may be cut short, and the tools that read and sign a pack may    *)
(* run meanwhile.  A hash is the content it is the hash of.                *)
(***************************************************************************)
EXTENDS Naturals, Sequences

CONSTANTS
    ArtifactKeys,    \* the names of files under artifacts/
    Sorted,          \* sorted(): the members of a set of artifact keys in their order
    Builds,          \* what may be built
    SignKeys,        \* signing keys, each standing for its key pair
    MaxBuilds,       \* bound: builds started
    MaxCalls,        \* bound: calls of validate, sign and verify
    Nothing,         \* no content: the file is not there
    Torn             \* the content of a file opened for writing and not complete

(* Schema versions as schema_version.py tells them apart: its own, another *)
(* of the same major version, one of another, one that is no version.      *)
Versions == {"current", "same major", "other major", "malformed"}

IsSupported(version) == version = "current"

ManifestOf(b) == [timeline |-> b.timeline, artifacts |-> b.artifacts, version |-> b.version]

BuildFiles == {"timeline", "report", "manifest"}
FileNames == BuildFiles \cup {"signature", "pack"} \cup ArtifactKeys

(* s has the members of S, each once.                                      *)
Lists(s, S) ==
    /\ s \in Seq(S)
    /\ \A x \in S : \E n \in DOMAIN s : s[n] = x
    /\ \A m, n \in DOMAIN s : s[m] = s[n] => m = n

ASSUME PackStoreAssumption ==
    /\ MaxBuilds \in Nat /\ MaxCalls \in Nat
    /\ ArtifactKeys \cap (BuildFiles \cup {"signature", "pack"}) = {}
    /\ Nothing \notin FileNames
    /\ \A b \in Builds :
          /\ DOMAIN b = {"timeline", "artifacts", "report", "version"}
          /\ DOMAIN b.artifacts \subseteq ArtifactKeys
          /\ Lists(Sorted[DOMAIN b.artifacts], DOMAIN b.artifacts)
          /\ b.version \in Versions
          /\ {Nothing, Torn} \cap {b.timeline, b.report, ManifestOf(b)} = {}
          /\ \A k \in DOMAIN b.artifacts : b.artifacts[k] \notin {Nothing, Torn}

VARIABLES
    disk,        \* the files of the pack directory: the content by name
    builder,     \* [pc, build, next, file]: the next file to write, the one open
    tool,        \* [pc, op, allowMajor, key, manifest, todo, ok, payload]
    builds, calls,
    started,     \* builds that were started
    finished,    \* manifests of builds that came to their end
    steady       \* no file was written by a builder since the tool was called

vars == <<disk, builder, tool, builds, calls, started, finished, steady>>

(* Mutant of FilesOf: the report is written after the manifest. *)
FilesManifestEarlier(b) == <<"timeline">> \o Sorted[DOMAIN b.artifacts] \o <<"manifest", "report">>

(* The files of a build, in the order _write_pack_dir writes them. *)
FilesOf(b) == <<"timeline">> \o Sorted[DOMAIN b.artifacts] \o <<"report", "manifest">>

NamesOf(b) == BuildFiles \cup DOMAIN b.artifacts

FileContent(b, file) ==
    CASE file = "timeline" -> b.timeline
      [] file = "report"   -> b.report
      [] file = "manifest" -> ManifestOf(b)
      [] OTHER             -> b.artifacts[file]

PackOf(b) == [file \in FileNames |-> IF file \in NamesOf(b) THEN FileContent(b, file) ELSE Nothing]

Exists(file) == disk[file] # Nothing
Gone == \A file \in FileNames : ~Exists(file)
Put(file, content) == disk' = [disk EXCEPT ![file] = content]

IdleBuilder == [pc |-> "idle", build |-> Nothing, next |-> 1, file |-> Nothing]
IdleTool ==
    [pc |-> "idle", op |-> "none", allowMajor |-> FALSE, key |-> Nothing,
     manifest |-> Nothing, todo |-> <<>>, ok |-> FALSE, payload |-> Nothing]

Init ==
    /\ disk = [file \in FileNames |-> Nothing]
    /\ builder = IdleBuilder /\ tool = IdleTool
    /\ builds = 0 /\ calls = 0
    /\ started = {} /\ finished = {} /\ steady = FALSE

-------------------------------------------------------------------------------
(* Builders.                                                               *)

(* A pack to be moved in place is complete elsewhere before.               *)
StartBuild(b, how) ==
    /\ builder.pc = "idle" /\ builds < MaxBuilds
    /\ builds' = builds + 1
    /\ started' = started \cup {b}
    /\ finished' = IF how = "remove" THEN finished \cup {ManifestOf(b)} ELSE finished
    /\ builder' = [pc |-> how, build |-> b, next |-> 1, file |-> Nothing]
    /\ steady' = FALSE
    /\ UNCHANGED <<disk, tool, calls>>

BuilderWrites == steady' = FALSE /\ UNCHANGED <<tool, builds, calls, started>>

Open(file) ==
    /\ builder.file = Nothing
    /\ Put(file, Torn)
    /\ builder' = [builder EXCEPT !.file = file]
    /\ UNCHANGED finished /\ BuilderWrites

OpenFile == builder.pc = "write" /\ Open(FilesOf(builder.build)[builder.next])

FillFile ==
    /\ builder.pc = "write" /\ builder.file # Nothing
    /\ Put(builder.file, FileContent(builder.build, builder.file))
    /\ IF builder.next < Len(FilesOf(builder.build))
         THEN /\ builder' = [builder EXCEPT !.next = @ + 1, !.file = Nothing]
              /\ UNCHANGED finished
         ELSE /\ builder' = IdleBuilder
              /\ finished' = finished \cup {ManifestOf(builder.build)}
    /\ BuilderWrites

(* watch: rmtree, then move.  A directory is there as long as a file is.   *)
RemoveFile ==
    /\ builder.pc = "remove"
    /\ \E file \in FileNames : Exists(file) /\ Put(file, Nothing)
    /\ UNCHANGED <<builder, finished>> /\ BuilderWrites

Removed ==
    /\ builder.pc = "remove" /\ Gone
    /\ builder' = [builder EXCEPT !.pc = "move"]
    /\ UNCHANGED <<disk, tool, builds, calls, started, finished, steady>>

(* shutil.move moves into a directory that is there, rather than onto it.  *)
MovePack ==
    /\ builder.pc = "move"
    /\ IF Gone THEN disk' = PackOf(builder.build) ELSE Put("pack", Torn)
    /\ builder' = IdleBuilder
    /\ UNCHANGED finished /\ BuilderWrites

(* From another file system it copies the files, in any order. *)
StartCopy ==
    /\ builder.pc = "move" /\ Gone
    /\ builder' = [builder EXCEPT !.pc = "copy"]
    /\ UNCHANGED <<disk, tool, builds, calls, started, finished, steady>>

NotCopied == {file \in NamesOf(builder.build) : ~Exists(file)}

CopyOpens == builder.pc = "copy" /\ \E file \in NotCopied : Open(file)

CopyFills ==
    /\ builder.pc = "copy" /\ builder.file # Nothing
    /\ Put(builder.file, FileContent(builder.build, builder.file))
    /\ builder' = IF NotCopied = {} THEN IdleBuilder ELSE [builder EXCEPT !.file = Nothing]
    /\ UNCHANGED finished /\ BuilderWrites

BuilderDies ==
    /\ builder.pc # "idle"
    /\ builder' = IdleBuilder
    /\ UNCHANGED <<disk, tool, builds, calls, started, finished, steady>>

Builder ==
    \/ \E b \in Builds, how \in {"write", "remove"} : StartBuild(b, how)
    \/ OpenFile \/ FillFile
    \/ RemoveFile \/ Removed \/ MovePack
    \/ StartCopy \/ CopyOpens \/ CopyFills
    \/ BuilderDies

-------------------------------------------------------------------------------
(* validate_pack, which sign_pack and verify_pack call first.  A file that *)
(* is gone or torn where the code reads it unguarded raises.               *)

ToolStep == UNCHANGED <<builder, builds, calls, started, finished, steady>>

End(outcome) == tool' = [tool EXCEPT !.pc = outcome]

(* The outcomes of a call are the last values of its pc. *)
Ended == {"valid", "signed", "verified", "failed", "raised"}

(* Mutant of VersionError: every version needs --allow-major. *)
VersionAlwaysErrs(version, allowMajor) == ~IsSupported(version) \/ ~allowMajor

(* A version that is not supported is an error, compatible or not, with    *)
(* --allow-major or without: only the message depends on them.             *)
VersionError(version, allowMajor) == ~IsSupported(version)

Call(op, allowMajor, key) ==
    /\ tool.pc \in Ended \cup {"idle"} /\ calls < MaxCalls
    /\ ~Gone
    /\ calls' = calls + 1
    /\ steady' = (builder.pc = "idle")
    /\ tool' =
         IF ~Exists("manifest") \/ ~Exists("timeline") \/ disk["manifest"] = Torn
           THEN [IdleTool EXCEPT !.op = op, !.pc = "failed"]
           ELSE [IdleTool EXCEPT !.op = op, !.pc = "timeline", !.allowMajor = allowMajor, !.key = key,
                                 !.manifest = disk["manifest"],
                                 !.ok = ~VersionError(disk["manifest"].version, allowMajor)]
    /\ UNCHANGED <<disk, builder, builds, started, finished>>

HashTimeline ==
    /\ tool.pc = "timeline"
    /\ IF ~Exists("timeline")
         THEN End("raised")
         ELSE tool' = [tool EXCEPT !.pc = "artifacts",
                         !.ok = @ /\ disk["timeline"] = tool.manifest.timeline,
                         !.todo = Sorted[DOMAIN tool.manifest.artifacts]]
    /\ UNCHANGED disk /\ ToolStep

(* Mutant of HashArtifact: a file that is there will do. *)
FindArtifact ==
    /\ tool.pc = "artifacts" /\ tool.todo # <<>>
    /\ tool' = [tool EXCEPT !.todo = Tail(@), !.ok = @ /\ Exists(Head(tool.todo))]
    /\ UNCHANGED disk /\ ToolStep

HashArtifact ==
    /\ tool.pc = "artifacts" /\ tool.todo # <<>>
    /\ LET key == Head(tool.todo)
       IN  tool' = [tool EXCEPT !.todo = Tail(@),
                      !.ok = @ /\ Exists(key) /\ disk[key] = tool.manifest.artifacts[key]]
    /\ UNCHANGED disk /\ ToolStep

(* The last check: each line of the timeline is JSON. *)
ParseTimeline ==
    /\ tool.pc = "artifacts" /\ tool.todo = <<>>
    /\ IF ~Exists("timeline")
         THEN End("raised")
         ELSE IF ~tool.ok \/ disk["timeline"] = Torn
           THEN End("failed")
           ELSE End([validate |-> "valid", sign |-> "payload", verify |-> "signature"][tool.op])
    /\ UNCHANGED disk /\ ToolStep

-------------------------------------------------------------------------------
(* sign_pack and verify_pack read the manifest once more (_sign_payload).  *)

Unreadable(file) == ~Exists(file) \/ disk[file] = Torn

ReadPayload ==
    /\ tool.pc = "payload"
    /\ IF Unreadable("manifest")
         THEN End("raised")
         ELSE tool' = [tool EXCEPT !.pc = "open", !.payload = disk["manifest"]]
    /\ UNCHANGED disk /\ ToolStep

OpenSignature ==
    /\ tool.pc = "open"
    /\ Put("signature", Torn)
    /\ End("fill") /\ ToolStep

FillSignature ==
    /\ tool.pc = "fill"
    /\ Put("signature", [payload |-> tool.payload, key |-> tool.key])
    /\ End("signed") /\ ToolStep

ReadSignature ==
    /\ tool.pc = "signature"
    /\ IF ~Exists("signature")
         THEN End("failed")
         ELSE IF disk["signature"] = Torn
           THEN End("raised")
           ELSE tool' = [tool EXCEPT !.pc = "compare", !.payload = disk["signature"]]
    /\ UNCHANGED disk /\ ToolStep

(* Mutant of CompareSignature: the payload is taken from the signature. *)
CompareKeyOnly ==
    /\ tool.pc = "compare"
    /\ End(IF Unreadable("manifest") THEN "raised"
           ELSE IF tool.payload.key = tool.key THEN "verified" ELSE "failed")
    /\ UNCHANGED disk /\ ToolStep

(* The payload on file must be the one recomputed, and the signature must  *)
(* verify with the public key given.                                       *)
CompareSignature ==
    /\ tool.pc = "compare"
    /\ End(IF Unreadable("manifest") THEN "raised"
           ELSE IF tool.payload.payload = disk["manifest"] /\ tool.payload.key = tool.key
             THEN "verified" ELSE "failed")
    /\ UNCHANGED disk /\ ToolStep

Tool ==
    \/ \E allowMajor \in BOOLEAN : Call("validate", allowMajor, Nothing)
    \/ \E op \in {"sign", "verify"}, key \in SignKeys : Call(op, FALSE, key)
    \/ HashTimeline \/ HashArtifact \/ ParseTimeline
    \/ ReadPayload \/ OpenSignature \/ FillSignature
    \/ ReadSignature \/ CompareSignature

Next == Builder \/ Tool

Spec == Init /\ [][Next]_vars

-------------------------------------------------------------------------------
(* Properties.                                                             *)

TypeOK ==
    /\ DOMAIN disk = FileNames
    /\ builder.pc \in {"idle", "write", "remove", "move", "copy"}
    /\ builder.build \in Builds \cup {Nothing} /\ builder.next \in Nat
    /\ builder.file \in FileNames \cup {Nothing}
    /\ tool.pc \in Ended \cup {"idle", "timeline", "artifacts", "payload", "open", "fill",
                               "signature", "compare"}
    /\ builds \in 0..MaxBuilds /\ calls \in 0..MaxCalls
    /\ started \subseteq Builds /\ steady \in BOOLEAN

Passed == {"valid", "signed", "verified"}

(* The manifest is that of build b, and so are the files it has hashes of: *)
(* the timeline and the artifacts.  It has none of the redaction report,   *)
(* which may be another build's, or torn, or missing.                      *)
HoldsHashedFiles(b) ==
    /\ Exists("manifest") /\ disk["manifest"] = ManifestOf(b)
    /\ Exists("timeline") /\ disk["timeline"] = b.timeline
    /\ \A k \in DOMAIN b.artifacts : Exists(k) /\ disk[k] = b.artifacts[k]

(* In a pack that validates, is signed or verifies, with no builder at     *)
(* work meanwhile, the manifest, the timeline and the artifacts it lists   *)
(* are those of one build, whatever builds were cut short over one another *)
(* before (the manifest is written last).  The report, and artifacts the   *)
(* manifest does not list, may be left from other builds.                  *)
HashedFilesAreOneBuild ==
    (tool.pc \in Passed /\ steady) => \E b \in started : HoldsHashedFiles(b)

(* A pack whose hashed files are those of a build of this release          *)
(* validates, if it is left alone.                                         *)
IntactPackPasses ==
    (tool.pc \in {"failed", "raised"} /\ tool.op = "validate" /\ steady) =>
        \A b \in started : HoldsHashedFiles(b) => b.version # "current"

(* What is signed is the manifest of a build that came to its end, even    *)
(* when a builder is at work between the validation and the signature.     *)
SignaturesCoverFinishedBuilds ==
    (Exists("signature") /\ disk["signature"] # Torn) =>
        disk["signature"].payload \in finished

(* A pack verifies only if its signature, made with the key in question,   *)
(* covers the very timeline and artifacts that are there: the signature of *)
(* an earlier build that was left behind does not pass for the new one.    *)
(* (It covers what the manifest has hashes of, so not the report.)         *)
VerifiedFilesAreSigned ==
    (tool.pc = "verified" /\ steady) =>
        /\ tool.payload.key = tool.key
        /\ disk["timeline"] = tool.payload.payload.timeline
        /\ \A k \in DOMAIN tool.payload.payload.artifacts :
              disk[k] = tool.payload.payload.artifacts[k]

===============================================================================
