# FlightLog in TLA+

FlightLog records what LLM agents and MCP (Model Context Protocol) servers do, turns the
recordings into packs that can be validated, signed and compared, and replays them. This
directory is a verification development of its core: TLA+ modules translated from the
Python source (paths below are relative to `src/flightlog/`), TLC models, and theorems
that TLAPS checks. `PROJECT.json` lists the runs, the mutants that show what each property
guards against, the source lines of every definition, the hazards and the theorems.

## 1. The system

| Part | State it keeps | Operations | Talks to |
|---|---|---|---|
| stdio wrapper, `mcp/wrap_stdio.py`, `mcp/storage.py` | child process, three threads, `write_lock`, transcript file | forward a line, capture its messages, wait and join | client and wrapped server through pipes |
| JSON-RPC parsing, `mcp/utils.py`, `mcp/models.py` | none | classify, parse a text into messages | wrapper, HTTP proxy |
| MCP HTTP proxy, `mcp/proxy_http.py`, `mcp/wrap_http.py` | one handler thread an exchange, one transcript, no lock | capture request, ask upstream, pass on whole or streamed, capture answer | clients, upstream server |
| stub generation, `mcp/stubgen.py` | pending requests by id text, answers by key | one pass over a transcript | reads what wrapper and proxy wrote |
| stub server, `mcp/stub_server.py` | loaded stub, a counter a key | answer a call | client that replays |
| replay runner, `replay_runner.py` | none | merge the stubs of a pack, look up each request of its timeline | packs, what the stub server would answer |
| ingest, `ingest/*`, `llm/turn_builders/*` | none between calls; active turns and pending results in a pass | detect, iter_events, extract_artifacts | session logs |
| watch, `watch.py` | `seen_events`, `emitted_events`, the pack at `--out` | poll, emit, write a snapshot | log writer, ingest, pack writer |
| pack writer and validator, `pack_writer.py`, `pack_io.py` | files of a pack | build, validate | every reader of packs |
| signing, `signing.py` | `signature.json` | sign, verify | validator |
| normalization and redaction, `normalize.py`, `redaction.py` | none | move long texts to artifacts, diffs of log and workspaces, order; redact | ingest, pack writer |
| LLM conversion, `llm/normalizers/*`, `llm/to_events.py`, `ingest/http_capture_jsonl.py` | none | exchange to turn, turn to events | capture files, ingest |
| `pack build`, `cli.py` | none | read a log twice, normalize, redact, write | ingest to pack writer |
| comparison and gate, `pack_compare.py`, `assert_gate.py`; `diff_viewer.py` | none between calls; the baseline a user keeps | summarize, compare, judge by a policy; show diffs | packs, replay runner |
| SDK hook, `llm/sdk_capture/hook.py` | patched methods of httpx, saved originals, two locks, capture file | install, remove, request | the application's threads and tasks, providers |
| LLM proxy, `llm/proxy.py` | one task a call, capture file | forward and record | applications, providers |
| audit export, OpenTelemetry export, MCP discovery, SDK hook installation | none | reports, configuration | |

### What is hard about it

* **Threads on one file.** The wrapper's threads append under a lock, the proxy's handlers
  without one; an append is one or more writes. Lines of two directions are captured after
  they were forwarded, so the order of capture is not the order of the wire.
* **Ends.** A thread blocked in `readline` when the server is gone; joins that time out; a
  thread that an exception ends, and a server that then blocks on a pipe nobody reads; a client
  that hangs up or stalls while an answer is streamed; a server that stalls or breaks off.
* **Identity.** Requests and responses are paired by the text of an id. Ids are chosen by two
  peers (stdio) or many clients (HTTP).
* **Files that change while they are read.** The watcher re-reads a log that another program
  writes, rotates or leaves half written; packs are built over older packs, replaced,
  validated and signed at the same time; a build can be cut short anywhere.
* **Patching under way.** The hook is installed and removed while calls are on their way into
  it, wait for an answer, time out or are cancelled; and a call through hook and proxy is
  recorded twice, by two processes.
* **Steps that undo each other's work.** Long texts leave a payload before diffs are looked for
  in it; diffs of a log keep those of the workspaces out; redaction comes last. References must
  still lead to what they stood for.
* **Counts kept across readings.** `seen_events` counts events of an earlier reading of the
  log, while the events of an open turn may still move; stub counters meet list ends.

### What makes each part correct

* wrapper: nothing is captured that was not passed on, all that was passed on is captured (up
  to a line that ends the thread), each direction in order, whole lines, whole batches; run_wrap
  returns.
* HTTP proxy: a request stands before its answers; what is captured was sent to the client; what
  arrived whole is captured although the upstream server falls silent; the transcript has whole
  lines; no silent upstream server holds a handler.
* stub generation and serving: the pairing is the one an independent definition gives; calls
  are answered with the answers recorded for them, in order; a sequential session replays.
* ingest: each row in one turn, turns of a session one after another, events in log order
  and final once no turn is open.
* watch: every event once and in order, `--max-events` exactly, a pack that keeps up.
* hook and LLM proxy: httpx is whole whenever nobody holds the lock, the hook harms no call but
  those it is removed under (and those whose record cannot be written), each call is recorded once and as what it was, both captures agree.
* conversion and normalization: no text, call or change is lost; providers that say the same
  yield the same; the timeline has one order.
* replay and gate: what the replay accepts is answered by the stubs; a chain of accepted packs
  keeps what each single comparison promises.
* packs and signatures: of a pack that validates the manifest and the files it has hashes of are
  one build's, such a pack left alone validates, what verifies was signed and is what is there.

## 2. Modules

* **JsonRpc**: `parse_jsonrpc_payload` and the classification. A text is the sequence of the
  JSON values found in it; ids that `McpMessage` refuses are `BadIds`.
* **StdioWrap**: run_wrap. `read`, `fwd` and `recv` count the lines of a direction that the
  thread has read and written and the destination has consumed. `pc[d]` is the place in the
  loop (`readline`, write and flush, capture, the two parts of an append). `Readline`,
  `WriteLine`, `AcquireLock`, `AppendBody`, `AppendNewline` and the exits `ReadEof`,
  `WriteRaises`, `CaptureRaises` are the steps of `forward_stdin` and `forward_stdout`;
  `WaitReturns`, `JoinReturns`, `JoinTimesOut` those of the main thread. **Tap** is its
  abstract specification: lines of a direction are passed on one by one, and each that carries
  messages leaves a trace in the log before the next is passed. Its log is a function from moments
  to lines; for the wrapper a moment is the place in the file of the newline of its last message.
  `ImplementsTap` is the refinement. Tap says nothing of the order in which lines of the two
  directions are noted, nor of what a line is made of: that batches stay together and lines are
  whole is stated of the file (`BatchStaysTogether`, `NoTornLine`).
* **HttpProxy**: `_do_proxy_request` for concurrent exchanges. An exchange is its request,
  its kind (plain, chunked, SSE) and its answer, which arrives in halves of messages.
  `AppendShort` writes a message at once, `AppendBody` and `AppendNewline` a message longer
  than the file's buffer. `pc` says what the handler waits for: for the client in "receive"
  (`rfile.read`) and "write" (`wfile.write`), for the upstream server in "upstream", "read" and
  "stream". In each of them the peer may go on, fail or stay away; `Ended` lists the ways a handler
  can end. `arrived` and `passed` are what was read of the answer and what the client took. What
  was captured of an exchange is a set of places in the file (`CapturedOf`), of which `CountUpTo`
  says which message of its text each is.
* **StubGen**: the loop of `generate_stub` as a recursive function (`StubAfter`), and beside it
  what it amounts to, said without a loop (`Answers`, `AnswerPositions`, `IsPairing`).
* **StubServer**: `serve_stub`, one operator for each branch of `_response_for_request`.
  **Recording** is its abstract specification, `ServesTheRecording` the refinement.
* **StubReplay** composes them: a session of two peers, its capture in the orders two threads
  that pass on and then capture can produce, the stub made of it, and the calls served from it.
* **ClaudeTurns**: `build_turns` as a recursive function on the rows of a log (`TurnsAfter`, one
  operator for each branch of its loop), and the `iter_events` of the three ingestors, row by row.
  **TurnLog** lets a log grow row by row and states what holds of the turns and events of each.
* **Watch**: `watch_input` and `_write_pack_snapshot` with the program that writes the log. A
  poll, each of the two readings of a snapshot, the removal of the old pack and the move of
  the new one are steps of their own. `current` is what the ingestor of the log's format would
  yield at that moment, `Events` of ClaudeTurns.
* **PackStore**: the files of a pack directory, `disk`, with `Nothing` where no file is and `Torn`
  for one being written. `OpenFile` and `FillFile` write them in the
  order of `_write_pack_dir`; `RemoveFile`, `MovePack` and the copy steps are `rmtree` and
  `move` of the watcher; `Call` to `ParseTimeline` are `validate_pack`, which `sign_pack` and
  `verify_pack` run first; the rest are theirs. A hash is the content it is the hash of.
* **SdkHook**: `enable_sdk_capture` and `disable_sdk_capture` as the assignments they make under
  `_PATCH_LOCK` (`Enable`, `Disable`, `Assign`), and a call of the application in the steps at
  which it reads what they change: the method, the saved original in the assertion, the saved
  original to call it (`ReadMethod`, `AssertOriginal`, `CallOriginal`), the ways an exchange can
  end (`Return`, `TimeOut`, `Interrupt`), and the finally clause (`WriteRecord`,
  `WriteRecordRaises`). **LlmProxy**: `proxy_all` between its awaits. **LlmCapture** composes
  them: the only thing both processes know of a call is `wire`.
* **LlmTurns**: the three normalizers, one operator each, from an exchange to a turn, and
  `to_events`. What a model said is a sequence of texts and tool calls; `Wire` (external) is the
  form in which a provider sends it.
* **Normalize**: `normalize_events` (`Timeline` and `Artifacts`, the two values it returns) and
  `redact_artifacts` as operators on events and artifacts.
  **PackBuild** composes both with the ingestors into the command: the log grows while it is read
  for events (`ReadEvents`) and once more for artifacts (`ReadArtifacts`); `Write` normalizes,
  redacts and writes, or raises. `RenderDiff` is `pack diff` on the result.
* **ReplayRunner** extends StubServer with `run_replay`; **Gate** extends that with
  `summarize_pack`, what `compare_packs` compares, and `run_assert_gate`. `Accept` makes a
  candidate that passes the next baseline, `ServeStub` and `CallAgain` serve a stub of the last
  one for the calls of its timeline, which `calls` notes by their places in it.

The `MC*` modules only give the constants values. The definitions commented "Mutant of" are
not part of the models: each is a wrong version of the definition after it, with which the
property named in `PROJECT.json` fails.

## 3. Runs

| Run | What varies, and the bounds | What it shows |
|---|---|---|
| `stdio_wrap` | a batch, requests of either peer with a fraction as id, an answer and a line of noise; pipes of one line; two lines of stderr | order, wholeness and completeness of the transcript, both ends, refinement of Tap |
| `stub_server` | three keys with lists of one or two answers, single answers and a fallback; strict or not; five calls | refinement of Recording: answers in recorded order, exhaustion exactly at the end |
| `stub_replay` | two calls of the client, one of the server, with a shared or a different id and, for a ping, a shared key; three served calls | the stub is the pairing; with distinct ids and captured order the session replays |
| `turn_log` | every log of at most five rows of five types and two sessions | each row in one turn, turns apart, events in order, closed turns final |
| `watch` | three formats; limits none, 0 and 3; three rows, one rotation, half lines, kill | emitted once and in order, limit kept, pack ahead, rows not seen emitted in the end |
| `pack_store` | three builds sharing contents, one of another version; three builds started and two calls; builders die anywhere | what passes has the hashed files of one build; signatures cover complete builds |
| `http_proxy` | four exchanges, two at once, two with long messages, one whose id is a fraction | order, completeness, pairing, ends of handlers |
| `llm_capture` | two threads with three calls of enable or disable, with or without force; a call on each kind of client, one through the proxy | the hook is whole and breaks only calls it is removed under; both records say what happened |
| `pack_build` | two rows of nine payloads, two times, own or repeated ids, or of five answers of three families; workspaces none, changed, with a secret; three exclusions; the log grows | nothing lost, diffs from one source, one order, providers agree |
| `gate` | five timelines with five sets of stubs, five policies, two promotions, four calls | no creeping regression; what the replay accepts is answered |
| `stub_race`, `http_long` | one property each | disagreements, section 4 |

Why the bounds are enough. The wrapper's hazards need two threads with one line each that
has two messages, and a full pipe: capacity one makes every writer block. A list of two
answers has a first, a last and one after the end; five calls exhaust two keys. Five rows
hold an open turn, a result before its call, and a request that closes the turn of one
session while another is open. Three rows with up to three events each go past a limit of
three within a poll, and one rotation can leave the new log shorter, equal or longer than
the old. Two builds mixed by an interrupted third, and a signature before and a verification
after it, are what the pack properties are about. Two handlers suffice for any mix of two
appends. Three operations of two threads include an installation that races another, and a
removal and a new installation under one call. Two rows have equal times, equal names of their
own, two long texts in one payload, the same file changed twice, and a diff in both the log and
the workspaces. Two promotions are the fewest of which the second could undo what the first
checked.

`CHECK_DEADLOCK FALSE` is set where the system may stop: a replay that has served its calls,
a log nobody writes to any more, a watcher or a handler that ended, a pack nobody touches or
that was built, an application that made its calls.

**Fairness.** In StdioWrap each forwarding thread, the main thread, the readers of the pipes
and a server that has come to its end of input are weakly fair: threads are scheduled,
`join(timeout=1)` returns, and the peers read what they are sent. The client need not close
and nobody need die. In HttpProxy only the steps a handler takes by itself are fair, and the
timeout of an upstream server that is silent for 30 seconds (`timeout=30` is for each read, not
for the exchange). Nothing of the client is: `rfile.read` and `wfile.write` have no timeout, so a
client that stalls holds its handler for ever, and an upstream server that sends chunk after chunk
may do so too; `HandlersEnd` excepts these two and nothing else. In Watch the watcher is fair (it loops with a sleep), the
log's writer is not. The other modules check safety only.

## 4. Where code and documents disagree

* `stub_race`: a thread captures a line after it has passed it on, so the answer can be
  captured before its request. `generate_stub` drops such a pair, and the replay answers the
  call with an error.
* `http_long`: handlers append without a lock; a message longer than the file's buffer can be
  torn, and `iter_messages` raises for the whole transcript.

More of them are visible in the models, which a run of its own would only repeat. The properties
named make an exception for them or do not go as far.

* Ids are paired by text and not by direction (`stubgen.py:49`). When the server asks the client
  under an id the client uses too, answers are swapped (`AnswersMatchCallsWhenIdsDiffer`). And a
  method both sides call, such as `ping`, has one list of answers for both directions
  (`stubgen.py:45`), so these properties are about the keys only the client uses.
* A claude_code request without a response already yields a response event. When the response is
  appended that event changes and the count does not grow by it, so the watcher never emits the
  response (`watch.py:89`). A log that was rotated and has grown as long as the old one is not
  noticed either (`watch.py:85`, `TakenForSeen`): its first events are never emitted.
  `EventsAreEmitted` is about the rest. Half a line at the end of the log ends the watcher.
* Artifacts of an earlier build stay in a pack built in place (`pack_writer.py:58`); the manifest
  does not list them, no hash covers them, and the pack validates. The manifest has no hash of the
  redaction report either: when a build over another one is cut short after its report
  (`pack_writer.py:61`), the pack has the manifest of the one and the report of the other, and it
  validates, can be signed, and verifies (`HoldsHashedFiles`, `VerifiedFilesAreSigned`).
* An id that is neither a string nor an integer makes `capture` raise and ends the forwarding of
  its direction (`CaptureRaises`). After such a line of the server nothing more of it reaches the
  client or the transcript (`JoinedOutputIsComplete`), and when it fills the pipe that nobody reads
  any more, it blocks, and run_wrap waits for it (`CloseEndsWrapper`, `ServerBlocked`).
* A client that hangs up during a streamed answer loses the capture of all of it, because
  `wfile.write` raises before the guarded `flush` (`ArrivedIsCaptured`). The same happens when the
  connection to the upstream server breaks within a chunked body or one with a length, or is reset:
  "upstream closed; capture whatever arrived" (`proxy_http.py:100`) is true of a ReadTimeout and of
  an SSE body with neither chunks nor length, of nothing else (`StreamBreaks`).
* `--allow-major` lets no pack through, and another minor version is rejected, contrary to
  `docs/schema_versioning.md` (`VersionError`).
* A call that has looked up the hook when it is removed ends with an `AssertionError` and no
  record, or with a `TypeError` that is recorded as a failed call (`OnlyRemovalBreaksCalls`). A
  call that is interrupted is recorded with status 599 and no error, like an answer 599 of the
  proxy (`RecordOf`).
* `serve_stub` answers a notification like a request, with `id` null, and takes an answer from the
  list of its key (`stub_server.py:126`). Recording does not tell the two apart, so
  `ServesTheRecording` does not show it.
* The LLM proxy passes a decoded body on with the `content-length` of the encoded one, which the
  server cannot send: such a call is recorded as answered and fails (`Respond`).
* `canonicalize_message` drops `function_call` before `_extract_tool_calls` looks for it, so the
  older form of a call is lost (`CanonicalMessage`; `openai_compat.py:96` is never reached).
  The place of a call counts the parts before it with Anthropic and Gemini, the calls with OpenAI.
* A change whose patch is above the threshold, or whose before or after is empty, yields no diff
  from the log (`LogDiff`), and a new file that is empty none from the workspaces. The times of
  workspace diffs come from the last event in the order of the log (`TimelineHasOneOrder`).
* Rows that repeat an `event_id` replace each other's artifacts (`IdsDiffer`). A path that leads
  out of the pack raises after the timeline was written (`Write`). Excluded artifacts leave
  references that lead nowhere, and `pack diff` ends with an error. Redaction sees artifacts only,
  never the payloads in the timeline.
* The gate counts mismatches of one kind: a candidate that lost the stubs of a whole server passes
  (`AcceptedPacksDoNotCreep`), and so does a new call without an answer if another call of its
  method had none before (`Mismatch` names no params, so "no method lost its answers" holds by method
  and says nothing of one that lacked an answer before). `no_new_tool_types` does not look at the list of allowed types. Thresholds are for one
  step, so the sum grows with the packs accepted.
* The replay looks in all files of a server, `stub serve` in one; and a replay that is ok may
  exhaust a list when it is served strictly (`ReplayedCallsAreAnswered`).

## 5. Proofs

The theorems hold for all values of the constants under the assumptions named in the modules;
the modules `*_proofs` hold them. In each the invariant of the run is not inductive by itself, and
a stronger `IInv` is: `Init => IInv`, one lemma for each action (`IInv /\ Action => IInv'`), and
`IInv => Property`. TLC checked each `IInv` on the bounds of section 3 before it was proved.
Facts on induction and on `FlattenSeq` that several proofs use stand first in StubGen_proofs.

**StdioWrap_proofs** (`PipeAssumption`: a pipe holds at least one line; `ParseAssumption`:
parsing yields a list, stated because the provers do not see into `SelectSeq`). `NoTornLine`
and the order of the transcript say nothing of where the threads are. `Control` adds the types,
the counters (received <= forwarded <= read <= written) and mutual exclusion (a thread that
appends holds the lock). `FileInv` ties the file to the threads: its last entry when somebody
appends, no entry of a line not yet passed on, all entries of the lines a thread is done with, the
entries of the lock holder at the end. From both follow `TypeCorrect`, `TranscriptReadable`,
`TranscriptOrdered` (which includes `BatchStaysTogether`) and `CaptureTrailsForwarding`.
`JoinedOutput` needs in addition what the stdout thread has done when it ended, at an end of file or
at the line that `capture` refused (`JoinInv`). `WrapperImplementsTap` is the refinement: the steps of the peers and of the main thread
stutter, a write passes a line on, and the step that ends the capture of a line, with its last newline
or without a message, notes it.

**StubGen_proofs** (no assumption but that a transcript is a sequence). `GeneratedPairs`: the loop of
`generate_stub` computes the pairing. Its invariant `Fits` says of the state after n messages that the
pending requests are those that wait for an answer (`Waiting`), each id text once, and that the lists hold
the answers of the pairing so far, each at its rank. The prover has no induction over data;
`NatSetInduction` proves what is needed of it for sets of numbers, from the well-foundedness of `<`, and
`LoopSteps` with it that the recursive function is defined.

**StubReplay_proofs** (`SessionAssumption`: None is no id, no answer and no part of a call).
The invariant `IInv` has four parts: `Told` (the client numbers its requests, a response
names an earlier request and is the only one for it), `Recorded` (at most one line of a direction waits for
its capture, its last one), `InOrder` (lines of one direction are captured in their order) and `Served`
(the stub is the generated one, a counter is the number of recorded replies, and a reply is the answer its
number says). `StubPairs` is `GeneratedPairs` for the transcripts of sessions. `AnswersMatch` follows an
answer back: to its place in the transcript (`AnsweredCall`), to the request it is paired with, and, as no
id text is shared, to the client's call (`SharedText`). `SequentialReplay` counts: with one call at a time
the answers of a key stand in the transcript in the order of its calls (`AnswerAtRank`, a bijection between
the calls up to one and the answers up to its own), and replies are given in that order (`NthReply`).

**LlmCapture_proofs** (`SdkHookAssumption`, `LlmProxyAssumption`: types of the constants). The
hook's globals agree only between two operations. `LockInv` says how far the holder of
`_PATCH_LOCK` is: its list of assignments is the rest of one of two lists, and the globals are as
the assignments made so far leave them. `CallInv` ties a call's place to its exchange and its
outcome, and a call that meets the hook to `disturbed`, the calls that were on their way in when the
hook was removed; `HookFileInv` and `ProxyInv` tie the records of both processes to it. From these
follow `HookWhole`, `RemovalOnly`, `RecordedOnce` and `RecordsAgree`.

**Packs_proofs** has the theorems of PackStore and of PackBuild.

For PackStore (`PackStoreAssumption`: `sorted` lists a set, contents are none of the marks
`Nothing` and `Torn`). `BuilderInv`: a builder in place opens the manifest last, one that moves a
pack finished it elsewhere. So a manifest that can be read is that of a finished build (`DiskInv`),
and what a tool reads of it stays so while no builder writes (`ToolInv`, `SteadyInv`: the files
checked so far are those of the manifest). `IntactInv` is the converse for `IntactPasses`: no check
fails on a pack that holds the hashed files of a build.

For PackBuild (`RowsAssumption`: types of the rows and their payloads, and at most `MaxRows` of them;
`PathsAssumption`: the files of the workspaces are listed once each, normalizing a path twice is
normalizing it once, and no path is a text above the threshold; `HashAssumption`: no two identifiers
have one hash) the invariant is short, `BuildInvariant`: the events are such as rows give, from the
second reading on the ingestor's artifacts are those of the log, which no longer grows, and a finished
pack is `Timeline` and `PackArtifacts` of what was read. That the log grew between the two readings is
why events and artifacts are not claimed to be of the same log. The rest is what those operators do to
data of any size:

* `ProvidersSayTheSame`: by induction over the parts of an answer, the calls and the text among them are
  the same in one list (Anthropic, Gemini) and apart from each other (OpenAI), but for the place of a call
  (`CallsAmongType`, `ToolsAmongType`, `SameTurnsSaySame`).
* `OneOrderOnly`: a sort by a strict order of all entries numbers each by how many come before it
  (`Ranking`, `RanksArePlaces`), so that it permutes them (`InOrderPermutes`), and two lists with the same
  entries are sorted alike (`SameOrder`). It needs that entries of different events, of diffs in the log
  and of diffs between workspaces never share an identifier (`Entries`, `IdsApart`). The hypothesis
  `IdsDiffer` of the property is needed: events that repeat an `event_id` at one time keep the order of
  the log.
* `LogHeld`: no step of `Merged` replaces an artifact of another one (`LaidOut`): keys of `payloads/` tell
  the event and, by the counter, the text (`NumbersDiffer`), those of `diffs/` the file.
* `ChangesShown`: a file with a diff in the log has none from the workspaces, since those are taken of the
  files that are left (`FoundDiffs`, `TakenDiffs`); the latter are one a file (`OnePlace`), and what
  `RenderDiff` selects leads to artifacts that are in the pack (`RenderSelects`).

**SessionLog_proofs** has the theorems of TurnLog and of Watch. Assumptions: the types that
`_map_event_type` yields (`RowTypesAssumption`) and the types of the bounds (`WatchAssumption`).

For TurnLog the invariant is not of the log but of the loop over it: `TurnsFit`, shown after each
number of rows by induction (`TurnsFitAll`, one lemma for each branch). `ShapeFits`: a turn that is
active has no response yet, nothing is pending beside it, and no row that could begin a turn comes after
a pending result. `RowsFit`: each row is in a turn that was built or is `Held` for the next of its key,
and the turns of a key stand one before the other, with what is held behind all of them. The second
part is what makes it inductive: `TurnsDoNotOverlap` speaks of finished turns and says nothing of
the rows a later one will take. `TurnsOfLog` carries it over the turns added at the end, and
`EachRowInOneTurn` and `TurnsFollowOneAnother` are read off. `FlattenPlaces` tells of each event of a
flattened sequence which row and which place in its events it comes from; with `OneTurn`, at most one
turn has its request or its response at a line, so `EventsFollowTheLog` holds although `iter_events`
looks the two up in separate tables. `ReadEventsStay`: with no turn open a new row leaves the turns and
adds at most one that begins with it (`TurnsStay`), hence leaves the events of all rows before it.

For Watch, `MadeOfRows` and `EventsGrow` say what the watcher relies on: an ingestor yields events made of
the log's rows, and those other than claude_code only add events when the log grows. `EmittedSoFar`
states `EmitsTheLog` event by event, counted back from the last one seen, so that a step of the log,
which adds to the end of `current`, leaves it true. `LimitKept` is `WithinLimit` with where the
watcher is; `PackUnderWay` carries what `PackIsAhead` asks of the finished pack to the pack that is
being built: the artifacts are read after the events, and rows are only added.

**HttpProxy_proofs** (`HttpProxyAssumption`, `ParsedAssumption`: parsing yields a list, of no text an
empty one). For each exchange `AnswerSoFar` bounds what arrived and was passed on, `QueueSoFar` and
`CountsSoFar` say that the messages still to append are the end of the text's, the captured ones its
beginning, and `FileSoFar` that each captured message of an answer stands behind all of its request's
and is the one its count says. Appends of other handlers change no count of this one. From this
follow `RequestsComeFirst`, `CapturesWhatWasSent` and `CapturesWhatArrived`, the last for handlers that
came to their end or got no answer; of one that hung up or broke off it says that the request is
captured. `StubOfExchanges` joins them
with `GeneratedPairs`: as a request stands before its answer and an id is used once, the pairing of a
transcript gives each captured answer to the request of its own exchange. Its hypotheses are on what the
peers say (`IdsUsedOnce`, `OwnAnswers`), not on what was captured.

**Gate_proofs** (`StubServerAssumption`: a list in a stub is not empty, as `generate_stub` only makes
such; `GateAssumption`: stubs are stubs, directories have names, thresholds are integers) begins with the
stub server, on which the gate's replay rests. `Typed` is the inductive invariant behind `TypeCorrect`.
`ReplayImplementsRecording` is the refinement of Recording: initial states map to initial states
(`InitMaps`), and each branch of `_response_for_request` maps to a step of Recording (`AnsweredMaps`,
`UsedUpMaps`, `NothingRecordedMaps`, combined in `StepMaps`).

Of the gate, `AcceptedPacksDoNotCreep` is inductive with the types: a comparison that
passes is transitive (`PassedCandidate`, `NoCreep`), with the thresholds added. For
`ReplayForetellsServing` the invariant relates the stub served to the calls made: a key was answered
from its list no more often than it was called, so a list that is used up was called more often than it
is long; and a key that found nothing is not in the stub, hence, when that is the server's only file, not
in what the replay merged.

### Only model-checked

* Liveness, which the prover cannot reach: `ServerEndEndsWrapper`, `CloseEndsWrapper`, `HandlersEnd`,
  `EventsAreEmitted`.

Every other property of the passing runs is stated by a theorem, for which the bounds of section 3 do
not matter.

## 6. Abstractions, and what is not modelled

* JSON texts, timestamps, identifiers computed by hashing and redaction are data no property
  here depends on. A row of a log is its type, its session and an identity.
* A transcript entry of StdioWrap names its message by line and item. The append is modelled in
  two parts for every message (the lock makes the difference invisible); HttpProxy tells long
  messages from short.
* Zip packs are made in a temporary directory and written at the end; only directories are
  modelled. `rmtree` may remove any file next, and an error of it is a builder that dies. A
  signature stored outside of the pack, and the formats of keys, are left out.
* In HttpProxy an exchange is made once. Answers that come on another exchange (a GET stream)
  are left out, and so are plain answers without a length, which end when the upstream server closes.
  A request that breaks off is taken to hold no whole JSON value.
* A record of SdkHook and LlmProxy is appended in one step: line and newline are one write to a
  file opened to append, so two processes do not mix them, and `_WRITE_LOCK` changes nothing that
  can be seen. Streamed answers, which are recorded without a body, differ from others in content
  only. Two hooked processes with one file, the hook within the proxy's process, and a proxy that
  is killed between its steps are left out, and no fairness is stated: nothing there waits for
  another.
* In LlmTurns usage, cost, transport and names of models are left out, as are arguments of OpenAI
  calls that do not parse and the provider's blocks kept in `output_message`.
* In Normalize a text is above the threshold or not, a patch or not, a secret or not; a rule that
  masks one group of a match only (`_apply_group_mask`) is left out. An identifier is what it is
  computed from, and identifiers are compared as the numbers their hashes are; two that differ have
  different hashes. A payload has the fields that are read by name, one level deep. `_read_text`
  reads with universal newlines and replaces what it cannot decode, so workspaces that differ only in
  line endings or in such bytes show no change; contents that differ are taken to differ as read.
* In PackBuild every row of a generic log has a `payload`. Flat rows (`generic_jsonl.py:55`) yield
  events too but no artifact of the ingestor (67-77), so that "the rows are in the pack" is about rows
  with a payload.
* In Gate the promotion of a candidate to baseline is what continuous integration does with the
  result. Fields that are only reported, and packs without a timeline, are left out.
* Not modelled: `audit_export.py` and `otel` (they turn one pack into a report or spans),
  `mcp/discovery.py` (reads configuration), `llm/sdk_capture/install.py` (writes or removes one
  file that calls `enable_sdk_capture`), and of `cli.py` the commands that only parse arguments
  and call a function that is modelled.

## 7. Plan

Done, in this order: JsonRpc, StdioWrap with Tap and proofs; StubGen, StubServer with
Recording and proofs; StubReplay; ClaudeTurns and TurnLog; Watch; PackStore; HttpProxy;
SdkHook, LlmProxy and LlmCapture; LlmTurns, Normalize and PackBuild; ReplayRunner and Gate.

Then the proofs: StdioWrap with the refinement of Tap, the stub server, LlmCapture, PackStore, Watch, HttpProxy, Gate; the loop of `generate_stub`, and StubReplay
as a whole; the loop of `build_turns` with the events of a log, and with them Watch without assumptions
on the ingestors; normalization, the providers' answers and PackBuild.

Next: claude_code's `extract_artifacts`; the artifacts an earlier build leaves in a pack built in place.
