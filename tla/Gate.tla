---------------------------------- MODULE Gate ----------------------------------
(***************************************************************************)
(* A pack in continuous integration: `flightlog assert` (pack_compare.py,  *)
(* assert_gate.py) compares each candidate with the baseline, a candidate  *)
(* that passes is the next baseline, and the stubs of the last one are     *)
(* served to an agent that makes the calls of its timeline again.          *)
(***************************************************************************)
EXTENDS ReplayRunner, Integers

CONSTANTS
    Packs, Policies,    \* the packs and the policies there may be
    ToolTypes,          \* the event types that start with "tool."
    MaxAccepted         \* bound: candidates accepted

(* Directories of servers have names, their files are stubs; thresholds    *)
(* are integers.                                                           *)
ASSUME GateAssumption ==
    /\ MaxAccepted \in Nat
    /\ \A pack \in Packs :
          /\ pack.timeline \in Seq(Range(pack.timeline))
          /\ \A event \in Range(pack.timeline) :
                (event.type = "mcp.request" /\ event.method # NoMethod) => KeyOf(event) \in Keys
          /\ NoServer \notin DOMAIN pack.stubs
          /\ \A server \in DOMAIN pack.stubs : pack.stubs[server] \in Seq(Stubs)
    /\ \A p \in Policies : \A type \in DOMAIN p.max_added_events_by_type :
          p.max_added_events_by_type[type] \in Int

VARIABLES
    policy,             \* the policy of the gate
    first, baseline,    \* the first baseline and the present one
    accepted,           \* how many candidates were accepted in between
    serving,            \* the server whose stub is served, or NoServer
    calls               \* the calls made to it: places in the timeline

vars == <<serverVars, policy, first, baseline, accepted, serving, calls>>

-------------------------------------------------------------------------------
(* pack_compare.                                                           *)

TypeOf(event) == IF event.type = "" THEN "unknown" ELSE event.type

(* summarize_pack: counts of event types, and of the mismatches of the     *)
(* replay those of one kind.                                               *)
SummarizePack(pack) ==
    LET types == {TypeOf(pack.timeline[n]) : n \in DOMAIN pack.timeline}
    IN  [event_counts |->
            [t \in types |-> Cardinality({n \in DOMAIN pack.timeline : TypeOf(pack.timeline[n]) = t})],
         missing_stub_mappings |-> {m \in RunReplay(pack, TRUE) : m.kind = "No stub mapping"}]

Count(summary, type) ==
    IF type \in DOMAIN summary.event_counts THEN summary.event_counts[type] ELSE 0

(* Mutant of NewMissing: what counts is whether there are more.            *)
NewMissingByNumber(old, new) ==
    IF Cardinality(new.missing_stub_mappings) > Cardinality(old.missing_stub_mappings)
    THEN new.missing_stub_mappings ELSE {}

NewMissing(old, new) == new.missing_stub_mappings \ old.missing_stub_mappings

AddedTypes(old, new) == DOMAIN new.event_counts \ DOMAIN old.event_counts

-------------------------------------------------------------------------------
(* assert_gate.                                                            *)

(* run_assert_gate: the violations by the rules of the policy.  The list   *)
(* of allowed types holds for the one rule and not for tool types.         *)
Violations(old, new) ==
    LET added == AddedTypes(old, new)
        limits == policy.max_added_events_by_type
    IN  {<<"missing stubs", m>> : m \in IF policy.no_new_missing_stubs THEN NewMissing(old, new) ELSE {}}
        \cup {<<"event type", t>> :
                 t \in IF policy.no_new_event_types THEN added \ policy.allow_added_event_types ELSE {}}
        \cup {<<"tool type", t>> : t \in IF policy.no_new_tool_types THEN added \cap ToolTypes ELSE {}}
        \cup {<<"threshold", t>> : t \in {u \in DOMAIN limits : Count(new, u) - Count(old, u) > limits[u]}}

Passes(candidate) == Violations(SummarizePack(baseline), SummarizePack(candidate)) = {}

-------------------------------------------------------------------------------
(* Steps.                                                                  *)

GateInit ==
    /\ policy \in Policies
    /\ first \in Packs /\ baseline = first
    /\ accepted = 0
    /\ serving = NoServer /\ calls = <<>>
    /\ Load(<<>>, FALSE)

Accept(candidate) ==
    /\ serving = NoServer /\ accepted < MaxAccepted
    /\ Passes(candidate)
    /\ baseline' = candidate
    /\ accepted' = accepted + 1
    /\ UNCHANGED <<serverVars, policy, first, serving, calls>>

(* stub serve: one file of the server.                                     *)
ServeStub ==
    /\ serving = NoServer
    /\ \E server \in DOMAIN baseline.stubs : \E file \in Range(baseline.stubs[server]) :
          serving' = server /\ stub' = file
    /\ strict' \in BOOLEAN
    /\ UNCHANGED <<counters, replies, policy, first, baseline, accepted, calls>>

(* The requests of a pack's timeline to a server, by their places.         *)
RequestsTo(pack, server) ==
    {n \in DOMAIN pack.timeline :
        /\ pack.timeline[n].type = "mcp.request" /\ pack.timeline[n].method # NoMethod
        /\ ServerOf(pack.timeline[n], DOMAIN pack.stubs) = server}

(* The agent makes the next call of the timeline.                          *)
CallAgain ==
    /\ serving # NoServer
    /\ \E n \in RequestsTo(baseline, serving) \ Range(calls) :
          /\ \A m \in RequestsTo(baseline, serving) : m < n => m \in Range(calls)
          /\ Serve(KeyOf(baseline.timeline[n]))
          /\ calls' = Append(calls, n)
    /\ UNCHANGED <<policy, first, baseline, accepted, serving>>

GateNext == (\E candidate \in Packs : Accept(candidate)) \/ ServeStub \/ CallAgain

GateSpec == GateInit /\ [][GateNext]_vars

-------------------------------------------------------------------------------
(* Properties.                                                             *)

(* Types of the gate; those of the stub server are StubServer's.           *)
GateTypeOK ==
    /\ policy \in Policies /\ {first, baseline} \subseteq Packs
    /\ accepted \in 0..MaxAccepted
    /\ serving \in DOMAIN baseline.stubs \cup {NoServer}

Files(pack, server) == Range(pack.stubs[server])

(* What the stub server does with each call of a pack is what run_replay   *)
(* said of the pack.  If it was ok, every call has its answer in a file of *)
(* its server, and gets it when that is the only file, but for calls made  *)
(* more often in strict mode than they were recorded; a call that finds no *)
(* mapping is a mismatch of the replay.  (With more files the replay looks *)
(* in all of them and stub serve in one.)                                  *)
ReplayedCallsAreAnswered ==
    serving # NoServer =>
        LET found == RunReplay(baseline, TRUE)
            KeyAt(n) == KeyOf(baseline.timeline[n])
            SameCalls(n) == {m \in 1..n : KeyAt(calls[m]) = KeyAt(calls[n])}
        IN  /\ found = {} => \A n \in RequestsTo(baseline, serving) :
                   \E file \in Files(baseline, serving) : KeyAt(n) \in DOMAIN file
            /\ Len(baseline.stubs[serving]) = 1 => \A n \in DOMAIN replies :
                   CASE replies[n].outcome = "exhausted" ->
                            strict /\ Cardinality(SameCalls(n)) > Len(stub[KeyAt(calls[n])].answers)
                     [] replies[n].outcome \in {"unknown", "fallback"} ->
                            Mismatch("No stub mapping", serving, baseline.timeline[calls[n]].method) \in found
                     [] OTHER -> TRUE

(* The methods of the requests to a server that no file of it answers.     *)
UnansweredAt(pack, s) ==
    {n \in RequestsTo(pack, s) :
        \A file \in Files(pack, s) : KeyOf(pack.timeline[n]) \notin DOMAIN file}

Unanswered(pack) ==
    UNION {{<<s, pack.timeline[n].method>> : n \in UnansweredAt(pack, s)} : s \in DOMAIN pack.stubs}

(* However often the baseline is replaced by a candidate that passed, the  *)
(* last one holds against the first what the gate checked step by step: no *)
(* method lost its answers (unless its server is gone), no event type came *)
(* in that the policy does not allow, and events grew by no more than the  *)
(* threshold each time.                                                    *)
AcceptedPacksDoNotCreep ==
    LET old == SummarizePack(first)
        new == SummarizePack(baseline)
        limits == policy.max_added_events_by_type
        Types(pack) == {TypeOf(pack.timeline[n]) : n \in DOMAIN pack.timeline}
    IN  /\ policy.no_new_missing_stubs => Unanswered(baseline) \subseteq Unanswered(first)
        /\ policy.no_new_event_types =>
              Types(baseline) \subseteq Types(first) \cup policy.allow_added_event_types
        /\ policy.no_new_tool_types => Types(baseline) \cap ToolTypes \subseteq Types(first)
        /\ \A t \in DOMAIN limits : Count(new, t) - Count(old, t) <= accepted * limits[t]
===============================================================================
