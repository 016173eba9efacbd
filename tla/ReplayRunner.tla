------------------------------ MODULE ReplayRunner ------------------------------
(***************************************************************************)
(* flightlog/replay_runner.py: does a pack have a stub for every MCP       *)
(* request of its timeline?                                                *)
(*                                                                         *)
(* A pack has a timeline, a sequence of events, and for each server with a *)
(* directory under mcp/stubs its stub files, sorted by name.  A stub file  *)
(* is as StubServer loads it; a key is a method with params.               *)
(***************************************************************************)
EXTENDS StubServer, SequencesExt

CONSTANT ServerOrder    \* the names of servers, sorted

(* Of a request, the server or the method may be missing or no string.     *)
NoServer == ""
NoMethod == ""

Request(server, method, params) ==
    [type |-> "mcp.request", server |-> server, method |-> method, params |-> params]

Other(type) == [type |-> type, server |-> NoServer, method |-> NoMethod, params |-> ""]

KeyOf(event) == [method |-> event.method, params |-> event.params]

(* _load_stubs: the files of a server, merged; the later file replaces the *)
(* entries of an earlier one.                                              *)
Merged(files) ==
    [key \in UNION {DOMAIN file : file \in Range(files)} |->
        LET last == CHOOSE n \in DOMAIN files :
                        /\ key \in DOMAIN files[n]
                        /\ \A m \in DOMAIN files : m > n => key \notin DOMAIN files[m]
        IN  files[last][key]]

LoadStubs(pack) == [s \in DOMAIN pack.stubs |-> Merged(pack.stubs[s])]

DefaultServer(servers) ==
    LET n == SelectInSeq(ServerOrder, LAMBDA s : s \in servers)
    IN  IF n = 0 THEN NoServer ELSE ServerOrder[n]

ServerOf(event, servers) ==
    IF event.server = NoServer THEN DefaultServer(servers) ELSE event.server

(* Mutant of HasStubMapping: any params will do.                           *)
HasStubMethod(mapping, key) == \E k \in DOMAIN mapping : k.method = key.method

HasStubMapping(mapping, key) == key \in DOMAIN mapping

(* The text of a mismatch names neither params nor the event.              *)
Mismatch(kind, server, method) == [kind |-> kind, server |-> server, method |-> method]

MismatchesOf(event, stubs, offline) ==
    LET server == ServerOf(event, DOMAIN stubs)
        Found(kind) == {Mismatch(kind, server, event.method)}
    IN  CASE event.type # "mcp.request" -> {}
          [] event.type = "mcp.request" /\ event.method = NoMethod -> Found("missing method")
          [] OTHER ->
               IF ~offline THEN {}
               ELSE IF server = NoServer THEN Found("No stub server")
               ELSE IF server \notin DOMAIN stubs THEN Found("Missing stub server")
               ELSE IF ~HasStubMapping(stubs[server], KeyOf(event)) THEN Found("No stub mapping")
               ELSE {}

(* run_replay is ok if there are none.                                     *)
RunReplay(pack, offline) ==
    UNION {MismatchesOf(pack.timeline[n], LoadStubs(pack), offline) : n \in DOMAIN pack.timeline}
===============================================================================
