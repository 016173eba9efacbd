--------------------------------- MODULE MCGate ---------------------------------
(* Timelines of up to four events and stubs of up to two servers, in one   *)
(* file or two.                                                            *)
EXTENDS Gate

AlphaX == [method |-> "alpha", params |-> "x"]
AlphaY == [method |-> "alpha", params |-> "y"]
BetaX == [method |-> "beta", params |-> "x"]
MCKeys == {AlphaX, AlphaY, BetaX}
MCFallback == [key \in MCKeys |-> IF key = BetaX THEN "rule" ELSE NoFallback]
MCServerOrder == <<"demo", "other">>

List(answers) == [list |-> TRUE, answers |-> answers]
Single == [list |-> FALSE, answers |-> <<"a">>]

MCTimelines ==
    { <<Request("demo", "alpha", "x")>>,
      <<Request("demo", "alpha", "x"), Request("demo", "alpha", "x"), Request(NoServer, "alpha", "y")>>,
      <<Request("other", "beta", "x"), Other("tool.call"), Request(NoServer, "alpha", "x")>>,
      <<Other("tool.call"), Other(""), Other("tool.call"), Request(NoServer, "beta", "x")>>,
      <<Other("tool.result"), Request("demo", NoMethod, "x")>> }

Both == (AlphaX :> List(<<"a", "b">>)) @@ (AlphaY :> Single)
MCServers ==
    { <<>>,
      "demo" :> <<AlphaX :> List(<<"a">>)>>,
      "demo" :> <<Both>>,
      ("demo" :> <<AlphaX :> List(<<"b">>), BetaX :> List(<<"a">>)>>) @@ ("other" :> <<BetaX :> Single>>),
      ("demo" :> <<Both>>) @@ ("other" :> << <<>> >>) }

MCPacks == [timeline : MCTimelines, stubs : MCServers]
MCStubs == {<<>>} \cup UNION {Files(p, s) : p \in {q \in MCPacks : q.stubs # <<>>}, s \in {"demo"}}
                  \cup UNION {Files(p, "other") : p \in {q \in MCPacks : "other" \in DOMAIN q.stubs}}

Policy(stubs, types, tools, allowed, limits) ==
    [no_new_missing_stubs |-> stubs, no_new_event_types |-> types, no_new_tool_types |-> tools,
     allow_added_event_types |-> allowed, max_added_events_by_type |-> limits]
MCPolicies ==
    { Policy(TRUE, FALSE, FALSE, {}, <<>>),
      Policy(FALSE, TRUE, TRUE, {"tool.call", "unknown"}, <<>>),
      Policy(FALSE, TRUE, FALSE, {"tool.call"}, "mcp.request" :> 0),
      Policy(TRUE, FALSE, TRUE, {}, ("mcp.request" :> 1) @@ ("tool.call" :> (-1))),
      Policy(FALSE, FALSE, FALSE, {}, "mcp.request" :> 1) }
===============================================================================
