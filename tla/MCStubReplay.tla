----------------------------- MODULE MCStubReplay -----------------------------
(***************************************************************************)
(* A client that calls a tool and pings, a server that may ask the client  *)
(* once, for something of its own or by a ping, with an id the client uses *)
(* too or one it does not use.                                             *)
(***************************************************************************)
EXTENDS StubReplay

ToolKey == [method |-> "tools/call", params |-> "x"]
PingKey == [method |-> "ping", params |-> NoParams]
SamplingKey == [method |-> "sampling/createMessage", params |-> NoParams]

MCClientCalls == {ToolKey, PingKey}
MCOneCall     == {ToolKey}
MCServerCalls == {SamplingKey, PingKey}
MCKeys == MCClientCalls \cup MCServerCalls
MCServerIds == {1, 9}

MCAnswers == Direction \X (1..9)
MCFallback == [key \in MCKeys |-> NoFallback]
NoIds == {}
NoStubs == {}
===============================================================================
