----------------------------- MODULE MCStdioWrap -----------------------------
(***************************************************************************)
(* Small instances of StdioWrap: a batch of a request and a notification, *)
(* and a request with an odd id, from the client; the answer, a line that  *)
(* is no JSON-RPC, and a request with an odd id, from the server.          *)
(***************************************************************************)
EXTENDS StdioWrap

Request(i) == [method |-> "tools/call", id |-> i, params |-> "p", answer |-> None]
Response(i) == [method |-> None, id |-> i, params |-> None, answer |-> "ok"]
Notification == [method |-> "log", id |-> None, params |-> "p", answer |-> None]

(* A batch; a request whose id is a fraction (McpMessage takes no such id),*)
(* from either side; an answer; a line of noise.                           *)
Batch       == <<Request("1"), Notification>>
OddRequest  == <<Request("1.5")>>
OddServerRequest == <<Request("2.5")>>
Answer      == <<Response("1")>>
Noise       == <<None>>

OddIds == {"1.5", "2.5"}

ClientLines == {Batch, OddRequest}
ServerLines == {Answer, Noise, OddServerRequest}
===============================================================================
