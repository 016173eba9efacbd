------------------------------- MODULE JsonRpc -------------------------------
(***************************************************************************)
(* JSON-RPC messages as flightlog/mcp/utils.py sees them.                  *)
(*                                                                         *)
(* A text (one stdio line, or one HTTP body) is the sequence of the JSON   *)
(* values _extract_json_objects finds in it: the value itself, the         *)
(* elements of a batch array, or one value per `data:` line of an SSE      *)
(* body.  A JSON object is the record                                      *)
(*    [method, id, params, answer]                                         *)
(* whose absent members are None; `answer` stands for the members `result` *)
(* and `error`.  Whatever is not a JSON object (a number, a string, a      *)
(* `data:` line that does not parse) is None; a text that is neither JSON  *)
(* nor SSE holds nothing: <<>>.                                            *)
(***************************************************************************)
EXTENDS Naturals, Sequences

CONSTANTS
    None,     \* an absent member, or an item that is no JSON object
    BadIds    \* ids that are neither a string nor an integer, such as 1.5

C2S == "client->server"
S2C == "server->client"
Direction == {C2S, S2C}

Opposite(d) == IF d = C2S THEN S2C ELSE C2S

(* classify_jsonrpc_message: a method makes a request, or a notification   *)
(* when it has no id; without one, a result or an error makes a response.  *)
Classify(object) ==
    IF object.method # None
      THEN IF object.id = None THEN "notification" ELSE "request"
      ELSE IF object.answer # None THEN "response" ELSE "notification"

(* The fields of the McpMessage that later readers of a transcript use.    *)
McpMessage(d, object) ==
    [direction |-> d, kind |-> Classify(object), method |-> object.method,
     id |-> object.id, params |-> object.params, answer |-> object.answer]

(* McpMessage declares request_id as str | int | None: building a message  *)
(* with any other id raises, and the whole text yields nothing.            *)
ParseRaises(text) ==
    \E k \in DOMAIN text : text[k] # None /\ text[k].id \in BadIds

(* parse_jsonrpc_payload: one message per JSON object, in text order.      *)
Parse(d, text) ==
    LET objects == SelectSeq(text, LAMBDA x : x # None)
    IN  [k \in DOMAIN objects |-> McpMessage(d, objects[k])]
===============================================================================
