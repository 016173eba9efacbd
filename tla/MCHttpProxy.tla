------------------------------ MODULE MCHttpProxy ------------------------------
(* A plain exchange, one that is streamed as a notification and a response *)
(* (these two have long answers), a chunked one, and one whose id is a     *)
(* fraction.                                                               *)
EXTENDS HttpProxy

Request(id, p) == [method |-> "tools/call", id |-> <<"int", id>>, params |-> p, answer |-> None]
Response(id, a) == [method |-> None, id |-> <<"int", id>>, params |-> None, answer |-> a]
Progress == [method |-> "progress", id |-> None, params |-> "p", answer |-> None]

Exchange(kind, request, answer) == [kind |-> kind, request |-> request, answer |-> answer]

Plain   == Exchange("plain", <<Request("1", "x")>>, <<Response("1", "one")>>)
Stream  == Exchange("sse", <<Request("2", "x")>>, <<Progress, Response("2", "two")>>)
Chunked == Exchange("chunked", <<Request("3", "y")>>, <<Response("3", "three")>>)
OddId   == Exchange("plain", <<Request("odd", "x")>>, <<Response("odd", "four")>>)

OddIds == {<<"int", "odd">>}
MCLong == {Response("1", "one"), Response("2", "two")}

MCExchanges == {Plain, Stream, Chunked, OddId}
MCPlainAndStream == {Plain, Stream}
===============================================================================
