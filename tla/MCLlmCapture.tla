------------------------------ MODULE MCLlmCapture ------------------------------
(* Two threads install and remove the hook; one call is made on the       *)
(* synchronous client and one, through the proxy, on the asynchronous one. *)
EXTENDS LlmCapture

MCKind == [c \in Calls |-> IF c = "chat" THEN "sync" ELSE "async"]
===============================================================================
