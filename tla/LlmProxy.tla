-------------------------------- MODULE LlmProxy --------------------------------
(***************************************************************************)
(* The capturing reverse proxy of llm/proxy.py: the handler proxy_all of   *)
(* each call that is sent to it.  The handlers are tasks of one event loop *)
(* and interleave where they await: at the body of the request and at the  *)
(* answer of the provider.                                                 *)
(***************************************************************************)
EXTENDS SdkHook

CONSTANT ViaProxy    \* the calls whose base URL is the proxy

ASSUME LlmProxyAssumption == ViaProxy \subseteq Calls

VARIABLES
    handler,     \* where the handler of a call is
    got,         \* what the handler has from the provider
    proxyFile    \* the capture file of the proxy

proxyVars == <<handler, got, proxyFile>>

ProxyTypeOK ==
    /\ handler \in [ViaProxy -> {"none", "upstream", "record", "respond", "done"}]
    /\ got \in [ViaProxy -> {"none", "answer", "encoded", "599"}]

ProxyInit ==
    /\ handler = [c \in ViaProxy |-> "none"]
    /\ got = [c \in ViaProxy |-> "none"]
    /\ proxyFile = <<>>

(* What the client of the proxy sees, if it still waits for it.            *)
Deliver(c, what) == wire' = [wire EXCEPT ![c] = IF @ = "sent" THEN what ELSE @]

(* The body has arrived, perhaps from a client that has left since.        *)
ReadBody(c) ==
    /\ handler[c] = "none"
    /\ wire[c] \in {"sent", "abandoned"}
    /\ handler' = [handler EXCEPT ![c] = "upstream"]
    /\ UNCHANGED <<wire, got, proxyFile>>

(* ClientDisconnect: the client left before the body was complete.         *)
BodyCut(c) ==
    /\ handler[c] = "none"
    /\ wire[c] = "abandoned"
    /\ handler' = [handler EXCEPT ![c] = "done"]
    /\ UNCHANGED <<wire, got, proxyFile>>

(* The provider answers, perhaps with an encoded body and its length, or   *)
(* httpx raises an HTTPError (a timeout after 60 s is one): status 599.    *)
Upstream(c) ==
    /\ handler[c] = "upstream"
    /\ \E what \in {"answer", "encoded", "599"} : got' = [got EXCEPT ![c] = what]
    /\ handler' = [handler EXCEPT ![c] = "record"]
    /\ UNCHANGED <<wire, proxyFile>>

(* Any other exception (a URL that is none) becomes status 500.            *)
UpstreamRaises(c) ==
    /\ handler[c] = "upstream"
    /\ handler' = [handler EXCEPT ![c] = "done"]
    /\ Deliver(c, "500")
    /\ UNCHANGED <<got, proxyFile>>

(* An encoded body is recorded as the answer it decodes to.                *)
StatusGot(c) == IF got[c] = "599" THEN "599" ELSE "answer"

(* Mutant of Record: an error of the proxy's own is recorded as an answer. *)
RecordAnswer(c) ==
    /\ handler[c] = "record"
    /\ proxyFile' = Append(proxyFile, [call |-> c, status |-> "answer"])
    /\ handler' = [handler EXCEPT ![c] = "respond"]
    /\ UNCHANGED <<wire, got>>

Record(c) ==
    /\ handler[c] = "record"
    /\ proxyFile' = Append(proxyFile, [call |-> c, status |-> StatusGot(c)])
    /\ handler' = [handler EXCEPT ![c] = "respond"]
    /\ UNCHANGED <<wire, got>>

RecordRaises(c) ==
    /\ handler[c] = "record"
    /\ handler' = [handler EXCEPT ![c] = "done"]
    /\ Deliver(c, "500")
    /\ UNCHANGED <<got, proxyFile>>

(* The body is passed on decoded and without content-encoding, but with    *)
(* the content-length of the encoded body: the server cannot send that.    *)
Respond(c) ==
    /\ handler[c] = "respond"
    /\ handler' = [handler EXCEPT ![c] = "done"]
    /\ Deliver(c, IF got[c] = "encoded" THEN "failed" ELSE got[c])
    /\ UNCHANGED <<got, proxyFile>>

HandlerStep(c) ==
    \/ ReadBody(c) \/ BodyCut(c)
    \/ Upstream(c) \/ UpstreamRaises(c)
    \/ Record(c) \/ RecordRaises(c) \/ Respond(c)
===============================================================================
