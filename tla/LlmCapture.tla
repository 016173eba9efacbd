------------------------------- MODULE LlmCapture -------------------------------
(***************************************************************************)
(* Both ways to capture a model call: an application whose HTTP client is  *)
(* hooked while its calls go to the provider, some through the proxy.  A   *)
(* call through both is recorded twice, by two processes that know of each *)
(* other only what is on the wire between them.                            *)
(***************************************************************************)
EXTENDS LlmProxy

vars == <<hookVars, proxyVars>>

Init == HookInit /\ ProxyInit

(* A provider without a proxy before it.                                   *)
Provider(c) ==
    /\ c \notin ViaProxy
    /\ wire[c] = "sent"
    /\ \E what \in {"answer", "failed"} : wire' = [wire EXCEPT ![c] = what]

(* What the steps of another process leave alone.                         *)
ofHook == <<installerVars, place, outcome, hookFile, historyVars>>

Next ==
    \/ HookStep /\ UNCHANGED proxyVars
    \/ \E c \in ViaProxy : HandlerStep(c) /\ UNCHANGED ofHook
    \/ \E c \in Calls : Provider(c) /\ UNCHANGED <<ofHook, proxyVars>>

Spec == Init /\ [][Next]_vars

TypeOK == HookTypeOK /\ ProxyTypeOK

-------------------------------------------------------------------------------
(* Properties.                                                             *)

HookRecords(c) == {n \in DOMAIN hookFile : hookFile[n].call = c}
ProxyRecords(c) == {n \in DOMAIN proxyFile : proxyFile[n].call = c}

(* _PATCH_LOCK: the hook never takes itself for the original (it would     *)
(* call itself for ever), and whenever nobody holds the lock, _PATCHED,    *)
(* the methods of both clients and the saved originals agree: removing the *)
(* hook leaves httpx as it was.                                            *)
HookIsWhole ==
    /\ \A k \in Kinds : original[k] # "hook"
    /\ patchLock = Nobody =>
          \A k \in Kinds :
              /\ request[k] = IF patched THEN "hook" ELSE "httpx"
              /\ original[k] = IF patched THEN "httpx" ELSE "none"

(* enable and disable make their assignments in an order in which no call  *)
(* meets the hook without its original, but for a call that was on its way *)
(* into the hook when it was removed: only such a call fails by the hook,  *)
(* before it was sent.                                                     *)
OnlyRemovalBreaksCalls ==
    \A c \in Calls :
        (outcome[c] = "assertion" \/ (outcome[c] = "exception" /\ wire[c] = "idle"))
            => c \in disturbed

(* The try statement of the hook: a call that entered it has exactly one   *)
(* record when it has ended, with the status of its response or else 599,  *)
(* and an error if there was an Exception.  It has none if it failed the   *)
(* assertion or the record could not be written.  Other calls have none.   *)
EndedCallsAreRecordedOnce ==
    \A c \in Calls :
        /\ HookRecords(c) # {} => place[c] = "done" /\ c \in entered
        /\ (place[c] = "done" /\ c \in entered) =>
              Cardinality(HookRecords(c)) = IF outcome[c] \in {"assertion", "write failed"} THEN 0 ELSE 1
        /\ \A n \in HookRecords(c) :
              /\ hookFile[n].status = IF wire[c] \in Responses THEN wire[c] ELSE "599"
              /\ hookFile[n].error = (outcome[c] = "exception")

(* A response that came through the proxy was recorded there before the    *)
(* application had it, and with the same status, so the two captures of a  *)
(* call agree when both have a response.  What the proxy has recorded      *)
(* reaches the application, unless that has given up, or the body was      *)
(* encoded and came with a length.                                         *)
BothRecordsAgree ==
    \A c \in ViaProxy :
        /\ Cardinality(ProxyRecords(c)) <= 1
        /\ wire[c] \in {"answer", "599"} =>
              \E n \in ProxyRecords(c) : proxyFile[n].status = wire[c]
        /\ \A n \in ProxyRecords(c) :
              handler[c] = "done" =>
                  \/ wire[c] \in {proxyFile[n].status, "abandoned"}
                  \/ wire[c] = "failed" /\ got[c] = "encoded"
===============================================================================
