-------------------------------- MODULE SdkHook --------------------------------
(***************************************************************************)
(* The capture hook of llm/sdk_capture/hook.py: enable_sdk_capture and     *)
(* disable_sdk_capture replace and restore the request methods of httpx    *)
(* under _PATCH_LOCK, while the threads and tasks of the application call  *)
(* them.  A call reads the method, and then in the hook the saved original *)
(* twice, without that lock.                                               *)
(***************************************************************************)
EXTENDS Sequences, FiniteSets, Integers

CONSTANTS
    Calls,        \* the application's calls
    Kind,         \* [Calls -> Kinds]: on which client each is made
    Installers,   \* threads that enable or disable the hook
    Nobody,       \* no owner of the lock
    Flightlog,    \* is the environment variable FLIGHTLOG set?
    MaxOps        \* bound: calls of enable_sdk_capture and disable_sdk_capture

Kinds == {"sync", "async"}

ASSUME SdkHookAssumption ==
    /\ Kind \in [Calls -> Kinds]
    /\ Nobody \notin Installers
    /\ Flightlog \in BOOLEAN
    /\ MaxOps \in Nat

VARIABLES
    request,      \* httpx.Client.request and httpx.AsyncClient.request
    original,     \* _ORIGINAL_SYNC_REQUEST and _ORIGINAL_ASYNC_REQUEST
    patched,      \* _PATCHED
    patchLock,    \* the holder of _PATCH_LOCK
    todo,         \* the assignments an installer has yet to make
    ops,          \* operations of installers so far
    place,        \* where a call is
    wire,         \* the exchange of a call, as the application's client sees it
    outcome,      \* how a call ended, or ends if the record can be written
    hookFile,     \* the capture file of the hook
    entered,      \* history: the calls that read the hook as the method
    disturbed     \* history: those that were on their way in when it was removed

installerVars == <<request, original, patched, patchLock, todo, ops>>
historyVars == <<entered, disturbed>>
callVars == <<place, wire, outcome, hookFile, historyVars>>
hookVars == <<installerVars, callVars>>

(* What came back: the provider's answer, an answer of status 599 or 500   *)
(* made by a proxy.  "failed": an exception of httpx, a timeout included.  *)
Responses == {"answer", "599", "500"}
Wires == {"idle", "sent", "abandoned", "failed"} \cup Responses
Outcomes == {"none", "assertion", "interrupted", "exception", "write failed"} \cup Responses

HookTypeOK ==
    /\ request \in [Kinds -> {"httpx", "hook"}]
    /\ original \in [Kinds -> {"none", "httpx", "hook"}]
    /\ patched \in BOOLEAN
    /\ patchLock \in Installers \cup {Nobody}
    /\ ops \in 0..MaxOps
    /\ place \in [Calls -> {"app", "hook", "try", "direct", "hooked", "finally", "done"}]
    /\ wire \in [Calls -> Wires]
    /\ outcome \in [Calls -> Outcomes]
    /\ entered \subseteq Calls /\ disturbed \subseteq entered

HookInit ==
    /\ request = [k \in Kinds |-> "httpx"]
    /\ original = [k \in Kinds |-> "none"]
    /\ patched = FALSE
    /\ patchLock = Nobody
    /\ todo = [i \in Installers |-> <<>>]
    /\ ops = 0
    /\ place = [c \in Calls |-> "app"]
    /\ wire = [c \in Calls |-> "idle"]
    /\ outcome = [c \in Calls |-> "none"]
    /\ hookFile = <<>>
    /\ entered = {} /\ disturbed = {}

-------------------------------------------------------------------------------
(* Installers.                                                             *)

(* Mutant of EnableSteps: the clients are patched before the originals are *)
(* saved.                                                                  *)
EnablePatchFirst ==
    << <<"patch", "sync">>, <<"save", "sync">>, <<"patch", "async">>, <<"save", "async">>, <<"mark">> >>

EnableSteps ==
    << <<"save", "sync">>, <<"save", "async">>, <<"patch", "sync">>, <<"patch", "async">>, <<"mark">> >>

DisableSteps ==
    << <<"restore", "sync">>, <<"restore", "async">>, <<"forget", "sync">>, <<"forget", "async">>, <<"unmark">> >>

(* A call that has nothing to do returns at once, without the lock or with *)
(* it; the lock is taken for the assignments otherwise.                    *)
Begin(i, steps) ==
    /\ todo[i] = <<>> /\ patchLock = Nobody /\ ops < MaxOps
    /\ ops' = ops + 1
    /\ todo' = [todo EXCEPT ![i] = steps]
    /\ patchLock' = IF steps = <<>> THEN Nobody ELSE i
    /\ UNCHANGED <<request, original, patched, callVars>>

(* Mutant of Enable: nobody looks whether the hook is there already.       *)
EnableAgain(i, force) == Begin(i, IF force \/ Flightlog THEN EnableSteps ELSE <<>>)

Enable(i, force) == Begin(i, IF (force \/ Flightlog) /\ ~patched THEN EnableSteps ELSE <<>>)

Disable(i) == Begin(i, IF patched THEN DisableSteps ELSE <<>>)

(* The assignments: a kind of client, or neither, is their second part.    *)
Save(k) == original' = [original EXCEPT ![k] = request[k]] /\ UNCHANGED <<request, patched, disturbed>>

Patch(k) == request' = [request EXCEPT ![k] = "hook"] /\ UNCHANGED <<original, patched, disturbed>>

Restore(k) ==
    /\ request' = IF original[k] # "none" THEN [request EXCEPT ![k] = original[k]] ELSE request
    /\ UNCHANGED <<original, patched, disturbed>>

Forget(k) ==
    /\ original' = [original EXCEPT ![k] = "none"]
    /\ disturbed' = disturbed \cup {c \in Calls : Kind[c] = k /\ place[c] \in {"hook", "try"}}
    /\ UNCHANGED <<request, patched>>

Mark(value) == patched' = value /\ UNCHANGED <<request, original, disturbed>>

Make(step) ==
    \/ step[1] = "save"    /\ Save(step[2])
    \/ step[1] = "patch"   /\ Patch(step[2])
    \/ step[1] = "restore" /\ Restore(step[2])
    \/ step[1] = "forget"  /\ Forget(step[2])
    \/ step[1] = "mark"    /\ Mark(TRUE)
    \/ step[1] = "unmark"  /\ Mark(FALSE)

(* One assignment; the lock is released with the last.                     *)
Assign(i) ==
    /\ todo[i] # <<>>
    /\ Make(Head(todo[i]))
    /\ todo' = [todo EXCEPT ![i] = Tail(@)]
    /\ patchLock' = IF Len(todo[i]) = 1 THEN Nobody ELSE patchLock
    /\ UNCHANGED <<ops, place, wire, outcome, hookFile, entered>>

-------------------------------------------------------------------------------
(* Calls.                                                                  *)

(* The application reads the method of the client.                         *)
ReadMethod(c) ==
    /\ place[c] = "app"
    /\ IF request[Kind[c]] = "hook"
       THEN /\ place' = [place EXCEPT ![c] = "hook"]
            /\ entered' = entered \cup {c}
            /\ UNCHANGED wire
       ELSE /\ place' = [place EXCEPT ![c] = "direct"]
            /\ wire' = [wire EXCEPT ![c] = "sent"]
            /\ UNCHANGED entered
    /\ UNCHANGED <<installerVars, outcome, hookFile, disturbed>>

(* The assertion on the original stands before the try statement.          *)
AssertOriginal(c) ==
    /\ place[c] = "hook"
    /\ IF original[Kind[c]] = "none"
       THEN /\ place' = [place EXCEPT ![c] = "done"]
            /\ outcome' = [outcome EXCEPT ![c] = "assertion"]
       ELSE place' = [place EXCEPT ![c] = "try"] /\ UNCHANGED outcome
    /\ UNCHANGED <<installerVars, wire, hookFile, historyVars>>

(* The original is read again to call it; None cannot be called.           *)
CallOriginal(c) ==
    /\ place[c] = "try"
    /\ IF original[Kind[c]] = "none"
       THEN /\ place' = [place EXCEPT ![c] = "finally"]
            /\ outcome' = [outcome EXCEPT ![c] = "exception"]
            /\ UNCHANGED wire
       ELSE /\ place' = [place EXCEPT ![c] = "hooked"]
            /\ wire' = [wire EXCEPT ![c] = "sent"]
            /\ UNCHANGED outcome
    /\ UNCHANGED <<installerVars, hookFile, historyVars>>

(* The exchange ends, for the hook in its finally clause.                  *)
Ends(c, end, left) ==
    /\ place[c] \in {"direct", "hooked"}
    /\ place' = [place EXCEPT ![c] = IF @ = "hooked" THEN "finally" ELSE "done"]
    /\ outcome' = [outcome EXCEPT ![c] = end]
    /\ wire' = [wire EXCEPT ![c] = left]
    /\ UNCHANGED <<installerVars, hookFile, historyVars>>

(* A response or an exception of httpx comes back.                         *)
Return(c) ==
    \/ wire[c] \in Responses /\ Ends(c, wire[c], wire[c])
    \/ wire[c] = "failed" /\ Ends(c, "exception", wire[c])

(* The client's timeout, perhaps with the answer on its way.               *)
TimeOut(c) == Ends(c, "exception", "abandoned")

(* A task that is cancelled or a keyboard interrupt: no Exception, so only *)
(* the finally clause sees it.                                             *)
Interrupt(c) == Ends(c, "interrupted", "abandoned")

(* status_code is 599 unless a response came; error is set by the except   *)
(* clause only.                                                            *)
RecordOf(c) ==
    [call |-> c,
     status |-> IF outcome[c] \in Responses THEN outcome[c] ELSE "599",
     error |-> outcome[c] = "exception"]

Finally(c, end) ==
    /\ place[c] = "finally"
    /\ place' = [place EXCEPT ![c] = "done"]
    /\ outcome' = [outcome EXCEPT ![c] = end]
    /\ UNCHANGED <<installerVars, wire, historyVars>>

(* Mutant of WriteRecord: a call that was interrupted is not recorded (the *)
(* record is built in the except clause).                                  *)
WriteUnlessInterrupted(c) ==
    /\ Finally(c, outcome[c])
    /\ hookFile' = IF outcome[c] = "interrupted" THEN hookFile ELSE Append(hookFile, RecordOf(c))

(* _write_record: the line and its end are one write to a file opened to   *)
(* append, under _WRITE_LOCK.                                              *)
WriteRecord(c) == Finally(c, outcome[c]) /\ hookFile' = Append(hookFile, RecordOf(c))

(* An exception of the finally clause replaces the response.               *)
WriteRecordRaises(c) == Finally(c, "write failed") /\ UNCHANGED hookFile

CallStep(c) ==
    \/ ReadMethod(c) \/ AssertOriginal(c) \/ CallOriginal(c)
    \/ Return(c) \/ TimeOut(c) \/ Interrupt(c)
    \/ WriteRecord(c) \/ WriteRecordRaises(c)

InstallerStep ==
    \E i \in Installers :
        \/ \E force \in BOOLEAN : Enable(i, force)
        \/ Disable(i)
        \/ Assign(i)

HookStep == InstallerStep \/ \E c \in Calls : CallStep(c)
===============================================================================
