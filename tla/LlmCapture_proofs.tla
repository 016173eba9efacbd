--------------------------- MODULE LlmCapture_proofs ---------------------------
(***************************************************************************)
(* Proofs about LlmCapture, for any calls, on any client and through the   *)
(* proxy or not, any number of installers and of their operations.         *)
(***************************************************************************)
EXTENDS LlmCapture, TLAPS, FiniteSetTheorems

HookRecord == [call : Calls, status : Outcomes, error : BOOLEAN]
ProxyRecord == [call : ViaProxy, status : {"answer", "599"}]

Assignments == {EnableSteps[n] : n \in 1..5} \cup {DisableSteps[n] : n \in 1..5}

Typing ==
    /\ TypeOK
    /\ todo \in [Installers -> Seq(Assignments)]
    /\ hookFile \in Seq(HookRecord)
    /\ proxyFile \in Seq(ProxyRecord)

-------------------------------------------------------------------------------
(* The invariant.                                                          *)

(* An installer that holds _PATCH_LOCK has the last assignments of one of  *)
(* the two lists still to make, and the globals are as the others left     *)
(* them.                                                                   *)
FromStep(steps, n) ==
    CASE n = 1 -> steps
      [] n = 2 -> Tail(steps)
      [] n = 3 -> Tail(Tail(steps))
      [] n = 4 -> Tail(Tail(Tail(steps)))
      [] n = 5 -> Tail(Tail(Tail(Tail(steps))))

Globals(requestSync, requestAsync, originalSync, originalAsync) ==
    /\ request["sync"] = requestSync /\ request["async"] = requestAsync
    /\ original["sync"] = originalSync /\ original["async"] = originalAsync

Enabling(n) ==
    /\ ~patched
    /\ Globals(IF n > 3 THEN "hook" ELSE "httpx", IF n > 4 THEN "hook" ELSE "httpx",
               IF n > 1 THEN "httpx" ELSE "none", IF n > 2 THEN "httpx" ELSE "none")

Disabling(n) ==
    /\ patched
    /\ Globals(IF n > 1 THEN "httpx" ELSE "hook", IF n > 2 THEN "httpx" ELSE "hook",
               IF n > 3 THEN "none" ELSE "httpx", IF n > 4 THEN "none" ELSE "httpx")

AtRest == IF patched THEN Globals("hook", "hook", "httpx", "httpx")
                     ELSE Globals("httpx", "httpx", "none", "none")

LockInv ==
    /\ \A i \in Installers : i # patchLock => todo[i] = <<>>
    /\ patchLock = Nobody => AtRest
    /\ patchLock # Nobody =>
          \E n \in 1..5 :
              \/ todo[patchLock] = FromStep(EnableSteps, n) /\ Enabling(n)
              \/ todo[patchLock] = FromStep(DisableSteps, n) /\ Disabling(n)

(* A call is sent while it is in the method of httpx and at no other time; *)
(* on its way into the hook it finds the original, unless it was disturbed.*)
CallInv(c) ==
    /\ place[c] \in {"app", "hook", "try"} => wire[c] = "idle" /\ outcome[c] = "none"
    /\ place[c] \in {"direct", "hooked"} => wire[c] \notin {"idle", "abandoned"} /\ outcome[c] = "none"
    /\ place[c] \in {"finally", "done"} => wire[c] # "sent" /\ outcome[c] # "none"
    /\ place[c] \in {"app", "direct"} => c \notin entered
    /\ place[c] \in {"hook", "try", "hooked", "finally"} => c \in entered
    /\ place[c] = "finally" => outcome[c] \notin {"assertion", "write failed"}
    /\ place[c] \in {"hook", "try"} => original[Kind[c]] = "httpx" \/ c \in disturbed
    /\ outcome[c] \in Responses => wire[c] = outcome[c]
    /\ outcome[c] \in {"exception", "interrupted"} => wire[c] \notin Responses
    /\ (outcome[c] = "assertion" \/ (outcome[c] = "exception" /\ wire[c] = "idle")) => c \in disturbed

(* The records of the hook: each is right and the only one of its call, and*)
(* every call that should have one has.                                    *)
Unrecorded == {"assertion", "write failed"}

HookRecordRight(n) ==
    LET c == hookFile[n].call
    IN  /\ place[c] = "done" /\ c \in entered /\ outcome[c] \notin Unrecorded
        /\ hookFile[n].status = IF wire[c] \in Responses THEN wire[c] ELSE "599"
        /\ hookFile[n].error = (outcome[c] = "exception")

HookFileInv ==
    /\ \A n \in DOMAIN hookFile : HookRecordRight(n)
    /\ \A m, n \in DOMAIN hookFile : hookFile[m].call = hookFile[n].call => m = n
    /\ \A c \in entered :
          (place[c] = "done" /\ outcome[c] \notin Unrecorded) =>
              \E n \in DOMAIN hookFile : hookFile[n].call = c

(* The proxy: a handler makes its record before it responds, and only a    *)
(* handler that ended has changed what the client sees.                    *)
HandlerInv(c) ==
    /\ wire[c] = "idle" => handler[c] = "none"
    /\ handler[c] # "done" => wire[c] \in {"idle", "sent", "abandoned"}
    /\ handler[c] \in {"none", "upstream"} => got[c] = "none"
    /\ handler[c] \in {"record", "respond"} => got[c] # "none"
    /\ handler[c] = "respond" \/ wire[c] \in {"answer", "599"} =>
          \E n \in DOMAIN proxyFile : proxyFile[n].call = c
    /\ wire[c] \in {"answer", "599"} => StatusGot(c) = wire[c]

ProxyRecordRight(n) ==
    LET c == proxyFile[n].call
    IN  /\ handler[c] \in {"respond", "done"}
        /\ proxyFile[n].status = StatusGot(c)
        /\ handler[c] = "done" =>
              \/ wire[c] \in {proxyFile[n].status, "abandoned"}
              \/ wire[c] = "failed" /\ got[c] = "encoded"

ProxyInv ==
    /\ \A c \in ViaProxy : HandlerInv(c)
    /\ \A n \in DOMAIN proxyFile : ProxyRecordRight(n)
    /\ \A m, n \in DOMAIN proxyFile : proxyFile[m].call = proxyFile[n].call => m = n

IInv ==
    /\ Typing
    /\ LockInv
    /\ \A c \in Calls : CallInv(c)
    /\ HookFileInv
    /\ ProxyInv

-------------------------------------------------------------------------------
(* Facts about the parts.                                                  *)

LEMMA Appended ==
    ASSUME NEW R, NEW s \in Seq(R), NEW r \in R
    PROVE  /\ Append(s, r) \in Seq(R)
           /\ DOMAIN Append(s, r) = DOMAIN s \cup {Len(s) + 1}
           /\ Len(s) + 1 \notin DOMAIN s
           /\ \A n \in DOMAIN s : Append(s, r)[n] = s[n]
           /\ Append(s, r)[Len(s) + 1] = r
OBVIOUS

(* The remainders of the two lists of assignments.                         *)
LEMMA EnableRemainders ==
    /\ LET left == FromStep(EnableSteps, 1)
       IN  left # <<>> /\ Head(left) = <<"save", "sync">> /\ Len(left) = 5 /\ Tail(left) = FromStep(EnableSteps, 2)
    /\ LET left == FromStep(EnableSteps, 2)
       IN  left # <<>> /\ Head(left) = <<"save", "async">> /\ Len(left) = 4 /\ Tail(left) = FromStep(EnableSteps, 3)
    /\ LET left == FromStep(EnableSteps, 3)
       IN  left # <<>> /\ Head(left) = <<"patch", "sync">> /\ Len(left) = 3 /\ Tail(left) = FromStep(EnableSteps, 4)
    /\ LET left == FromStep(EnableSteps, 4)
       IN  left # <<>> /\ Head(left) = <<"patch", "async">> /\ Len(left) = 2 /\ Tail(left) = FromStep(EnableSteps, 5)
    /\ LET left == FromStep(EnableSteps, 5)
       IN  left # <<>> /\ Head(left) = <<"mark">> /\ Len(left) = 1 /\ Tail(left) = <<>>
BY DEF FromStep, EnableSteps

LEMMA DisableRemainders ==
    /\ LET left == FromStep(DisableSteps, 1)
       IN  left # <<>> /\ Head(left) = <<"restore", "sync">> /\ Len(left) = 5 /\ Tail(left) = FromStep(DisableSteps, 2)
    /\ LET left == FromStep(DisableSteps, 2)
       IN  left # <<>> /\ Head(left) = <<"restore", "async">> /\ Len(left) = 4 /\ Tail(left) = FromStep(DisableSteps, 3)
    /\ LET left == FromStep(DisableSteps, 3)
       IN  left # <<>> /\ Head(left) = <<"forget", "sync">> /\ Len(left) = 3 /\ Tail(left) = FromStep(DisableSteps, 4)
    /\ LET left == FromStep(DisableSteps, 4)
       IN  left # <<>> /\ Head(left) = <<"forget", "async">> /\ Len(left) = 2 /\ Tail(left) = FromStep(DisableSteps, 5)
    /\ LET left == FromStep(DisableSteps, 5)
       IN  left # <<>> /\ Head(left) = <<"unmark">> /\ Len(left) = 1 /\ Tail(left) = <<>>
BY DEF FromStep, DisableSteps

(* The kinds of steps.                                                     *)
InstallerMoves == InstallerStep /\ UNCHANGED proxyVars
CallMoves == \E c \in Calls : CallStep(c) /\ UNCHANGED proxyVars
ProxyMoves == \E c \in ViaProxy : HandlerStep(c) /\ UNCHANGED ofHook
ProviderMoves == \E c \in Calls : Provider(c) /\ UNCHANGED <<ofHook, proxyVars>>

LEMMA StepCases ==
    ASSUME [Next]_vars
    PROVE  InstallerMoves \/ CallMoves \/ ProxyMoves \/ ProviderMoves \/ UNCHANGED vars
BY DEF Next, HookStep, InstallerMoves, CallMoves, ProxyMoves, ProviderMoves

LEMMA InstallerFrame ==
    ASSUME InstallerMoves
    PROVE  /\ UNCHANGED <<place, wire, outcome, hookFile, entered, proxyVars>>
           /\ disturbed \subseteq disturbed'
<1>1. ASSUME NEW i \in Installers, NEW force \in BOOLEAN, Enable(i, force) \/ Disable(i)
      PROVE  UNCHANGED callVars
  BY <1>1 DEF Enable, Disable, Begin
<1>2. ASSUME NEW i \in Installers, Assign(i)
      PROVE  UNCHANGED <<place, wire, outcome, hookFile, entered>> /\ disturbed \subseteq disturbed'
  BY <1>2 DEF Assign, Make, Save, Patch, Restore, Forget, Mark
<1> QED
  BY <1>1, <1>2 DEF InstallerMoves, InstallerStep, callVars, historyVars

LEMMA CallFrame ==
    ASSUME NEW c \in Calls, CallStep(c)
    PROVE  UNCHANGED <<installerVars, disturbed>>
BY DEF CallStep, ReadMethod, AssertOriginal, CallOriginal, Return, TimeOut, Interrupt, Ends,
       WriteRecord, WriteRecordRaises, Finally, historyVars

-------------------------------------------------------------------------------
(* _PATCH_LOCK.                                                            *)

(* One assignment of the holder of the lock takes it to its next step, or  *)
(* to rest.                                                                *)
LEMMA EnableAdvances ==
    ASSUME Typing, NEW i \in Installers, Assign(i), patchLock = i, NEW n \in 1..5,
           todo[i] = FromStep(EnableSteps, n), Enabling(n)
    PROVE  IF n < 5
           THEN patchLock' = i /\ todo'[i] = FromStep(EnableSteps, n + 1) /\ Enabling(n + 1)'
           ELSE patchLock' = Nobody /\ todo'[i] = <<>> /\ AtRest'
<1> USE DEF Kinds
<1>1. todo' = [todo EXCEPT ![i] = Tail(todo[i])] /\ todo'[i] = Tail(todo[i])
  BY DEF Assign, Typing
<1>2. original \in [Kinds -> {"none", "httpx", "hook"}] /\ request \in [Kinds -> {"httpx", "hook"}]
  BY DEF Typing, TypeOK, HookTypeOK
<1>3. CASE n = 1
  <2>1. Head(todo[i]) = <<"save", "sync">> /\ Len(todo[i]) = 5 /\ Tail(todo[i]) = FromStep(EnableSteps, 2)
    BY <1>3, EnableRemainders
  <2>2. Save("sync")
    BY <2>1 DEF Assign, Make, Save, Patch, Restore, Forget, Mark
  <2>3. Enabling(2)'
    BY <1>2, <1>3, <2>2 DEF Enabling, Globals, Save
  <2>4. patchLock' = i
    BY <2>1 DEF Assign
  <2> QED
    BY <1>1, <1>3, <2>1, <2>3, <2>4
<1>4. CASE n = 2
  <2>1. Head(todo[i]) = <<"save", "async">> /\ Len(todo[i]) = 4 /\ Tail(todo[i]) = FromStep(EnableSteps, 3)
    BY <1>4, EnableRemainders
  <2>2. Save("async")
    BY <2>1 DEF Assign, Make, Save, Patch, Restore, Forget, Mark
  <2>3. Enabling(3)'
    BY <1>2, <1>4, <2>2 DEF Enabling, Globals, Save
  <2>4. patchLock' = i
    BY <2>1 DEF Assign
  <2> QED
    BY <1>1, <1>4, <2>1, <2>3, <2>4
<1>5. CASE n = 3
  <2>1. Head(todo[i]) = <<"patch", "sync">> /\ Len(todo[i]) = 3 /\ Tail(todo[i]) = FromStep(EnableSteps, 4)
    BY <1>5, EnableRemainders
  <2>2. Patch("sync")
    BY <2>1 DEF Assign, Make, Save, Patch, Restore, Forget, Mark
  <2>3. Enabling(4)'
    BY <1>2, <1>5, <2>2 DEF Enabling, Globals, Patch
  <2>4. patchLock' = i
    BY <2>1 DEF Assign
  <2> QED
    BY <1>1, <1>5, <2>1, <2>3, <2>4
<1>6. CASE n = 4
  <2>1. Head(todo[i]) = <<"patch", "async">> /\ Len(todo[i]) = 2 /\ Tail(todo[i]) = FromStep(EnableSteps, 5)
    BY <1>6, EnableRemainders
  <2>2. Patch("async")
    BY <2>1 DEF Assign, Make, Save, Patch, Restore, Forget, Mark
  <2>3. Enabling(5)'
    BY <1>2, <1>6, <2>2 DEF Enabling, Globals, Patch
  <2>4. patchLock' = i
    BY <2>1 DEF Assign
  <2> QED
    BY <1>1, <1>6, <2>1, <2>3, <2>4
<1>7. CASE n = 5
  <2>1. Head(todo[i]) = <<"mark">> /\ Len(todo[i]) = 1 /\ Tail(todo[i]) = <<>>
    BY <1>7, EnableRemainders
  <2>2. Mark(TRUE)
    BY <2>1 DEF Assign, Make, Save, Patch, Restore, Forget, Mark
  <2>3. AtRest'
    BY <1>2, <1>7, <2>2 DEF Enabling, Globals, AtRest, Mark
  <2>4. patchLock' = Nobody
    BY <2>1 DEF Assign
  <2> QED
    BY <1>1, <1>7, <2>1, <2>3, <2>4
<1> QED
  BY <1>3, <1>4, <1>5, <1>6, <1>7

LEMMA DisableAdvances ==
    ASSUME Typing, NEW i \in Installers, Assign(i), patchLock = i, NEW n \in 1..5,
           todo[i] = FromStep(DisableSteps, n), Disabling(n)
    PROVE  IF n < 5
           THEN patchLock' = i /\ todo'[i] = FromStep(DisableSteps, n + 1) /\ Disabling(n + 1)'
           ELSE patchLock' = Nobody /\ todo'[i] = <<>> /\ AtRest'
<1> USE DEF Kinds
<1>1. todo' = [todo EXCEPT ![i] = Tail(todo[i])] /\ todo'[i] = Tail(todo[i])
  BY DEF Assign, Typing
<1>2. original \in [Kinds -> {"none", "httpx", "hook"}] /\ request \in [Kinds -> {"httpx", "hook"}]
  BY DEF Typing, TypeOK, HookTypeOK
<1>3. CASE n = 1
  <2>1. Head(todo[i]) = <<"restore", "sync">> /\ Len(todo[i]) = 5 /\ Tail(todo[i]) = FromStep(DisableSteps, 2)
    BY <1>3, DisableRemainders
  <2>2. Restore("sync")
    BY <2>1 DEF Assign, Make, Save, Patch, Restore, Forget, Mark
  <2>3. Disabling(2)'
    BY <1>2, <1>3, <2>2 DEF Disabling, Globals, Restore
  <2>4. patchLock' = i
    BY <2>1 DEF Assign
  <2> QED
    BY <1>1, <1>3, <2>1, <2>3, <2>4
<1>4. CASE n = 2
  <2>1. Head(todo[i]) = <<"restore", "async">> /\ Len(todo[i]) = 4 /\ Tail(todo[i]) = FromStep(DisableSteps, 3)
    BY <1>4, DisableRemainders
  <2>2. Restore("async")
    BY <2>1 DEF Assign, Make, Save, Patch, Restore, Forget, Mark
  <2>3. Disabling(3)'
    BY <1>2, <1>4, <2>2 DEF Disabling, Globals, Restore
  <2>4. patchLock' = i
    BY <2>1 DEF Assign
  <2> QED
    BY <1>1, <1>4, <2>1, <2>3, <2>4
<1>5. CASE n = 3
  <2>1. Head(todo[i]) = <<"forget", "sync">> /\ Len(todo[i]) = 3 /\ Tail(todo[i]) = FromStep(DisableSteps, 4)
    BY <1>5, DisableRemainders
  <2>2. Forget("sync")
    BY <2>1 DEF Assign, Make, Save, Patch, Restore, Forget, Mark
  <2>3. Disabling(4)'
    BY <1>2, <1>5, <2>2 DEF Disabling, Globals, Forget
  <2>4. patchLock' = i
    BY <2>1 DEF Assign
  <2> QED
    BY <1>1, <1>5, <2>1, <2>3, <2>4
<1>6. CASE n = 4
  <2>1. Head(todo[i]) = <<"forget", "async">> /\ Len(todo[i]) = 2 /\ Tail(todo[i]) = FromStep(DisableSteps, 5)
    BY <1>6, DisableRemainders
  <2>2. Forget("async")
    BY <2>1 DEF Assign, Make, Save, Patch, Restore, Forget, Mark
  <2>3. Disabling(5)'
    BY <1>2, <1>6, <2>2 DEF Disabling, Globals, Forget
  <2>4. patchLock' = i
    BY <2>1 DEF Assign
  <2> QED
    BY <1>1, <1>6, <2>1, <2>3, <2>4
<1>7. CASE n = 5
  <2>1. Head(todo[i]) = <<"unmark">> /\ Len(todo[i]) = 1 /\ Tail(todo[i]) = <<>>
    BY <1>7, DisableRemainders
  <2>2. Mark(FALSE)
    BY <2>1 DEF Assign, Make, Save, Patch, Restore, Forget, Mark
  <2>3. AtRest'
    BY <1>2, <1>7, <2>2 DEF Disabling, Globals, AtRest, Mark
  <2>4. patchLock' = Nobody
    BY <2>1 DEF Assign
  <2> QED
    BY <1>1, <1>7, <2>1, <2>3, <2>4
<1> QED
  BY <1>3, <1>4, <1>5, <1>6, <1>7

LEMMA AssignKeepsLock ==
    ASSUME Typing, LockInv, NEW i \in Installers, Assign(i)
    PROVE  LockInv'
<1>1. patchLock = i /\ i # Nobody
  BY SdkHookAssumption DEF LockInv, Assign
<1>2. PICK n \in 1..5 :
         \/ todo[i] = FromStep(EnableSteps, n) /\ Enabling(n)
         \/ todo[i] = FromStep(DisableSteps, n) /\ Disabling(n)
  BY <1>1 DEF LockInv
<1>3. \/ /\ n < 5 /\ patchLock' = i
         /\ \/ todo'[i] = FromStep(EnableSteps, n + 1) /\ Enabling(n + 1)'
            \/ todo'[i] = FromStep(DisableSteps, n + 1) /\ Disabling(n + 1)'
      \/ patchLock' = Nobody /\ todo'[i] = <<>> /\ AtRest'
  BY <1>1, <1>2, EnableAdvances, DisableAdvances
<1>4. \A j \in Installers : j # i => todo'[j] = <<>>
  BY <1>1 DEF LockInv, Assign, Typing
<1> QED
  BY <1>1, <1>3, <1>4 DEF LockInv

LEMMA BeginKeepsLock ==
    ASSUME Typing, LockInv, NEW i \in Installers, NEW force \in BOOLEAN,
           Enable(i, force) \/ Disable(i)
    PROVE  LockInv'
<1>1. PICK steps \in {<<>>, EnableSteps, DisableSteps} :
         /\ Begin(i, steps)
         /\ steps = EnableSteps => ~patched
         /\ steps = DisableSteps => patched
  BY DEF Enable, Disable, EnableSteps, DisableSteps
<1>2. /\ \A j \in Installers : todo'[j] = IF j = i THEN steps ELSE <<>>
      /\ UNCHANGED <<request, original, patched>>
      /\ patchLock' = IF steps = <<>> THEN Nobody ELSE i
      /\ AtRest /\ AtRest'
  BY <1>1, SdkHookAssumption DEF Begin, LockInv, Typing, AtRest, Globals
<1>3. CASE steps = <<>>
  BY <1>2, <1>3 DEF LockInv
<1>4. CASE steps # <<>>
  <2>1. steps = EnableSteps => Enabling(1)'
    BY <1>1, <1>2 DEF AtRest, Enabling, Globals
  <2>2. steps = DisableSteps => Disabling(1)'
    BY <1>1, <1>2 DEF AtRest, Disabling, Globals
  <2>3. patchLock' = i /\ i # Nobody /\ 1 \in 1..5
    BY <1>2, <1>4, SdkHookAssumption
  <2>4. FromStep(EnableSteps, 1) = EnableSteps /\ FromStep(DisableSteps, 1) = DisableSteps
    BY DEF FromStep
  <2>5. \/ todo'[i] = FromStep(EnableSteps, 1) /\ Enabling(1)'
        \/ todo'[i] = FromStep(DisableSteps, 1) /\ Disabling(1)'
    BY <1>1, <1>2, <1>4, <2>1, <2>2, <2>4
  <2> QED
    BY <1>2, <2>3, <2>5 DEF LockInv
<1> QED
  BY <1>3, <1>4

LEMMA LockStep ==
    ASSUME IInv, [Next]_vars
    PROVE  LockInv'
<1> USE DEF IInv
<1>1. CASE InstallerMoves
  BY <1>1, AssignKeepsLock, BeginKeepsLock DEF InstallerMoves, InstallerStep
<1>2. CASE UNCHANGED installerVars
  BY <1>2 DEF LockInv, installerVars, AtRest, Enabling, Disabling, Globals
<1>3. CASE CallMoves
  BY <1>2, <1>3, CallFrame DEF CallMoves
<1>4. CASE ProxyMoves \/ ProviderMoves \/ UNCHANGED vars
  BY <1>2, <1>4 DEF ProxyMoves, ProviderMoves, ofHook, vars, hookVars
<1> QED
  BY <1>1, <1>3, <1>4, StepCases

(* Whatever step an installer is at: the original is no hook, and where    *)
(* the hook is installed the original is there.                            *)
OriginalInv ==
    \A k \in Kinds : original[k] # "hook" /\ (request[k] = "hook" => original[k] = "httpx")

LEMMA OriginalFacts == LockInv => OriginalInv
<1> SUFFICES ASSUME LockInv, NEW k \in Kinds
             PROVE  original[k] # "hook" /\ (request[k] = "hook" => original[k] = "httpx")
  BY DEF OriginalInv
<1>1. CASE patchLock = Nobody
  BY <1>1 DEF LockInv, AtRest, Globals, Kinds
<1>2. CASE patchLock # Nobody
  <2>1. PICK n \in 1..5 : Enabling(n) \/ Disabling(n)
    BY <1>2 DEF LockInv
  <2> QED
    BY <2>1 DEF Enabling, Disabling, Globals, Kinds
<1> QED
  BY <1>1, <1>2

-------------------------------------------------------------------------------
(* Calls.                                                                  *)

LEMMA Delivered ==
    ASSUME wire \in [Calls -> Wires], NEW c \in Calls, NEW what \in Responses \cup {"failed"},
           Deliver(c, what)
    PROVE  /\ wire' \in [Calls -> Wires]
           /\ \A d \in Calls : wire'[d] # wire[d] =>
                 wire[d] = "sent" /\ wire'[d] \in Responses \cup {"failed"}
BY DEF Deliver, Wires

(* Only the wire of a call that waits is changed by others.                *)
LEMMA WireFrame ==
    ASSUME Typing, ProxyInv, ProxyMoves \/ ProviderMoves
    PROVE  /\ UNCHANGED ofHook
           /\ wire' \in [Calls -> Wires]
           /\ \A c \in Calls : wire'[c] # wire[c] =>
                 wire[c] = "sent" /\ wire'[c] \in Responses \cup {"failed"}
<1>0. wire \in [Calls -> Wires] /\ ViaProxy \subseteq Calls
  BY LlmProxyAssumption DEF Typing, TypeOK, HookTypeOK
<1>1. CASE ProviderMoves
  BY <1>0, <1>1 DEF ProviderMoves, Provider, Wires, Responses
<1>2. ASSUME NEW c \in ViaProxy, HandlerStep(c), UNCHANGED ofHook
      PROVE  /\ wire' \in [Calls -> Wires]
             /\ \A d \in Calls : wire'[d] # wire[d] =>
                   wire[d] = "sent" /\ wire'[d] \in Responses \cup {"failed"}
  <2>1. CASE ReadBody(c) \/ BodyCut(c) \/ Upstream(c) \/ Record(c)
    BY <1>0, <2>1 DEF ReadBody, BodyCut, Upstream, Record
  <2>2. CASE UpstreamRaises(c) \/ RecordRaises(c)
    BY <1>0, <2>2, Delivered DEF UpstreamRaises, RecordRaises, Responses
  <2>3. CASE Respond(c)
    <3>1. got[c] \in {"none", "answer", "encoded", "599"}
      BY DEF Typing, TypeOK, ProxyTypeOK
    <3>2. HandlerInv(c)
      BY DEF ProxyInv
    <3>3. PICK what \in {"answer", "599", "failed"} : Deliver(c, what)
      BY <2>3, <3>1, <3>2 DEF Respond, HandlerInv
    <3> QED
      BY <1>0, <3>3, Delivered DEF Responses
  <2> QED
    BY <1>2, <2>1, <2>2, <2>3 DEF HandlerStep
<1> QED
  BY <1>1, <1>2 DEF ProxyMoves, ProviderMoves

(* A step of a call changes nothing of another.                            *)
LEMMA OtherCalls ==
    ASSUME Typing, NEW c \in Calls, CallStep(c)
    PROVE  /\ place' \in [Calls -> {"app", "hook", "try", "direct", "hooked", "finally", "done"}]
           /\ wire' \in [Calls -> Wires]
           /\ outcome' \in [Calls -> Outcomes]
           /\ \A d \in Calls \ {c} :
                 /\ place'[d] = place[d] /\ wire'[d] = wire[d] /\ outcome'[d] = outcome[d]
                 /\ d \in entered' <=> d \in entered
           /\ entered \subseteq entered' /\ entered' \subseteq entered \cup {c}
<1> USE DEF Typing, TypeOK, HookTypeOK, Wires, Outcomes, Responses
<1>1. CASE ReadMethod(c)
  BY <1>1 DEF ReadMethod
<1>2. CASE AssertOriginal(c)
  BY <1>2 DEF AssertOriginal, historyVars
<1>3. CASE CallOriginal(c)
  BY <1>3 DEF CallOriginal, historyVars
<1>4. CASE Return(c)
  BY <1>4 DEF Return, Ends, historyVars
<1>5. CASE TimeOut(c) \/ Interrupt(c)
  BY <1>5 DEF TimeOut, Interrupt, Ends, historyVars
<1>6. CASE WriteRecord(c) \/ WriteRecordRaises(c)
  BY <1>6 DEF WriteRecord, WriteRecordRaises, Finally, historyVars
<1> QED
  BY <1>1, <1>2, <1>3, <1>4, <1>5, <1>6 DEF CallStep

LEMMA CallKeepsItsInv ==
    ASSUME Typing, LockInv, NEW c \in Calls, CallInv(c), CallStep(c)
    PROVE  CallInv(c)'
<1> USE DEF Typing, TypeOK, HookTypeOK
<1>0. Kind[c] \in Kinds /\ UNCHANGED <<original, disturbed>>
  BY CallFrame, SdkHookAssumption DEF installerVars
<1>1. CASE ReadMethod(c)
  BY <1>0, <1>1, OriginalFacts DEF OriginalInv, ReadMethod, CallInv, Responses
<1>2. CASE AssertOriginal(c)
  BY <1>0, <1>2 DEF AssertOriginal, CallInv, historyVars, Responses
<1>3. CASE CallOriginal(c)
  BY <1>0, <1>3 DEF CallOriginal, CallInv, historyVars, Responses
<1>4. CASE Return(c)
  BY <1>0, <1>4 DEF Return, Ends, CallInv, historyVars, Responses
<1>5. CASE TimeOut(c) \/ Interrupt(c)
  BY <1>0, <1>5 DEF TimeOut, Interrupt, Ends, CallInv, historyVars, Responses
<1>6. CASE WriteRecord(c) \/ WriteRecordRaises(c)
  BY <1>0, <1>6 DEF WriteRecord, WriteRecordRaises, Finally, CallInv, historyVars, Responses
<1> QED
  BY <1>1, <1>2, <1>3, <1>4, <1>5, <1>6 DEF CallStep

LEMMA CallsStep ==
    ASSUME IInv, [Next]_vars, NEW d \in Calls
    PROVE  CallInv(d)'
<1> USE DEF IInv
<1>0. OriginalInv'
  BY LockStep, OriginalFacts, PTL
<1>1. CASE InstallerMoves
  <2>1. /\ UNCHANGED <<place, wire, outcome, entered>>
        /\ disturbed \subseteq disturbed'
    BY <1>1, InstallerFrame
  <2>2. ASSUME place[d] \in {"hook", "try"}, original[Kind[d]] = "httpx", original'[Kind[d]] # "httpx"
        PROVE  d \in disturbed'
    <3>1. Kind[d] \in Kinds
      BY SdkHookAssumption
    <3>2. PICK i \in Installers : Assign(i)
      BY <1>1, <2>2 DEF InstallerMoves, InstallerStep, Enable, Disable, Begin
    <3>3. original' # original /\ original \in [Kinds -> {"none", "httpx", "hook"}]
      BY <2>2 DEF Typing, TypeOK, HookTypeOK
    <3>4. PICK k : Save(k) \/ Forget(k)
      BY <3>2, <3>3 DEF Assign, Make, Patch, Restore, Mark
    <3>5. CASE Save(k)
      <4>1. original'[Kind[d]] = request[Kind[d]] /\ request[Kind[d]] \in {"httpx", "hook"}
        BY <2>2, <3>1, <3>3, <3>5 DEF Save, Typing, TypeOK, HookTypeOK
      <4>2. original'[Kind[d]] # "hook"
        BY <1>0, <3>1 DEF OriginalInv
      <4> QED
        BY <2>2, <4>1, <4>2
    <3>6. CASE Forget(k)
      <4>1. k = Kind[d]
        BY <2>2, <3>1, <3>3, <3>6 DEF Forget
      <4> QED
        BY <2>2, <3>6, <4>1 DEF Forget
    <3> QED
      BY <3>4, <3>5, <3>6
  <2> QED
    BY <2>1, <2>2 DEF CallInv
<1>2. ASSUME NEW c \in Calls, CallStep(c)
      PROVE  CallInv(d)'
  <2>1. CASE d = c
    BY <1>2, <2>1, CallKeepsItsInv
  <2>2. CASE d # c
    BY <1>2, <2>2, OtherCalls, CallFrame DEF CallInv, installerVars
  <2> QED
    BY <2>1, <2>2
<1>3. CASE ProxyMoves \/ ProviderMoves
  <2>1. UNCHANGED <<place, outcome, entered, disturbed, original>>
    BY <1>3, WireFrame DEF ofHook, installerVars, historyVars
  <2>2. wire'[d] = wire[d] \/ (wire[d] = "sent" /\ wire'[d] \in Responses \cup {"failed"})
    BY <1>3, WireFrame
  <2>3. CallInv(d)
    OBVIOUS
  <2>4. CASE wire'[d] = wire[d]
    BY <2>1, <2>3, <2>4 DEF CallInv
  <2>5. CASE wire[d] = "sent" /\ wire'[d] \in Responses \cup {"failed"}
    <3>1. place[d] \in {"app", "hook", "try", "direct", "hooked", "finally", "done"}
      BY DEF Typing, TypeOK, HookTypeOK
    <3>2. place[d] \in {"direct", "hooked"} /\ outcome[d] = "none"
      BY <2>3, <2>5, <3>1 DEF CallInv
    <3> QED
      BY <2>1, <2>3, <2>5, <3>2 DEF CallInv, Responses
  <2> QED
    BY <2>2, <2>4, <2>5
<1>4. CASE UNCHANGED vars
  BY <1>4 DEF CallInv, vars, hookVars, installerVars, callVars, historyVars
<1> QED
  BY <1>1, <1>2, <1>3, <1>4, StepCases DEF CallMoves

-------------------------------------------------------------------------------
(* The records of the hook.                                                *)

(* The parts of HookFileInv are kept by a step that leaves alone the file  *)
(* and every call that has ended, and lets no call that entered the hook   *)
(* end without a record being due.                                         *)
LEMMA HookFileFrame ==
    ASSUME Typing, HookFileInv, UNCHANGED hookFile,
           \A d \in Calls : place[d] = "done" =>
               /\ place'[d] = "done" /\ (d \in entered <=> d \in entered')
               /\ outcome'[d] = outcome[d]
               /\ wire'[d] = wire[d],
           \A d \in Calls : (place'[d] = "done" /\ place[d] # "done" /\ d \in entered') => outcome'[d] \in Unrecorded,
           entered' \subseteq Calls
    PROVE  HookFileInv'
<1>1. ASSUME NEW n \in DOMAIN hookFile
      PROVE  HookRecordRight(n)'
  <2>1. hookFile[n] \in HookRecord
    BY DEF Typing
  <2>2. hookFile[n].call \in Calls
    BY <2>1 DEF HookRecord
  <2>3. HookRecordRight(n)
    BY DEF HookFileInv
  <2> QED
    BY <2>2, <2>3 DEF HookRecordRight
<1>2. ASSUME NEW c \in entered', place'[c] = "done", outcome'[c] \notin Unrecorded
      PROVE  \E n \in DOMAIN hookFile : hookFile[n].call = c
  BY <1>2 DEF HookFileInv
<1> QED
  BY <1>1, <1>2 DEF HookFileInv

LEMMA HookFileStep ==
    ASSUME IInv, [Next]_vars
    PROVE  HookFileInv'
<1> USE DEF IInv
<1>0. entered \subseteq Calls
  BY DEF Typing, TypeOK, HookTypeOK
<1>1. ASSUME NEW c \in Calls, CallStep(c), ~WriteRecord(c)
      PROVE  HookFileInv'
  <2>0. CallInv(c)
    OBVIOUS
  <2>1. UNCHANGED hookFile
    BY <1>1 DEF CallStep, ReadMethod, AssertOriginal, CallOriginal, Return, TimeOut, Interrupt, Ends,
                WriteRecordRaises
  <2>2. place[c] # "done"
    BY <1>1 DEF CallStep, ReadMethod, AssertOriginal, CallOriginal, Return, TimeOut, Interrupt, Ends,
                WriteRecordRaises, Finally
  <2>3. place'[c] = "done" /\ c \in entered' => outcome'[c] \in Unrecorded
    <3> USE DEF Typing, TypeOK, HookTypeOK, Unrecorded
    <3>1. CASE ReadMethod(c)
      BY <3>1 DEF ReadMethod
    <3>2. CASE AssertOriginal(c)
      BY <3>2 DEF AssertOriginal
    <3>3. CASE CallOriginal(c)
      BY <3>3 DEF CallOriginal
    <3>4. CASE Return(c) \/ TimeOut(c) \/ Interrupt(c)
      <4>1. PICK end, left : Ends(c, end, left)
        BY <3>4 DEF Return, TimeOut, Interrupt
      <4>2. /\ place[c] = "direct" \/ (place[c] = "hooked" /\ place'[c] = "finally")
            /\ UNCHANGED entered
        BY <4>1 DEF Ends, historyVars
      <4> QED
        BY <2>0, <4>2 DEF CallInv
    <3>5. CASE WriteRecordRaises(c)
      BY <3>5 DEF WriteRecordRaises, Finally
    <3> QED
      BY <1>1, <3>1, <3>2, <3>3, <3>4, <3>5 DEF CallStep
  <2>4. \A d \in Calls \ {c} :
            /\ place'[d] = place[d] /\ wire'[d] = wire[d] /\ outcome'[d] = outcome[d]
            /\ d \in entered' <=> d \in entered
    BY <1>1, OtherCalls
  <2>5. entered' \subseteq Calls
    BY <1>0, <1>1, OtherCalls
  <2> QED
    BY <2>1, <2>2, <2>3, <2>4, <2>5, HookFileFrame
<1>2. ASSUME NEW c \in Calls, WriteRecord(c)
      PROVE  HookFileInv'
  <2>0. CallInv(c)
    OBVIOUS
  <2>1. /\ place[c] = "finally" /\ place'[c] = "done"
        /\ UNCHANGED <<wire, outcome, entered>>
        /\ \A d \in Calls \ {c} : place'[d] = place[d]
    BY <1>2 DEF WriteRecord, Finally, Typing, TypeOK, HookTypeOK, historyVars
  <2>2. c \in entered /\ outcome[c] \notin Unrecorded /\ outcome[c] # "none"
    BY <2>0, <2>1 DEF CallInv, Unrecorded
  <2>3. outcome[c] \in Outcomes /\ wire[c] \in Wires
    BY DEF Typing, TypeOK, HookTypeOK
  <2>4. RecordOf(c) \in HookRecord
    BY <2>3 DEF RecordOf, HookRecord, Outcomes, Responses
  <2>5. RecordOf(c).status = IF wire[c] \in Responses THEN wire[c] ELSE "599"
    <3>1. outcome[c] \in Responses <=> wire[c] \in Responses
      BY <2>0, <2>1, <2>2, <2>3 DEF CallInv, Outcomes, Unrecorded
    <3>2. outcome[c] \in Responses => wire[c] = outcome[c]
      BY <2>0 DEF CallInv
    <3> QED
      BY <3>1, <3>2 DEF RecordOf
  <2>6. RecordOf(c).call = c /\ RecordOf(c).error = (outcome[c] = "exception")
    BY DEF RecordOf
  <2>7. \A n \in DOMAIN hookFile : hookFile[n].call \in Calls \ {c}
    <3> SUFFICES ASSUME NEW n \in DOMAIN hookFile PROVE hookFile[n].call \in Calls \ {c}
      OBVIOUS
    <3>1. HookRecordRight(n) /\ hookFile[n] \in HookRecord
      BY DEF HookFileInv, Typing
    <3> QED
      BY <2>1, <3>1 DEF HookRecordRight, HookRecord
  <2> DEFINE m == Len(hookFile) + 1
  <2>8. /\ DOMAIN hookFile' = DOMAIN hookFile \cup {m} /\ m \notin DOMAIN hookFile
        /\ \A n \in DOMAIN hookFile : hookFile'[n] = hookFile[n]
        /\ hookFile'[m] = RecordOf(c)
    BY <1>2, <2>4, Appended DEF WriteRecord, Typing
  <2> HIDE DEF m
  <2>9. ASSUME NEW n \in DOMAIN hookFile'
        PROVE  HookRecordRight(n)'
    <3>1. CASE n = m
      BY <2>1, <2>2, <2>5, <2>6, <2>8, <3>1 DEF HookRecordRight
    <3>2. CASE n \in DOMAIN hookFile
      <4>1. HookRecordRight(n)
        BY <3>2 DEF HookFileInv
      <4>2. hookFile[n].call \in Calls \ {c} /\ hookFile'[n] = hookFile[n]
        BY <2>7, <2>8, <3>2
      <4> QED
        BY <2>1, <4>1, <4>2 DEF HookRecordRight
    <3> QED
      BY <2>8, <3>1, <3>2
  <2>10. \A l, n \in DOMAIN hookFile' : hookFile'[l].call = hookFile'[n].call => l = n
    BY <2>6, <2>7, <2>8 DEF HookFileInv
  <2>11. ASSUME NEW d \in entered', place'[d] = "done", outcome'[d] \notin Unrecorded
         PROVE  \E n \in DOMAIN hookFile' : hookFile'[n].call = d
    <3>1. CASE d = c
      BY <2>6, <2>8, <3>1
    <3>2. CASE d # c
      <4>1. \E n \in DOMAIN hookFile : hookFile[n].call = d
        BY <1>0, <2>1, <2>11, <3>2 DEF HookFileInv
      <4> QED
        BY <2>8, <4>1
    <3> QED
      BY <3>1, <3>2
  <2> QED
    BY <2>9, <2>10, <2>11 DEF HookFileInv
<1>3. CASE InstallerMoves
  <2>1. UNCHANGED <<place, wire, outcome, hookFile, entered>>
    BY <1>3, InstallerFrame
  <2> QED
    BY <1>0, <2>1, HookFileFrame
<1>4. CASE ProxyMoves \/ ProviderMoves
  <2>1. UNCHANGED <<place, outcome, hookFile, entered>>
    BY <1>4, WireFrame DEF ofHook, historyVars
  <2>2. ASSUME NEW d \in Calls, place[d] = "done"
        PROVE  wire'[d] = wire[d]
    <3>1. wire'[d] # wire[d] => wire[d] = "sent"
      BY <1>4, WireFrame
    <3>2. CallInv(d)
      OBVIOUS
    <3> QED
      BY <2>2, <3>1, <3>2 DEF CallInv
  <2> QED
    BY <1>0, <2>1, <2>2, HookFileFrame
<1>5. CASE UNCHANGED vars
  BY <1>0, <1>5, HookFileFrame DEF vars, hookVars, callVars, historyVars
<1> QED
  BY <1>1, <1>2, <1>3, <1>4, <1>5, StepCases DEF CallMoves

-------------------------------------------------------------------------------
(* The proxy.                                                              *)

LEMMA ProxyRecordOfCall ==
    ASSUME Typing, NEW n \in DOMAIN proxyFile
    PROVE  proxyFile[n].call \in ViaProxy
<1>1. proxyFile[n] \in ProxyRecord
  BY DEF Typing
<1> QED
  BY <1>1 DEF ProxyRecord

(* The other processes only send a call and give it up.                    *)
LEMMA ProxyFrame ==
    ASSUME Typing, ProxyInv, UNCHANGED proxyVars,
           \A c \in ViaProxy :
               \/ wire'[c] = wire[c]
               \/ wire[c] = "idle" /\ wire'[c] = "sent"
               \/ wire[c] # "idle" /\ wire'[c] = "abandoned"
    PROVE  ProxyInv'
<1>1. ASSUME NEW c \in ViaProxy
      PROVE  HandlerInv(c)'
  <2>1. HandlerInv(c)
    BY DEF ProxyInv
  <2> QED
    BY <2>1 DEF HandlerInv, StatusGot, proxyVars
<1>2. ASSUME NEW n \in DOMAIN proxyFile
      PROVE  ProxyRecordRight(n)'
  <2>1. ProxyRecordRight(n) /\ proxyFile[n].call \in ViaProxy
    BY ProxyRecordOfCall DEF ProxyInv
  <2>2. HandlerInv(proxyFile[n].call)
    BY <2>1 DEF ProxyInv
  <2> QED
    BY <2>1, <2>2 DEF ProxyRecordRight, HandlerInv, StatusGot, proxyVars
<1> QED
  BY <1>1, <1>2 DEF ProxyInv, proxyVars

(* A step of one handler: the others see nothing of it.                    *)
LEMMA OtherHandlers ==
    ASSUME Typing, NEW c \in ViaProxy, HandlerStep(c)
    PROVE  /\ ProxyTypeOK'
           /\ \A d \in ViaProxy \ {c} :
                 handler'[d] = handler[d] /\ got'[d] = got[d] /\ wire'[d] = wire[d]
<1> USE LlmProxyAssumption DEF Typing, TypeOK, HookTypeOK, ProxyTypeOK
<1>1. CASE ReadBody(c) \/ BodyCut(c) \/ Record(c)
  BY <1>1 DEF ReadBody, BodyCut, Record
<1>2. CASE Upstream(c)
  BY <1>2 DEF Upstream
<1>3. CASE UpstreamRaises(c) \/ RecordRaises(c) \/ Respond(c)
  BY <1>3 DEF UpstreamRaises, RecordRaises, Respond, Deliver
<1> QED
  BY <1>1, <1>2, <1>3 DEF HandlerStep

(* While no record is made, only the handler's own facts need a look.      *)
LEMMA NoRecordMade ==
    ASSUME Typing, ProxyInv, NEW c \in ViaProxy, HandlerStep(c), UNCHANGED proxyFile,
           HandlerInv(c)',
           \A n \in DOMAIN proxyFile : proxyFile[n].call = c => ProxyRecordRight(n)'
    PROVE  ProxyInv'
<1>1. ASSUME NEW d \in ViaProxy \ {c}
      PROVE  HandlerInv(d)'
  <2>1. HandlerInv(d)
    BY DEF ProxyInv
  <2>2. handler'[d] = handler[d] /\ got'[d] = got[d] /\ wire'[d] = wire[d]
    BY OtherHandlers
  <2> QED
    BY <2>1, <2>2 DEF HandlerInv, StatusGot
<1>2. ASSUME NEW n \in DOMAIN proxyFile, proxyFile[n].call # c
      PROVE  ProxyRecordRight(n)'
  <2>1. ProxyRecordRight(n) /\ proxyFile[n].call \in ViaProxy \ {c}
    BY <1>2, ProxyRecordOfCall DEF ProxyInv
  <2> QED
    BY <2>1, OtherHandlers DEF ProxyRecordRight, StatusGot
<1> QED
  BY <1>1, <1>2 DEF ProxyInv

LEMMA RecordKeepsProxyInv ==
    ASSUME Typing, ProxyInv, NEW c \in ViaProxy, Record(c)
    PROVE  ProxyInv'
<1> DEFINE r == [call |-> c, status |-> StatusGot(c)]
           m == Len(proxyFile) + 1
<1>1. /\ handler[c] = "record" /\ handler'[c] = "respond"
      /\ \A d \in ViaProxy \ {c} : handler'[d] = handler[d]
      /\ UNCHANGED <<wire, got>>
  BY DEF Record, Typing, TypeOK, ProxyTypeOK
<1>2. r \in ProxyRecord /\ r.call = c /\ r.status = StatusGot(c)
  BY DEF ProxyRecord, StatusGot
<1>3. /\ DOMAIN proxyFile' = DOMAIN proxyFile \cup {m} /\ m \notin DOMAIN proxyFile
      /\ \A n \in DOMAIN proxyFile : proxyFile'[n] = proxyFile[n]
      /\ proxyFile'[m] = r
  BY <1>2, Appended DEF Record, Typing
<1> HIDE DEF r, m
<1>4. \A n \in DOMAIN proxyFile : proxyFile[n].call \in ViaProxy \ {c}
  BY <1>1, ProxyRecordOfCall DEF ProxyInv, ProxyRecordRight
<1>5. ASSUME NEW d \in ViaProxy
      PROVE  HandlerInv(d)'
  <2>1. HandlerInv(d)
    BY DEF ProxyInv
  <2>2. CASE d = c
    BY <1>1, <1>2, <1>3, <2>1, <2>2 DEF HandlerInv
  <2>3. CASE d # c
    BY <1>1, <1>3, <2>1, <2>3 DEF HandlerInv, StatusGot
  <2> QED
    BY <2>2, <2>3
<1>6. ASSUME NEW n \in DOMAIN proxyFile'
      PROVE  ProxyRecordRight(n)'
  <2>1. CASE n = m
    BY <1>1, <1>2, <1>3, <2>1 DEF ProxyRecordRight, StatusGot
  <2>2. CASE n \in DOMAIN proxyFile
    <3>1. ProxyRecordRight(n)
      BY <2>2 DEF ProxyInv
    <3>2. proxyFile[n].call \in ViaProxy \ {c} /\ proxyFile'[n] = proxyFile[n]
      BY <1>3, <1>4, <2>2
    <3> QED
      BY <1>1, <3>1, <3>2 DEF ProxyRecordRight, StatusGot
  <2> QED
    BY <1>3, <2>1, <2>2
<1>7. \A l, n \in DOMAIN proxyFile' : proxyFile'[l].call = proxyFile'[n].call => l = n
  BY <1>2, <1>3, <1>4 DEF ProxyInv
<1> QED
  BY <1>5, <1>6, <1>7 DEF ProxyInv

LEMMA HandlerKeepsProxyInv ==
    ASSUME Typing, ProxyInv, NEW c \in ViaProxy, HandlerStep(c)
    PROVE  ProxyInv'
<1>0. HandlerInv(c) /\ c \in Calls
  BY LlmProxyAssumption DEF ProxyInv
<1>1. handler \in [ViaProxy -> {"none", "upstream", "record", "respond", "done"}]
  BY DEF Typing, TypeOK, ProxyTypeOK
<1>2. got \in [ViaProxy -> {"none", "answer", "encoded", "599"}]
  BY DEF Typing, TypeOK, ProxyTypeOK
<1>3. wire \in [Calls -> Wires]
  BY DEF Typing, TypeOK, HookTypeOK
<1>4. CASE ReadBody(c) \/ BodyCut(c)
  <2>1. /\ UNCHANGED <<wire, got, proxyFile>>
        /\ handler[c] = "none"
        /\ handler'[c] = "upstream" \/ (handler'[c] = "done" /\ wire[c] = "abandoned")
        /\ wire[c] \in {"sent", "abandoned"}
    BY <1>1, <1>4 DEF ReadBody, BodyCut
  <2>2. HandlerInv(c)'
    BY <1>0, <2>1 DEF HandlerInv, StatusGot
  <2>3. \A n \in DOMAIN proxyFile : proxyFile[n].call # c
    BY <2>1 DEF ProxyInv, ProxyRecordRight
  <2> QED
    BY <2>1, <2>2, <2>3, NoRecordMade
<1>5. CASE Upstream(c)
  <2>1. /\ UNCHANGED <<wire, proxyFile>>
        /\ handler[c] = "upstream" /\ handler'[c] = "record"
        /\ got'[c] # "none"
    BY <1>1, <1>2, <1>5 DEF Upstream
  <2>2. wire[c] \in {"idle", "sent", "abandoned"} /\ wire[c] # "idle"
    BY <1>0, <2>1 DEF HandlerInv
  <2>3. HandlerInv(c)'
    BY <1>0, <2>1, <2>2 DEF HandlerInv
  <2>4. \A n \in DOMAIN proxyFile : proxyFile[n].call # c
    BY <2>1 DEF ProxyInv, ProxyRecordRight
  <2> QED
    BY <2>1, <2>3, <2>4, NoRecordMade
<1>6. CASE UpstreamRaises(c) \/ RecordRaises(c)
  <2>1. /\ UNCHANGED <<got, proxyFile>>
        /\ handler[c] \in {"upstream", "record"} /\ handler'[c] = "done"
        /\ wire'[c] = IF wire[c] = "sent" THEN "500" ELSE wire[c]
    BY <1>0, <1>1, <1>3, <1>6 DEF UpstreamRaises, RecordRaises, Deliver
  <2>2. wire'[c] \in {"500", "abandoned"}
    BY <1>0, <2>1 DEF HandlerInv
  <2>3. HandlerInv(c)'
    BY <2>1, <2>2 DEF HandlerInv
  <2>4. \A n \in DOMAIN proxyFile : proxyFile[n].call # c
    BY <2>1 DEF ProxyInv, ProxyRecordRight
  <2> QED
    BY <2>1, <2>3, <2>4, NoRecordMade
<1>7. CASE Respond(c)
  <2>1. /\ UNCHANGED <<got, proxyFile>>
        /\ handler[c] = "respond" /\ handler'[c] = "done"
        /\ wire'[c] = IF wire[c] = "sent" THEN IF got[c] = "encoded" THEN "failed" ELSE got[c]
                                          ELSE wire[c]
    BY <1>0, <1>1, <1>3, <1>7 DEF Respond, Deliver
  <2>2. wire[c] \in {"sent", "abandoned"} /\ got[c] \in {"answer", "encoded", "599"}
    BY <1>0, <1>2, <2>1 DEF HandlerInv
  <2>3. \E n \in DOMAIN proxyFile : proxyFile[n].call = c
    BY <1>0, <2>1 DEF HandlerInv
  <2>4. HandlerInv(c)'
    BY <2>1, <2>2, <2>3 DEF HandlerInv, StatusGot
  <2>5. ASSUME NEW n \in DOMAIN proxyFile, proxyFile[n].call = c
        PROVE  ProxyRecordRight(n)'
    <3>1. ProxyRecordRight(n)
      BY DEF ProxyInv
    <3> QED
      BY <2>1, <2>2, <2>5, <3>1 DEF ProxyRecordRight, StatusGot
  <2> QED
    BY <2>1, <2>4, <2>5, NoRecordMade
<1>8. CASE Record(c)
  BY <1>8, RecordKeepsProxyInv
<1> QED
  BY <1>4, <1>5, <1>6, <1>7, <1>8 DEF HandlerStep

LEMMA ProxyStep ==
    ASSUME IInv, [Next]_vars
    PROVE  ProxyInv'
<1> USE DEF IInv
<1>1. CASE InstallerMoves
  <2>1. UNCHANGED wire /\ UNCHANGED proxyVars
    BY <1>1, InstallerFrame
  <2> QED
    BY <2>1, ProxyFrame
<1>2. ASSUME NEW c \in Calls, CallStep(c), UNCHANGED proxyVars
      PROVE  ProxyInv'
  <2>1. CallInv(c) /\ wire \in [Calls -> Wires]
    BY DEF Typing, TypeOK, HookTypeOK
  <2>2. \/ wire'[c] = wire[c]
        \/ wire[c] = "idle" /\ wire'[c] = "sent"
        \/ wire[c] # "idle" /\ wire'[c] = "abandoned"
    <3>1. CASE ReadMethod(c) \/ CallOriginal(c)
      BY <2>1, <3>1 DEF ReadMethod, CallOriginal, CallInv
    <3>2. CASE AssertOriginal(c) \/ WriteRecord(c) \/ WriteRecordRaises(c)
      BY <3>2 DEF AssertOriginal, WriteRecord, WriteRecordRaises, Finally
    <3>3. CASE Return(c)
      BY <2>1, <3>3 DEF Return, Ends
    <3>4. CASE TimeOut(c) \/ Interrupt(c)
      BY <2>1, <3>4 DEF TimeOut, Interrupt, Ends, CallInv
    <3> QED
      BY <1>2, <3>1, <3>2, <3>3, <3>4 DEF CallStep
  <2>3. \A d \in Calls \ {c} : wire'[d] = wire[d]
    BY <1>2, OtherCalls
  <2> QED
    BY <1>2, <2>2, <2>3, ProxyFrame, LlmProxyAssumption
<1>3. CASE ProxyMoves
  BY <1>3, HandlerKeepsProxyInv DEF ProxyMoves
<1>4. CASE ProviderMoves
  <2>1. UNCHANGED proxyVars /\ \A c \in ViaProxy : wire'[c] = wire[c]
    BY <1>4, LlmProxyAssumption DEF ProviderMoves, Provider, Typing, TypeOK, HookTypeOK
  <2> QED
    BY <2>1, ProxyFrame
<1>5. CASE UNCHANGED vars
  BY <1>5, ProxyFrame DEF vars, hookVars, callVars
<1> QED
  BY <1>1, <1>2, <1>3, <1>4, <1>5, StepCases DEF CallMoves

-------------------------------------------------------------------------------
(* Types.                                                                  *)

LEMMA StepsTyped == EnableSteps \in Seq(Assignments) /\ DisableSteps \in Seq(Assignments)
<1>1. EnableSteps \in Seq({EnableSteps[n] : n \in 1..5})
  BY DEF EnableSteps
<1>2. DisableSteps \in Seq({DisableSteps[n] : n \in 1..5})
  BY DEF DisableSteps
<1> QED
  BY <1>1, <1>2 DEF Assignments

LEMMA InstallerTyping ==
    ASSUME IInv, InstallerMoves
    PROVE  Typing'
<1> USE DEF IInv
<1>1. UNCHANGED <<place, wire, outcome, hookFile, entered, proxyVars>>
  BY InstallerFrame
<1> USE DEF Typing, TypeOK, HookTypeOK
<1>2. ASSUME NEW i \in Installers, NEW steps \in Seq(Assignments), Begin(i, steps)
      PROVE  Typing'
  BY <1>1, <1>2, SdkHookAssumption DEF Begin, callVars, historyVars, ProxyTypeOK, proxyVars
<1>3. ASSUME NEW i \in Installers, Assign(i)
      PROVE  Typing'
  <2>1. /\ request' \in [Kinds -> {"httpx", "hook"}]
        /\ original' \in [Kinds -> {"none", "httpx", "hook"}]
        /\ patched' \in BOOLEAN
        /\ disturbed' \subseteq entered
    <3>1. PICK k : Save(k) \/ Patch(k) \/ Restore(k) \/ Forget(k) \/ Mark(TRUE) \/ Mark(FALSE)
      BY <1>3 DEF Assign, Make
    <3>2. CASE Save(k)
      BY <3>2 DEF Save
    <3>3. CASE Patch(k)
      BY <3>3 DEF Patch
    <3>4. CASE Restore(k)
      BY <3>4 DEF Restore
    <3>5. CASE Forget(k)
      <4>1. \A c \in Calls : place[c] \in {"hook", "try"} => c \in entered
        BY DEF CallInv
      <4> QED
        BY <3>5, <4>1 DEF Forget
    <3>6. CASE Mark(TRUE) \/ Mark(FALSE)
      BY <3>6 DEF Mark
    <3> QED
      BY <3>1, <3>2, <3>3, <3>4, <3>5, <3>6
  <2>2. todo' \in [Installers -> Seq(Assignments)]
    <3>1. todo[i] \in Seq(Assignments) /\ todo[i] # <<>>
      BY <1>3 DEF Assign
    <3>2. Tail(todo[i]) \in Seq(Assignments)
      BY <3>1
    <3> QED
      BY <1>3, <3>2 DEF Assign
  <2>3. patchLock' \in Installers \cup {Nobody} /\ UNCHANGED ops
    BY <1>3 DEF Assign
  <2> QED
    BY <1>1, <2>1, <2>2, <2>3 DEF ProxyTypeOK, proxyVars
<1>4. ASSUME NEW i \in Installers, NEW force \in BOOLEAN, Enable(i, force) \/ Disable(i)
      PROVE  \E steps \in Seq(Assignments) : Begin(i, steps)
  <2>1. <<>> \in Seq(Assignments)
    OBVIOUS
  <2> QED
    BY <1>4, <2>1, StepsTyped DEF Enable, Disable
<1>5. ASSUME NEW i \in Installers, NEW force \in BOOLEAN, Enable(i, force) \/ Disable(i)
      PROVE  Typing'
  <2> HIDE DEF Typing
  <2> QED
    BY <1>2, <1>4, <1>5
<1> HIDE DEF Typing
<1> QED
  BY <1>3, <1>5 DEF InstallerMoves, InstallerStep

LEMMA TypingStep ==
    ASSUME IInv, [Next]_vars
    PROVE  Typing'
<1> USE DEF IInv
<1>1. CASE InstallerMoves
  BY <1>1, InstallerTyping
<1>2. ASSUME NEW c \in Calls, CallStep(c), UNCHANGED proxyVars
      PROVE  Typing'
  <2>1. /\ place' \in [Calls -> {"app", "hook", "try", "direct", "hooked", "finally", "done"}]
        /\ wire' \in [Calls -> Wires]
        /\ outcome' \in [Calls -> Outcomes]
        /\ entered \subseteq entered' /\ entered' \subseteq entered \cup {c}
    BY <1>2, OtherCalls
  <2>2. UNCHANGED <<request, original, patched, patchLock, todo, ops, disturbed>>
    BY <1>2, CallFrame DEF installerVars
  <2>3. hookFile' \in Seq(HookRecord)
    <3>1. CASE WriteRecord(c)
      <4>1. outcome[c] \in Outcomes
        BY DEF Typing, TypeOK, HookTypeOK
      <4>2. RecordOf(c) \in HookRecord
        BY <4>1 DEF RecordOf, HookRecord, Outcomes, Responses
      <4>3. hookFile \in Seq(HookRecord)
        BY DEF Typing
      <4> QED
        BY <3>1, <4>2, <4>3, Appended DEF WriteRecord
    <3>2. CASE ~WriteRecord(c)
      <4>1. UNCHANGED hookFile
        BY <1>2, <3>2 DEF CallStep, ReadMethod, AssertOriginal, CallOriginal, Return, TimeOut, Interrupt, Ends,
                    WriteRecordRaises
      <4> QED
        BY <4>1 DEF Typing
    <3> QED
      BY <3>1, <3>2
  <2> QED
    BY <1>2, <2>1, <2>2, <2>3 DEF Typing, TypeOK, HookTypeOK, ProxyTypeOK, proxyVars
<1>3. ASSUME NEW c \in ViaProxy, HandlerStep(c), UNCHANGED ofHook
      PROVE  Typing'
  <2>1. ProxyTypeOK'
    BY <1>3, OtherHandlers
  <2>2. wire' \in [Calls -> Wires]
    BY <1>3, WireFrame DEF ProxyMoves
  <2>3. proxyFile' \in Seq(ProxyRecord)
    <3>1. CASE Record(c)
      <4>1. [call |-> c, status |-> StatusGot(c)] \in ProxyRecord
        BY DEF ProxyRecord, StatusGot
      <4>2. proxyFile \in Seq(ProxyRecord)
        BY DEF Typing
      <4> QED
        BY <3>1, <4>1, <4>2, Appended DEF Record
    <3>2. CASE ~Record(c)
      <4>1. UNCHANGED proxyFile
        BY <1>3, <3>2 DEF HandlerStep, ReadBody, BodyCut, Upstream, UpstreamRaises, RecordRaises, Respond
      <4> QED
        BY <4>1 DEF Typing
    <3> QED
      BY <3>1, <3>2
  <2> QED
    BY <1>3, <2>1, <2>2, <2>3 DEF Typing, TypeOK, HookTypeOK, ofHook, installerVars, historyVars
<1>4. CASE ProviderMoves
  <2>1. wire' \in [Calls -> Wires] /\ UNCHANGED <<ofHook, proxyVars>>
    BY <1>4, WireFrame DEF ProviderMoves
  <2> QED
    BY <2>1 DEF Typing, TypeOK, HookTypeOK, ProxyTypeOK, ofHook, proxyVars, installerVars, historyVars
<1>5. CASE UNCHANGED vars
  BY <1>5 DEF Typing, TypeOK, HookTypeOK, ProxyTypeOK, vars, hookVars, proxyVars, installerVars, callVars, historyVars
<1> QED
  BY <1>1, <1>2, <1>3, <1>4, <1>5, StepCases DEF CallMoves, ProxyMoves

-------------------------------------------------------------------------------
(* The theorems.                                                           *)

LEMMA Initially == Init => IInv
<1> SUFFICES ASSUME Init PROVE IInv
  OBVIOUS
<1> USE SdkHookAssumption, LlmProxyAssumption DEF Init, HookInit, ProxyInit
<1>1. Typing
  <2>1. TypeOK
    <3>1. /\ patchLock \in Installers \cup {Nobody} /\ patched \in BOOLEAN
          /\ entered \subseteq Calls /\ disturbed \subseteq entered
      OBVIOUS
    <3>2. ops \in 0..MaxOps
      <4>1. ops = 0 /\ MaxOps \in Nat
        OBVIOUS
      <4> QED
        BY <4>1
    <3>3. request \in [Kinds -> {"httpx", "hook"}] /\ original \in [Kinds -> {"none", "httpx", "hook"}]
      OBVIOUS
    <3>4. /\ place \in [Calls -> {"app", "hook", "try", "direct", "hooked", "finally", "done"}]
          /\ wire \in [Calls -> Wires] /\ outcome \in [Calls -> Outcomes]
      BY DEF Wires, Outcomes
    <3>5. ProxyTypeOK
      BY DEF ProxyTypeOK
    <3> QED
      BY <3>1, <3>2, <3>3, <3>4, <3>5 DEF TypeOK, HookTypeOK
  <2>2. <<>> \in Seq(Assignments) /\ <<>> \in Seq(HookRecord) /\ <<>> \in Seq(ProxyRecord)
    OBVIOUS
  <2> QED
    BY <2>1, <2>2 DEF Typing
<1>2. LockInv
  BY DEF LockInv, AtRest, Globals, Kinds
<1>3. \A c \in Calls : CallInv(c)
  BY DEF CallInv, Responses
<1>4. HookFileInv
  BY DEF HookFileInv
<1>5. ProxyInv
  BY DEF ProxyInv, HandlerInv
<1> QED
  BY <1>1, <1>2, <1>3, <1>4, <1>5 DEF IInv

LEMMA Inductive == IInv /\ [Next]_vars => IInv'
BY TypingStep, LockStep, CallsStep, HookFileStep, ProxyStep DEF IInv

LEMMA Invariance == Spec => []IInv
BY Initially, Inductive, PTL DEF Spec

(* The variables keep their types.                                         *)
THEOREM TypeCorrect == Spec => []TypeOK
<1>1. IInv => TypeOK
  BY DEF IInv, Typing
<1> QED
  BY <1>1, Invariance, PTL

(* However enable_sdk_capture and disable_sdk_capture of several threads   *)
(* interleave, with each other and with the calls of the application: the  *)
(* hook is never its own original, and httpx is whole when the lock is     *)
(* free.                                                                   *)
THEOREM HookWhole == Spec => []HookIsWhole
<1>1. IInv => HookIsWhole
  <2> SUFFICES ASSUME LockInv PROVE HookIsWhole
    BY DEF IInv
  <2>1. \A k \in Kinds : original[k] # "hook"
    BY OriginalFacts DEF OriginalInv
  <2>2. patchLock = Nobody => AtRest
    BY DEF LockInv
  <2> QED
    BY <2>1, <2>2 DEF HookIsWhole, AtRest, Globals, Kinds
<1> QED
  BY <1>1, Invariance, PTL

(* A call fails by the hook only if disable_sdk_capture overtook it.       *)
THEOREM RemovalOnly == Spec => []OnlyRemovalBreaksCalls
<1>1. IInv => OnlyRemovalBreaksCalls
  BY DEF IInv, CallInv, OnlyRemovalBreaksCalls
<1> QED
  BY <1>1, Invariance, PTL

(* A set of record numbers has one member if there is one and no other.    *)
LEMMA OneMember ==
    ASSUME NEW S, NEW n \in S, \A m \in S : m = n
    PROVE  Cardinality(S) = 1
<1>1. S = {n}
  OBVIOUS
<1> QED
  BY <1>1, FS_Singleton

(* The finally clause of the hook leaves one record, and the right one, of *)
(* every call that ended in it.                                            *)
THEOREM RecordedOnce == Spec => []EndedCallsAreRecordedOnce
<1>1. ASSUME IInv, NEW c \in Calls
      PROVE  /\ HookRecords(c) # {} => place[c] = "done" /\ c \in entered
             /\ (place[c] = "done" /\ c \in entered) =>
                   Cardinality(HookRecords(c)) = IF outcome[c] \in {"assertion", "write failed"} THEN 0 ELSE 1
             /\ \A n \in HookRecords(c) :
                   /\ hookFile[n].status = IF wire[c] \in Responses THEN wire[c] ELSE "599"
                   /\ hookFile[n].error = (outcome[c] = "exception")
  <2> USE <1>1 DEF IInv
  <2>1. ASSUME NEW n \in HookRecords(c)
        PROVE  n \in DOMAIN hookFile /\ hookFile[n].call = c /\ HookRecordRight(n)
    BY DEF HookRecords, HookFileInv
  <2>2. HookRecords(c) # {} => place[c] = "done" /\ c \in entered /\ outcome[c] \notin Unrecorded
    BY <2>1 DEF HookRecordRight
  <2>3. ASSUME place[c] = "done", c \in entered, outcome[c] \in Unrecorded
        PROVE  Cardinality(HookRecords(c)) = 0
    BY <2>2, <2>3, FS_EmptySet
  <2>4. ASSUME place[c] = "done", c \in entered, outcome[c] \notin Unrecorded
        PROVE  Cardinality(HookRecords(c)) = 1
    <3>1. PICK n \in DOMAIN hookFile : hookFile[n].call = c
      BY <2>4 DEF HookFileInv
    <3>2. n \in HookRecords(c) /\ \A m \in HookRecords(c) : m = n
      BY <3>1 DEF HookRecords, HookFileInv
    <3> QED
      BY <3>2, OneMember
  <2>5. ASSUME NEW n \in HookRecords(c)
        PROVE  /\ hookFile[n].status = IF wire[c] \in Responses THEN wire[c] ELSE "599"
               /\ hookFile[n].error = (outcome[c] = "exception")
    BY <2>1 DEF HookRecordRight
  <2> QED
    BY <2>2, <2>3, <2>4, <2>5 DEF Unrecorded
<1>2. IInv => EndedCallsAreRecordedOnce
  BY <1>1 DEF EndedCallsAreRecordedOnce
<1> QED
  BY <1>2, Invariance, PTL

(* The capture of the proxy and what the application saw of a call agree,  *)
(* and so do the two captures.                                             *)
THEOREM RecordsAgree == Spec => []BothRecordsAgree
<1>1. ASSUME IInv, NEW c \in ViaProxy
      PROVE  /\ Cardinality(ProxyRecords(c)) <= 1
             /\ wire[c] \in {"answer", "599"} =>
                   \E n \in ProxyRecords(c) : proxyFile[n].status = wire[c]
             /\ \A n \in ProxyRecords(c) :
                   handler[c] = "done" =>
                       \/ wire[c] \in {proxyFile[n].status, "abandoned"}
                       \/ wire[c] = "failed" /\ got[c] = "encoded"
  <2> USE <1>1 DEF IInv
  <2>1. ASSUME NEW n \in ProxyRecords(c)
        PROVE  n \in DOMAIN proxyFile /\ proxyFile[n].call = c /\ ProxyRecordRight(n)
    BY DEF ProxyRecords, ProxyInv
  <2>2. Cardinality(ProxyRecords(c)) <= 1
    <3>1. CASE ProxyRecords(c) = {}
      BY <3>1, FS_EmptySet
    <3>2. CASE ProxyRecords(c) # {}
      <4>1. PICK n \in ProxyRecords(c) : TRUE
        BY <3>2
      <4>2. \A m \in ProxyRecords(c) : m = n
        BY <4>1 DEF ProxyRecords, ProxyInv
      <4>3. Cardinality(ProxyRecords(c)) = 1
        BY <4>1, <4>2, OneMember
      <4> QED
        BY <4>3
    <3> QED
      BY <3>1, <3>2
  <2>3. ASSUME wire[c] \in {"answer", "599"}
        PROVE  \E n \in ProxyRecords(c) : proxyFile[n].status = wire[c]
    <3>1. HandlerInv(c)
      BY DEF ProxyInv
    <3>2. PICK n \in DOMAIN proxyFile : proxyFile[n].call = c
      BY <2>3, <3>1 DEF HandlerInv
    <3>3. ProxyRecordRight(n) /\ n \in ProxyRecords(c)
      BY <3>2 DEF ProxyInv, ProxyRecords
    <3> QED
      BY <2>3, <3>1, <3>2, <3>3 DEF HandlerInv, ProxyRecordRight
  <2>4. ASSUME NEW n \in ProxyRecords(c), handler[c] = "done"
        PROVE  \/ wire[c] \in {proxyFile[n].status, "abandoned"}
               \/ wire[c] = "failed" /\ got[c] = "encoded"
    BY <2>1, <2>4 DEF ProxyRecordRight
  <2> QED
    BY <2>2, <2>3, <2>4
<1>2. IInv => BothRecordsAgree
  BY <1>1 DEF BothRecordsAgree
<1> QED
  BY <1>2, Invariance, PTL
================================================================================
