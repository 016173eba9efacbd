SPECIFICATION Spec
CONSTANTS
    Calls = {"chat", "stream"}
    Kind <- MCKind
    ViaProxy = {"stream"}
    Installers = {i1, i2}
    Nobody = nobody
    Flightlog = FALSE
    MaxOps = 3
INVARIANTS
    HookIsWhole
    OnlyRemovalBreaksCalls
    EndedCallsAreRecordedOnce
    BothRecordsAgree
CHECK_DEADLOCK FALSE
