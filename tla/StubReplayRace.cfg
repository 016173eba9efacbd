SPECIFICATION ReplaySpec
CONSTANTS
    None = None
    BadIds <- NoIds
    Keys <- MCKeys
    Answer <- MCAnswers
    Fallback <- MCFallback
    NoFallback = NoFallback
    Stubs <- NoStubs
    MaxCalls = 3
    ClientCalls <- MCOneCall
    ServerCalls <- MCServerCalls
    ServerIds <- MCServerIds
    MaxClientCalls = 1
    MaxServerCalls = 0
INVARIANTS
    SequentialSessionAlwaysReplays
CHECK_DEADLOCK FALSE
