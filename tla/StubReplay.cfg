SPECIFICATION ReplaySpec
CONSTANTS
    None = None
    BadIds <- NoIds
    Keys <- MCKeys
    Answer <- MCAnswers
    Fallback <- MCFallback
    NoFallback = NoFallback
    Stubs <- NoStubs
    MaxCalls = 3
    ClientCalls <- MCClientCalls
    ServerCalls <- MCServerCalls
    ServerIds <- MCServerIds
    MaxClientCalls = 2
    MaxServerCalls = 1
INVARIANTS
    StubIsPairing
    AnswersMatchCallsWhenIdsDiffer
    SequentialSessionReplays
CHECK_DEADLOCK FALSE
