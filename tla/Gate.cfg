SPECIFICATION GateSpec
CONSTANTS
    Keys <- MCKeys
    Answer = {"a", "b"}
    Fallback <- MCFallback
    NoFallback = NoFallback
    Stubs <- MCStubs
    MaxCalls = 4
    ServerOrder <- MCServerOrder
    Packs <- MCPacks
    Policies <- MCPolicies
    ToolTypes = {"tool.call", "tool.result"}
    MaxAccepted = 2
INVARIANTS
    ReplayedCallsAreAnswered
    AcceptedPacksDoNotCreep
CHECK_DEADLOCK FALSE
