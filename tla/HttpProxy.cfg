SPECIFICATION Spec
CONSTANTS
    None = None
    BadIds <- OddIds
    Exchanges <- MCExchanges
    Long <- MCLong
    MaxAtOnce = 2
INVARIANTS
    RequestsPrecedeAnswers
    CapturedWasPassedOn
    ArrivedIsCaptured
    StubPairsExchanges
PROPERTIES
    HandlersEnd
CHECK_DEADLOCK FALSE
