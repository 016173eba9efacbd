SPECIFICATION Spec
CONSTANTS
    RowTypes <- MCTurnTypes
    RowKeys <- MCKeys
    Limits <- MCLimits
    NoLimit = NoLimit
    MaxRows = 3
    MaxRotations = 1
    WithKill = TRUE
INVARIANTS
    EmitsTheLog
    WithinLimit
    PackIsAhead
PROPERTIES
    EventsAreEmitted
CHECK_DEADLOCK FALSE
