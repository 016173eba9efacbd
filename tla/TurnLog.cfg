SPECIFICATION TurnLogSpec
CONSTANTS
    RowTypes <- MCTypes
    RowKeys <- MCKeys
    MaxLog = 5
INVARIANTS
    RowsBelongToTurns
    TurnsDoNotOverlap
    EventsInLogOrder
PROPERTIES
    ClosedTurnsAreFinal
CHECK_DEADLOCK FALSE
