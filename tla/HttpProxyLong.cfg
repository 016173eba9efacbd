SPECIFICATION Spec
CONSTANTS
    None = None
    BadIds <- OddIds
    Exchanges <- MCPlainAndStream
    Long <- MCLong
    MaxAtOnce = 2
INVARIANT
    NoTornLine
CHECK_DEADLOCK FALSE
