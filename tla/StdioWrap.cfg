SPECIFICATION FairSpec
CONSTANTS
    None = None
    BadIds <- OddIds
    ClientTexts <- ClientLines
    ServerTexts <- ServerLines
    PipeCap = 1
    StderrLines = 2
INVARIANTS
    TypeOK
    CaptureFollowsForwarding
    TranscriptInWireOrder
    NoTornLine
    BatchStaysTogether
    JoinedOutputIsComplete
PROPERTIES
    ServerEndEndsWrapper
    CloseEndsWrapper
    ImplementsTap
