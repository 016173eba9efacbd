SPECIFICATION BuildSpec
CONSTANTS
    Objects = {"{}"}
    FieldOrder <- MCFields
    Long <- MCLong
    Patches = {"patch", "long patch"}
    Paths <- MCPaths
    NormalPath <- MCNormalPath
    FileOrder <- MCFiles
    Unsafe = {"../c.py"}
    Secrets = {"secret", "long"}
    Hash <- MCHash
    GenericRows <- MCGeneric
    CaptureRows <- MCCapture
    Workspaces <- MCWorkspaces
    Exclusions = {{}, {"payloads"}, {"diffs"}}
    MaxRows = 2
INVARIANTS
    PackHoldsTheLog
    ChangedFilesHaveDiffs
    TimelineHasOneOrder
    ProvidersAgree
CHECK_DEADLOCK FALSE
