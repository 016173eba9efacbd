SPECIFICATION Spec
CONSTANTS
    Keys <- MCKeys
    Answer <- MCAnswers
    Fallback <- MCFallback
    NoFallback = NoFallback
    Stubs <- MCStubs
    MaxCalls = 5
PROPERTIES
    ServesTheRecording
