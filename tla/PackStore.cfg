SPECIFICATION Spec
CONSTANTS
    ArtifactKeys <- MCArtifactKeys
    Sorted <- MCSorted
    Builds <- MCBuilds
    SignKeys <- MCKeys
    MaxBuilds = 3
    MaxCalls = 2
    Nothing = Nothing
    Torn = Torn
INVARIANTS
    HashedFilesAreOneBuild
    IntactPackPasses
    SignaturesCoverFinishedBuilds
    VerifiedFilesAreSigned
CHECK_DEADLOCK FALSE
