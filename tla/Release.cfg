SPECIFICATION FairSpec
CONSTANTS
    Jobs <- MCJobs
    Gate = "CI gate"
    AlwaysJobs <- MCAlways
    MaxCI = 2
    MaxNative = 2
    Targets = {"linux", "darwin"}
    Rejected = Rejected
    NoTree = NoTree
    Push <- MCPush
    Sha = "sha"
    NativeTag = "v0.0.2"
    Attempts = {1, 2}
    Outputs <- MCOutputs
    Host = "linux"
    Assets = {"linux", "darwin"}
    MaxAttempt = 2
    TagRequired = FALSE
    None = None
INVARIANTS
    MirrorIsExport
    HandedOnWhole
    PublishedAsBuilt
PROPERTIES
    SourceWasGreen
    UploadsLand
    Recovers
CHECK_DEADLOCK FALSE
