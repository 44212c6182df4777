SPECIFICATION AdapterSpec
CONSTANTS
    SchemaVersion = 2
    Agents <- OneAgent
    RootAuthorities <- JustPlain
    Requests <- JustPlain
    StrayAuthorities <- None
    MaxDepth = 1
    MaxFanout = 1
    MaxNodes = 2
    MaxTime = 0
    CheckedScopes <- JustRead
    Contexts <- Empty
    Captures <- AsWrapper
    Params <- NoneSent
    CallKeys <- NoLimits
    StrictMetering = FALSE
    StrikesOn = FALSE
    StrikeLimit = 2
    StrikeMode = "same_scope"
    Passthroughs = FALSE
    Unhashable <- None
    MaxLedger = 8
    MaxInvocations = 2
    Heaps <- SomeHeaps
    Endings <- ReturnsOrAborts
    CommitMayThrow = TRUE
INVARIANTS
    AdapterTypeOK
    WrappedCallsBind
    CommitsExactlyToTrees
PROPERTIES
    NodesGetFinished
CHECK_DEADLOCK FALSE
