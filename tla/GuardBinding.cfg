SPECIFICATION SinkSpec
CONSTANTS
    h1 = h1
    h2 = h2
    SchemaVersion = 2
    Agents <- LeadAndOdd
    RootAuthorities <- JustPlain
    Requests <- JustNarrow
    StrayAuthorities <- None
    MaxDepth = 2
    MaxFanout = 2
    MaxNodes = 2
    MaxTime = 0
    CheckedScopes <- JustRead
    Contexts <- Empty
    Captures <- BothCaptures
    Params <- SomeParams
    CallKeys <- NoLimits
    StrictMetering = FALSE
    StrikesOn = FALSE
    StrikeLimit = 2
    StrikeMode = "same_scope"
    Passthroughs = FALSE
    Unhashable <- OddAgent
    MaxLedger = 5
    MaxInside = 1
SYMMETRY HashSymmetry
INVARIANTS
    GuardTypeOK
    BindingFailsOnlyOnMisreport
    CleanIffClosedOut
    KillSnapshotsOpenCalls
    LedgerShowsLiveState
    FinishedNodesStayQuiet
