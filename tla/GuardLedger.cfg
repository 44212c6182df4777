SPECIFICATION GuardSpec
CONSTANTS
    SchemaVersion = 1
    Agents <- OneAgent
    RootAuthorities <- LimitedRoots
    Requests <- JustLimited
    StrayAuthorities <- Widened
    MaxDepth = 2
    MaxFanout = 2
    MaxNodes = 2
    MaxTime = 1
    CheckedScopes <- ReadAndPay
    Contexts <- MeterContexts
    Captures <- PreHook
    Params <- NoneSent
    CallKeys <- TwoLimits
    StrictMetering = TRUE
    StrikesOn = FALSE
    StrikeLimit = 2
    StrikeMode = "same_scope"
    Passthroughs = TRUE
    Unhashable <- None
    MaxLedger = 4
INVARIANTS
    LedgerVerifies
    MetersCountAllows
    CallLimitHolds
