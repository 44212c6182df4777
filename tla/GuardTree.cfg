SPECIFICATION SinkSpec
CONSTANTS
    h1 = h1
    h2 = h2
    SchemaVersion = 1
    Agents <- OneAgent
    RootAuthorities <- JustPlain
    Requests <- JustNarrow
    StrayAuthorities <- None
    MaxDepth = 2
    MaxFanout = 2
    MaxNodes = 3
    MaxTime = 0
    CheckedScopes <- ReadAndPay
    Contexts <- Empty
    Captures <- PreHook
    Params <- NoneSent
    CallKeys <- NoLimits
    StrictMetering = FALSE
    StrikesOn = TRUE
    StrikeLimit = 2
    StrikeMode = "same_scope"
    Passthroughs = FALSE
    Unhashable <- None
    MaxLedger = 5
    MaxInside = 1
INVARIANTS
    RepeatedDenialsRevoke
    AcceptedAdditionsStayInLine
PROPERTIES
    LedgerImplementsTree
