SPECIFICATION WireSpec
CONSTANTS
    Drafts <- Both
    Claims <- MCClaims
    Requests <- MCRequests
    TrustedRoots <- Roots
    Audiences <- Points
    CheckedScopes <- MCScopes
    CheckedContexts <- MCContexts
    CheckedTotals <- MCTotals
    OddSegments <- Odds
    MaxTokens = 4
    MaxChain = 3
    MaxTime = 2
INVARIANTS
    LeafDeterminesChain
    LoadedIsAttenuated
    ProperChainsLoad
CHECK_DEADLOCK FALSE
