SPECIFICATION Spec
CONSTANTS
    lead = lead
    helper = helper
    Agents <- MCAgents
    RootAuthorities <- MCRootAuthorities
    Requests <- MCRequests
    StrayAuthorities <- MCStray
    MaxDepth = 2
    MaxFanout = 2
    MaxNodes = 4
    MaxTime = 2
SYMMETRY AgentSymmetry
INVARIANTS
    TypeOK
    BannedAgentsHoldNothing
    IssuedWithinParentLife
PROPERTIES
    NoCollateralRevocation
    ChainImplementsTree
