SPECIFICATION Spec
CONSTANTS
    Roots <- MCRoots
    Requests <- MCRequests
    CheckedScopes <- MCCheckedScopes
    Contexts <- MCContexts
    MaxPath = 3
INVARIANTS
    AttenuationComposes
    ContainedInAncestors
    MeetIsGreatest
    SubsumptionSound
CHECK_DEADLOCK FALSE
