SPECIFICATION Spec
CONSTANTS
    Roots <- MCFieldRequests
    Requests <- MCFieldRequests
    CheckedScopes <- MCCheckedScopes
    Contexts <- MCContexts
    MaxPath = 3
INVARIANTS
    NarrowAdmitsSubsetOfBoth
CHECK_DEADLOCK FALSE
