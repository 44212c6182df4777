SPECIFICATION AuditSpec
CONSTANTS
    Sinks = 2
    MaxEntries = 3
    MaxLogs = 2
    MaxAlive = 1
INVARIANTS
    AuditTypeOK
    VerifyingFileIsCommittedPrefix
    LossFollowsFailure
    FileInCommitOrder
    SinksFollowFile
PROPERTIES
    NeverSilentlyTruncated
CHECK_DEADLOCK FALSE
