SPECIFICATION AuditSpec
CONSTANTS
    Sinks = 2
    MaxEntries = 3
    MaxLogs = 2
    MaxAlive = 1
INVARIANTS
    EachEventIsOneLine
CHECK_DEADLOCK FALSE
