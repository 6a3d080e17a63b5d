SPECIFICATION FairSpec
CONSTANTS
    t1 = t1
    t2 = t2
    tel = tel
    Ticket <- OneTicket
    Telemetry <- OneTelemetry
    BadArity <- None
    Pooled = FALSE
    QueueMax = 1
    BatchMax = 2
    OverflowMax = 1
    OverflowBatch = 1
    MaxRestarts = 0
    Faults = {"touch", "statement", "deadletter", "file", "close"}
INVARIANTS FlushHonest
PROPERTIES Settles CloseTerminates
CHECK_DEADLOCK FALSE
