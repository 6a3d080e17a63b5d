SPECIFICATION Spec
CONSTANTS
    t1 = t1
    t2 = t2
    tel = tel
    Ticket <- TwoTickets
    Telemetry <- None
    BadArity <- Malformed
    Pooled = TRUE
    QueueMax = 1
    BatchMax = 2
    OverflowMax = 1
    OverflowBatch = 1
    MaxRestarts = 1
    Faults = {"construct", "statement", "deadletter", "file", "retire", "crash"}
INVARIANTS TypeOK NoSilentLoss EntryContextKept
PROPERTIES LedgerNeverRegresses ImplementsContract
CHECK_DEADLOCK FALSE
