\* Two run-loop tasks, every fault, two processes.
SPECIFICATION FairSpec
CONSTANTS
    first = first
    second = second
    Loops <- TwoLoops
    Attempts = 2
    MaxBoots = 2
    Faults = {"connect", "read", "boot", "persist", "disconnect"}
INVARIANTS
    TypeOK
    HaltHolds
    ClosedIsQuiet
    OneTeardown
    MigrationAlone
PROPERTIES
    OnlyOperatorReleases
    StopEnds
CHECK_DEADLOCK FALSE
