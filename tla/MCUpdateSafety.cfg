SPECIFICATION Spec
CONSTANTS
    exe = exe
    lib = lib
    Part <- TwoParts
    MaxInstalls = 3
    MaxCrashes = 1
    Faults = {"io", "live", "migration", "health", "version", "locked"}
SYMMETRY Symmetry
INVARIANTS TypeOK NeverHalfInstalled RollbackAvailable
PROPERTY CrashBlocksRun
