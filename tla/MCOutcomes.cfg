\* One decision, every fault, two restarts: the safety properties are proved for
\* every set of decisions, the liveness properties are out of reach with two.
SPECIFICATION FairSpec
CONSTANTS
    d1 = d1
    Decision <- OneDecision
    Nobody = Nobody
    MaxExposure = 1
    SweepLimit = 1
    MaxRestarts = 2
    Faults = {"partial", "reply"}
INVARIANTS
    TypeOK
    LiveTradesClosing
    BookedBeforeLearned
    SweepTellsTheTruth
PROPERTIES
    FirstOutcomeStands
    RefusedIsClassified
    RecoveredAtStartup
    ClosedIsLearned
