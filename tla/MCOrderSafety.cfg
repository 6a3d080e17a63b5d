SPECIFICATION Spec
CONSTANTS
    d1 = d1
    d2 = d2
    d3 = d3
    Decision <- ThreeDecisions
    MaxExposure = 1
    FailureLimit = 2
    MaxRestarts = 0
    Faults = {"cancel", "reply", "history", "partial"}
SYMMETRY Symmetry
INVARIANTS TypeOK ClosedMeansClosed OvershootByOne
