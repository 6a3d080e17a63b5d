SPECIFICATION FairSpec
CONSTANTS
    d1 = d1
    d2 = d2
    d3 = d3
    Decision <- TwoDecisions
    MaxExposure = 1
    FailureLimit = 2
    MaxRestarts = 1
    Faults = {"pendings", "cancel", "reply"}
PROPERTIES NeverBesideManaged SlotFreed OpenedIsClosed
