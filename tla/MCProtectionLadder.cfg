\* No fault, no restart, no stop set by hand.
SPECIFICATION Spec
CONSTANTS
    Open = 100
    Volume = 2
    FirstStop = 80
    Prices <- Bids
    HandStops <- Nobody
    AtrRisk = 30
    Gap = 2
    LockGap = 7
    LockPips = 3
    Cost = 6
    Triggers <- Tenths
    MinPeak = 10
    MfePeak = 24
    RulePip = 5
    HalfAtr = 6
    BeLock = 4
    Trail = 12
    Faults <- NoFaults
    MaxRestarts = 0
INVARIANT LockMeansEven
