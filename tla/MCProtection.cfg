\* Every fault, one restart, a stop set by hand between the entry and the break-even.
SPECIFICATION FairSpec
CONSTANTS
    Open = 100
    Volume = 2
    FirstStop = 80
    Prices <- Bids
    HandStops <- ByHand
    AtrRisk = 30
    Gap = 2
    LockGap = 7
    LockPips = 3
    Cost = 6
    Triggers <- Tenths
    MinPeak = 10
    MfePeak = 24
    RulePip = 5
    HalfAtr = 6
    BeLock = 4
    Trail = 12
    Faults <- AllFaults
    MaxRestarts = 1
INVARIANTS
    TypeOK
PROPERTIES
    RiskNeverGrows
    RedWinnerEnds
