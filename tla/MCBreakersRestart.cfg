\* Two evaluations with a restart between them.
SPECIFICATION Spec
CONSTANTS
    Equity <- TwoLevels
    DayLength = 2
    WeekDays = 2
    DailyPct = 10
    WeeklyPct = 15
    LossLimit = 2
    Cooldown = 2
    MaxTime = 1
    MaxLog = 2
    MaxRuns = 2
INVARIANTS
    LossesOutliveRestart
CHECK_DEADLOCK FALSE
