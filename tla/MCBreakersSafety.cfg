\* Two-day weeks, a streak of two, two processes.
SPECIFICATION Spec
CONSTANTS
    Equity <- Levels
    DayLength = 2
    WeekDays = 2
    DailyPct = 10
    WeeklyPct = 15
    LossLimit = 2
    Cooldown = 2
    MaxTime = 4
    MaxLog = 4
    MaxRuns = 2
INVARIANTS
    TypeOK
    BudgetsHold
    StreakCools
    RefusedForCause
CHECK_DEADLOCK FALSE
