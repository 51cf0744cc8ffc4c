\* Weekly, daily and interval schedules, late jobs and failures.
CONSTANTS
    DayLength = 4
    Schedules <- AllSchedules
    FirstRuns <- EarlierRuns
    Never = Never
    NoTime = NoTime
    AnyDay = AnyDay
    MaxDelay = 3
    MaxFailures = 3
    Horizon = 80
SPECIFICATION Spec
INVARIANTS NoIterationSkipped FirstRunIsByHand InTimeDueOnItsDay
PROPERTY NoIterationTwice
CHECK_DEADLOCK FALSE
