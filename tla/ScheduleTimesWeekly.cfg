\* A weekly schedule whose execution begins after midnight.
CONSTANTS
    DayLength = 4
    Schedules <- WeeklySchedules
    FirstRuns <- LastTuesday
    Never = Never
    NoTime = NoTime
    AnyDay = AnyDay
    MaxDelay = 3
    MaxFailures = 3
    Horizon = 80
SPECIFICATION Spec
INVARIANTS DueOnItsDay
CHECK_DEADLOCK FALSE
