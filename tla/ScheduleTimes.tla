----------------------------- MODULE ScheduleTimes -----------------------------
(***************************************************************************)
(* When a scheduled query is due: should_schedule_next, driven by the      *)
(* scheduler.  refresh_queries runs again and again; once the query is due *)
(* a job is enqueued, and the start of the job is the previous iteration   *)
(* that the next decision is taken from.                                   *)
(*                                                                         *)
(* Time is counted in minutes from the first midnight of a Monday; a day   *)
(* has DayLength minutes (1440) and a week seven days.                     *)
(***************************************************************************)
EXTENDS Integers

CONSTANTS
    DayLength,    \* minutes of a day
    Schedules,    \* the schedules tried: [interval, time, day]
    FirstRuns,    \* the times the query may have been run by hand before, or its text
    Never,        \* the query was never run
    NoTime,       \* the schedule has no time of day: every interval minutes
    AnyDay,       \* the schedule has no day_of_week
    MaxDelay,     \* bound: minutes until an enqueued job starts
    MaxFailures,  \* bound: failures in a row
    Horizon       \* bound: the last minute looked at

ASSUME DayAssumption       == DayLength \in Nat \ {0}
ASSUME SchedulesAssumption ==
    \A s \in Schedules :
        /\ s.interval \in Nat \ {0}
        /\ s.time \in 0..(DayLength - 1) \cup {NoTime}
        /\ s.day \in 0..6 \cup {AnyDay}
        /\ s.time # NoTime => s.interval % DayLength = 0
        /\ s.day # AnyDay => s.time # NoTime /\ s.interval % (7 * DayLength) = 0
ASSUME TimesAssumption     == /\ FirstRuns \subseteq 0..Horizon \cup {Never}
                              /\ Never \notin Nat
                              /\ MaxDelay \in Nat /\ MaxFailures \in Nat
                              /\ Horizon \in Nat

VARIABLES
    schedule,  \* the query's schedule, fixed from the start
    now,       \* the clock
    previous,  \* when the last execution began, or Never
    failures,  \* schedule_failures
    due        \* when the waiting job was enqueued, or Never

vars == <<schedule, now, previous, failures, due>>

------------------------------------------------------------------------------
(***************************************************************************)
(* should_schedule_next.                                                   *)
(***************************************************************************)
Weekday(t) == (t \div DayLength) % 7

\* previous_iteration.replace(hour=..., minute=...)
AtTime(t, time) == (t \div DayLength) * DayLength + time

\* An iteration that began before the time of day belongs to the day before.
IterationOf_Naive(t, time) == t  \* mutant: compare plain timestamps
IterationOf_Yesterday(t, time) == AtTime(t, time) - DayLength  \* mutant: always
IterationOf(t, time) ==
    IF AtTime(t, time) > t THEN AtTime(t, time) - DayLength ELSE t

DaysToAdd_Reversed(t, day) == IF day = AnyDay THEN 0 ELSE Weekday(t) - day  \* mutant: the sign
DaysToAdd(t, day) == IF day = AnyDay THEN 0 ELSE day - Weekday(t)

Backoff(n) == IF n = 0 THEN 0 ELSE 2 ^ n

NextIteration(s, t, n) ==
    Backoff(n) + IF s.time = NoTime THEN t + s.interval
                 ELSE AtTime(IterationOf(t, s.time) + s.interval
                                 + DaysToAdd(t, s.day) * DayLength, s.time)

ShouldScheduleNext(s, t, at, n) == at > NextIteration(s, t, n)

\* outdated_queries: a query that was never run counts as run just now.
IsOutdated_Epoch(at) ==  \* mutant: it counts as run long ago
    ShouldScheduleNext(schedule, IF previous = Never THEN 0 ELSE previous, at, failures)

IsOutdated(at) ==
    ShouldScheduleNext(schedule, IF previous = Never THEN at ELSE previous, at, failures)

------------------------------------------------------------------------------
TypeOK ==
    /\ schedule \in Schedules
    /\ now \in 0..Horizon
    /\ previous \in 0..Horizon \cup {Never}
    /\ failures \in 0..MaxFailures
    /\ due \in 0..Horizon \cup {Never}

Init ==
    /\ schedule \in Schedules
    /\ previous \in FirstRuns
    /\ now = IF previous = Never THEN 0 ELSE previous
    /\ failures = 0
    /\ due = Never

\* A minute passes and refresh_queries runs.  A job that waits is found
\* through its lock, so that it is not enqueued again.
Refresh ==
    /\ now < Horizon
    /\ due # Never => now < due + MaxDelay
    /\ now' = now + 1
    /\ due' = IF due = Never /\ IsOutdated(now + 1) THEN now + 1 ELSE due
    /\ UNCHANGED <<schedule, previous, failures>>

\* QueryExecutor notes the start of the execution, which then succeeds or
\* fails.
Execute ==
    /\ due # Never
    /\ previous' = now
    /\ due' = Never
    /\ failures' \in {0, failures + 1} \cap 0..MaxFailures
    /\ UNCHANGED <<schedule, now>>

Next == Refresh \/ Execute

Spec == Init /\ [][Next]_vars

------------------------------------------------------------------------------
(***************************************************************************)
(* Properties.                                                             *)
(***************************************************************************)
\* By how much the day of the week may put the next iteration off.
DayWait(s) == IF s.day = AnyDay THEN 0 ELSE 6 * DayLength

\* No iteration is skipped: a query that was run once runs within an interval
\* of its last execution, give or take the day of the week, the backoff after
\* failures and the delay of jobs.  "Using naive implementation ... it will skip
\* the execution."
NoIterationSkipped ==
    previous # Never =>
        now <= previous + schedule.interval + DayWait(schedule)
                        + Backoff(failures) + 1 + MaxDelay

\* A schedule does not run its query for the first time: until the query has a start
\* noted or a latest result, its own by hand, that of another query with the same
\* text, or that of the query it was forked from, it is taken as run just now.
FirstRunIsByHand == previous = Never => due = Never

\* The number of the day whose time of day was passed last at t.
Slot(t, time) == (t - time) \div DayLength

\* An iteration is not run twice: at least interval days lie between two
\* scheduled executions, counted from time of day to time of day, however late
\* each of them began.
NoIterationTwice ==
    [][(/\ previous' # previous /\ previous # Never
        /\ schedule.time # NoTime /\ schedule.day = AnyDay)
       => (Slot(previous', schedule.time) - Slot(previous, schedule.time))
              * DayLength >= schedule.interval]_vars

\* A schedule with a day of the week comes due on that day.
DueOnItsDay ==
    schedule.day # AnyDay /\ previous # Never /\ failures = 0
        => Weekday(NextIteration(schedule, previous, failures)) = schedule.day

\* It does after an execution that began at its time of day or later on the same
\* day, on whichever day of the week: only what begins after midnight moves it.
InTimeDueOnItsDay ==
    previous # Never /\ schedule.time # NoTime /\ AtTime(previous, schedule.time) <= previous
        => DueOnItsDay

==============================================================================
