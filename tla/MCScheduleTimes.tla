---------------------------- MODULE MCScheduleTimes ----------------------------
(***************************************************************************)
(* Schedules for TLC: days of four minutes.                                *)
(***************************************************************************)
EXTENDS ScheduleTimes, FiniteSets

\* Every one or two days at any time of day, and plain intervals.
DailySchedules ==
    [interval : {4, 8}, time : 0..3, day : {AnyDay}]
    \cup [interval : {1, 3, 6}, time : {NoTime}, day : {AnyDay}]

\* Every week, on Tuesday at the first or the last minute of the day.
WeeklySchedules == [interval : {28}, time : {0, 3}, day : {1}]

\* All of them, and other days of the week before and after the first run.
AllSchedules == DailySchedules \cup [interval : {28}, time : {0, 2, 3}, day : {0, 1, 6}]

EarlierRuns == 0..7 \cup {26, Never}  \* on a Monday, a Tuesday or a Sunday
LastTuesday == {7}  \* on Tuesday, at the last minute of the day

==============================================================================
