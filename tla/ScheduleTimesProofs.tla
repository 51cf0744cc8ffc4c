-------------------------- MODULE ScheduleTimesProofs --------------------------
(***************************************************************************)
(* What should_schedule_next promises, for days of any length, every       *)
(* schedule the editor can make, and any delay and number of failures.     *)
(*                                                                         *)
(* All of it rests on one account of the next iteration: with a time of    *)
(* day, it is the last moment of that time plus the interval, a whole      *)
(* number of days, plus the days to the day of the week.                   *)
(***************************************************************************)
EXTENDS ScheduleTimes, FiniteSetTheorems, TLAPS

(***************************************************************************)
(* Days and times of day.                                                  *)
(***************************************************************************)
LEMMA Division ==
    ASSUME NEW t \in Int, NEW d \in Nat \ {0}
    PROVE  /\ t \div d \in Int /\ t % d \in 0..(d - 1)
           /\ t = (t \div d) * d + (t % d)
           /\ (t \div d) * d <= t /\ t < (t \div d) * d + d
<1>1. t \div d \in Int
  OBVIOUS
<1>2. t % d \in 0..(d - 1)
  OBVIOUS
<1>3. t = (t \div d) * d + (t % d)
  OBVIOUS
<1>4. (t \div d) * d <= t /\ t < (t \div d) * d + d
  <2> DEFINE e == (t \div d) * d
  <2>1. e \in Int
    BY <1>1
  <2> HIDE DEF e
  <2> QED BY <1>2, <1>3, <2>1 DEF e
<1> QED BY <1>1, <1>2, <1>3, <1>4

LEMMA Multiple ==
    ASSUME NEW t \in Int, NEW d \in Nat \ {0}, t % d = 0
    PROVE  t \div d \in Int /\ t = (t \div d) * d
<1> DEFINE q == t \div d
<1>1. q \in Int /\ t = q * d + (t % d)
  BY Division
<1> HIDE DEF q
<1>2. t = q * d
  BY <1>1
<1> QED BY <1>1, <1>2 DEF q

LEMMA Quotient ==
    ASSUME NEW q \in Int, NEW d \in Nat \ {0}, NEW r \in 0..(d - 1)
    PROVE  (q * d + r) \div d = q
  OBVIOUS

LEMMA Remainder ==
    ASSUME NEW q \in Int, NEW d \in Nat \ {0}, NEW r \in 0..(d - 1)
    PROVE  (q * d + r) % d = r
  OBVIOUS

LEMMA QuotientIs ==
    ASSUME NEW t \in Int, NEW d \in Nat \ {0}, NEW q \in Int, q * d <= t, t < q * d + d
    PROVE  t \div d = q
<1> DEFINE r == t - q * d
<1>1. r \in 0..(d - 1) /\ t = q * d + r
  OBVIOUS
<1> HIDE DEF r
<1> QED BY <1>1, Quotient

\* Multiples of one day are ordered as their numbers.
LEMMA MultiplesOrdered ==
    ASSUME NEW p \in Int, NEW q \in Int, NEW d \in Nat \ {0}, p * d < q * d + d
    PROVE  p * d <= q * d
<1>1. p < q + 1
  <2>1. (q + 1) * d = q * d + d
    OBVIOUS
  <2>2. p * d < (q + 1) * d => p < q + 1
    OBVIOUS
  <2> QED BY <2>1, <2>2
<1>2. p <= q
  BY <1>1
<1> QED BY <1>2

\* TLAPS has no arithmetic of exponents: a power of two counts subsets.
LEMMA PowerOfTwo == \A n \in Nat : 2 ^ n \in Nat
<1> SUFFICES ASSUME NEW n \in Nat PROVE 2 ^ n \in Nat
  OBVIOUS
<1>1. IsFiniteSet(1..n) /\ Cardinality(1..n) = n
  <2>1. 1 <= n \/ 1 > n
    OBVIOUS
  <2> QED BY <2>1, FS_Interval
<1>2. IsFiniteSet(SUBSET (1..n)) /\ Cardinality(SUBSET (1..n)) = 2 ^ n
  BY <1>1, FS_SUBSET
<1> QED BY <1>2, FS_CardinalityType

USE DayAssumption, TimesAssumption

LEMMA BackoffType == \A n \in Nat : Backoff(n) \in Nat
  BY PowerOfTwo DEF Backoff

\* The interval of a schedule with a time of day is a number of whole days, and
\* of whole weeks with a day of the week.
LEMMA WholeDays ==
    ASSUME NEW s \in Schedules, s.time # NoTime
    PROVE  \E m \in Nat \ {0} : /\ s.interval = m * DayLength
                                /\ s.day # AnyDay => m >= 7 /\ m % 7 = 0
<1>1. s.interval \in Nat \ {0} /\ s.interval % DayLength = 0
  BY SchedulesAssumption
<1>2. CASE s.day = AnyDay
  <2> DEFINE m == s.interval \div DayLength
  <2>1. m \in Int /\ s.interval = m * DayLength
    BY <1>1, Multiple
  <2>2. m > 0
    <3> HIDE DEF m
    <3> QED BY <1>1, <2>1
  <2>3. m \in Nat \ {0}
    BY <2>1, <2>2
  <2> QED BY <1>2, <2>1, <2>3
<1>3. CASE s.day # AnyDay
  <2>1. PICK W \in Nat \ {0} : W = 7 * DayLength /\ s.interval % W = 0
    BY <1>3, SchedulesAssumption
  <2>2. PICK n \in Int : s.interval = n * W
    <3>1. s.interval \in Int /\ s.interval % W = 0
      BY <1>1, <2>1
    <3> QED BY <3>1, Multiple
  <2>3. n > 0
    BY <1>1, <2>1, <2>2
  <2>4. s.interval = (n * 7) * DayLength
    BY <2>1, <2>2
  <2>5. n * 7 \in Nat \ {0} /\ n * 7 >= 7 /\ (n * 7) % 7 = 0
    BY <2>2, <2>3
  <2> QED BY <2>4, <2>5
<1> QED BY <1>2, <1>3

------------------------------------------------------------------------------
(***************************************************************************)
(* The next iteration.                                                     *)
(***************************************************************************)
\* The iteration that an execution at t belongs to is the last moment of the
\* time of day before it, or at t itself.
LEMMA IterationInSlot ==
    ASSUME NEW t \in Int, NEW h \in 0..(DayLength - 1)
    PROVE  /\ Slot(t, h) \in Int
           /\ Slot(t, h) * DayLength + h <= t
           /\ t < Slot(t, h) * DayLength + h + DayLength
           /\ IterationOf(t, h) \in Int
           /\ IterationOf(t, h) \div DayLength = Slot(t, h)
<1> DEFINE q == t \div DayLength
           p == Slot(t, h)
<1>1. p \in Int /\ p * DayLength <= t - h /\ t - h < p * DayLength + DayLength
  BY Division DEF Slot
<1>2. q \in Int /\ q * DayLength <= t /\ t < q * DayLength + DayLength
  BY Division
<1>3. AtTime(t, h) = q * DayLength + h
  BY DEF AtTime
<1> HIDE DEF p, q
<1>4. CASE AtTime(t, h) > t
  <2>1. IterationOf(t, h) = (q - 1) * DayLength + h
    <3>1. (q - 1) * DayLength = q * DayLength - DayLength
      BY <1>2
    <3> QED BY <1>2, <1>3, <1>4, <3>1 DEF IterationOf
  <2>2. (t - h) \div DayLength = q - 1
    <3>1. (q - 1) * DayLength = q * DayLength - DayLength
      BY <1>2
    <3>2. (q - 1) * DayLength <= t - h /\ t - h < (q - 1) * DayLength + DayLength
      BY <1>2, <1>3, <1>4, <3>1
    <3> QED BY <1>2, <3>2, QuotientIs
  <2>3. IterationOf(t, h) \div DayLength = q - 1
    BY <1>2, <2>1, Quotient
  <2>4. IterationOf(t, h) \in Int
    BY <1>2, <2>1
  <2> QED BY <1>1, <2>2, <2>3, <2>4 DEF p, Slot
<1>5. CASE ~(AtTime(t, h) > t)
  <2>1. IterationOf(t, h) = t
    BY <1>5 DEF IterationOf
  <2>2. (t - h) \div DayLength = q
    <3>1. q * DayLength <= t - h /\ t - h < q * DayLength + DayLength
      BY <1>2, <1>3, <1>5
    <3> QED BY <1>2, <3>1, QuotientIs
  <2> QED BY <1>1, <2>1, <2>2 DEF p, q, Slot
<1> QED BY <1>4, <1>5

LEMMA DaysToAddBounds ==
    ASSUME NEW t \in Int, NEW s \in Schedules
    PROVE  /\ DaysToAdd(t, s.day) \in -6..6
           /\ DaysToAdd(t, s.day) * DayLength <= DayWait(s)
<1>1. (t \div DayLength) % 7 \in 0..6
  BY Division
<1>2. s.day \in 0..6 \cup {AnyDay}
  BY SchedulesAssumption
<1> DEFINE a == DaysToAdd(t, s.day)
<1>3. a \in -6..6 /\ (s.day = AnyDay => a = 0)
  BY <1>1, <1>2 DEF DaysToAdd, Weekday
<1> HIDE DEF a
<1>4. a * DayLength <= 6 * DayLength
  BY <1>3
<1>5. a * DayLength <= DayWait(s)
  BY <1>3, <1>4 DEF DayWait
<1> QED BY <1>3, <1>5 DEF a

\* With a time of day: the last moment of it, whole days later.
LEMMA NextInSlot ==
    ASSUME NEW s \in Schedules, s.time # NoTime, NEW t \in Int, NEW n \in Nat,
           NEW m \in Nat, s.interval = m * DayLength
    PROVE  NextIteration(s, t, n)
             = Backoff(n) + (Slot(t, s.time) + m + DaysToAdd(t, s.day)) * DayLength + s.time
<1> DEFINE h == s.time
           a == DaysToAdd(t, s.day)
           i == IterationOf(t, h)
           p == Slot(t, h)
<1>1. h \in 0..(DayLength - 1)
  BY SchedulesAssumption
<1>2. i \in Int /\ p \in Int /\ i \div DayLength = p
  BY <1>1, IterationInSlot
<1>3. a \in Int
  BY DaysToAddBounds
<1>4. NextIteration(s, t, n)
        = Backoff(n) + AtTime(i + m * DayLength + a * DayLength, h)
  BY DEF NextIteration
<1> HIDE DEF i, a, p, h
<1>5. PICK r \in 0..(DayLength - 1) : i = p * DayLength + r
  BY <1>2, Division
<1>6. i + m * DayLength + a * DayLength = (p + m + a) * DayLength + r
  BY <1>2, <1>3, <1>5
<1>7. (i + m * DayLength + a * DayLength) \div DayLength = p + m + a
  BY <1>2, <1>3, <1>6, Quotient
<1>8. AtTime(i + m * DayLength + a * DayLength, h) = (p + m + a) * DayLength + h
  BY <1>7 DEF AtTime
<1>9. Backoff(n) \in Nat
  BY BackoffType
<1> QED BY <1>1, <1>2, <1>3, <1>4, <1>8, <1>9 DEF p, a, h

\* The next iteration is after the last execution, within an interval and the
\* wait for the day of the week.
LEMMA NextBounds ==
    ASSUME NEW s \in Schedules, NEW t \in Int, NEW n \in Nat
    PROVE  /\ NextIteration(s, t, n) \in Int
           /\ t <= NextIteration(s, t, n)
           /\ NextIteration(s, t, n) <= t + s.interval + DayWait(s) + Backoff(n)
<1> DEFINE x == NextIteration(s, t, n)
           b == Backoff(n)
<1>1. b \in Nat /\ s.interval \in Nat \ {0} /\ DayWait(s) \in Nat
  BY BackoffType, SchedulesAssumption DEF DayWait
<1>2. CASE s.time = NoTime
  BY <1>1, <1>2 DEF NextIteration
<1>3. CASE s.time # NoTime
  <2> DEFINE h == s.time
             a == DaysToAdd(t, s.day)
             p == Slot(t, h)
  <2>1. PICK m \in Nat \ {0} : /\ s.interval = m * DayLength
                               /\ s.day # AnyDay => m >= 7
    BY <1>3, WholeDays
  <2>2. x = b + (p + m + a) * DayLength + h
    BY <1>3, <2>1, NextInSlot
  <2>3. h \in 0..(DayLength - 1)
    BY <1>3, SchedulesAssumption
  <2>4. /\ p \in Int
        /\ p * DayLength + h <= t
        /\ t < p * DayLength + h + DayLength
    BY <2>3, IterationInSlot
  <2>5. a \in -6..6 /\ a * DayLength <= DayWait(s)
    BY DaysToAddBounds
  <2>6. m + a >= 1
    <3>1. CASE s.day = AnyDay
      <4>1. a = 0
        BY <3>1 DEF DaysToAdd
      <4> QED BY <2>1, <4>1
    <3>2. CASE s.day # AnyDay
      BY <2>1, <2>5, <3>2
    <3> QED BY <3>1, <3>2
  <2> HIDE DEF x, b, a, p, h
  <2>7. x = b + p * DayLength + m * DayLength + a * DayLength + h
    BY <1>1, <2>2, <2>3, <2>4, <2>5
  <2>8. DayLength <= m * DayLength + a * DayLength
    <3> DEFINE k == m + a
    <3>1. k >= 1 /\ k \in Int
      BY <2>5, <2>6
    <3>2. m * DayLength + a * DayLength = k * DayLength
      BY <2>5
    <3> HIDE DEF k
    <3>3. DayLength <= k * DayLength
      BY <3>1
    <3> QED BY <3>2, <3>3
  <2> DEFINE P == p * DayLength
             A == a * DayLength
             K == m * DayLength
  <2>9. P \in Int /\ A \in Int /\ K \in Int
    BY <2>4, <2>5
  <2>10. /\ x = b + P + K + A + h /\ DayLength <= K + A
         /\ P + h <= t /\ t < P + h + DayLength
         /\ A <= DayWait(s) /\ K = s.interval
    BY <2>1, <2>4, <2>5, <2>7, <2>8
  <2> HIDE DEF P, A, K
  <2>11. x \in Int /\ t <= x /\ x <= t + s.interval + DayWait(s) + b
    BY <1>1, <2>3, <2>9, <2>10
  <2> QED BY <2>11 DEF x, b
<1> QED BY <1>2, <1>3

------------------------------------------------------------------------------
(***************************************************************************)
(* The inductive invariant: a waiting job came due in the first minute     *)
(* after the next iteration; while none waits, that minute has not come.   *)
(***************************************************************************)
ClockInv ==
    /\ previous # Never => previous <= now
    /\ previous = Never => due = Never
    /\ due # Never =>
         /\ due <= now /\ now <= due + MaxDelay
         /\ NextIteration(schedule, previous, failures) < due
         /\ due <= NextIteration(schedule, previous, failures) + 1
    /\ previous # Never /\ due = Never =>
         now <= NextIteration(schedule, previous, failures)

IInv == TypeOK /\ ClockInv

LEMMA RefreshKeeps == IInv /\ Refresh => IInv'
<1> SUFFICES ASSUME IInv, Refresh PROVE IInv'
  OBVIOUS
<1> USE DEF IInv, TypeOK, ClockInv
<1>1. /\ now \in Nat /\ now' = now + 1 /\ now' \in 0..Horizon
      /\ due # Never => now < due + MaxDelay
      /\ due' = IF due = Never /\ IsOutdated(now + 1) THEN now + 1 ELSE due
      /\ UNCHANGED <<schedule, previous, failures>>
  BY DEF Refresh
<1>2. failures \in Nat /\ schedule \in Schedules
  OBVIOUS
<1> DEFINE x == NextIteration(schedule, previous, failures)
<1>3. CASE previous = Never
  <2>1. now + 1 <= NextIteration(schedule, now + 1, failures)
    BY <1>1, <1>2, NextBounds
  <2>2. NextIteration(schedule, now + 1, failures) \in Int
    BY <1>1, <1>2, NextBounds
  <2>3. ~IsOutdated(now + 1)
    BY <1>1, <1>3, <2>1, <2>2 DEF IsOutdated, ShouldScheduleNext
  <2>4. due' = Never /\ previous' = Never
    BY <1>1, <1>3, <2>3
  <2> QED BY <1>1, <1>2, <2>4
<1>4. CASE previous # Never
  <2>1. previous \in Nat /\ x \in Int
    <3>1. previous \in Nat
      BY <1>4
    <3> QED BY <1>2, <3>1, NextBounds
  <2>2. x' = x
    BY <1>1
  <2> HIDE DEF x
  <2>3. CASE due = Never /\ IsOutdated(now + 1)
    <3>1. due' = now + 1 /\ due' \in Nat
      BY <1>1, <2>3
    <3>2. x < now + 1
      BY <1>4, <2>3 DEF IsOutdated, ShouldScheduleNext, x
    <3>3. now <= x
      BY <1>4, <2>3 DEF x
    <3>4. /\ due' <= now' /\ now' <= due' + MaxDelay
          /\ x' < due' /\ due' <= x' + 1
      BY <1>1, <2>1, <2>2, <3>1, <3>2, <3>3
    <3> QED BY <1>1, <1>2, <1>4, <2>1, <3>1, <3>4 DEF x
  <2>4. CASE due = Never /\ ~IsOutdated(now + 1)
    <3>1. due' = Never
      BY <1>1, <2>4
    <3>2. now' <= x'
      BY <1>1, <1>4, <2>1, <2>2, <2>4 DEF IsOutdated, ShouldScheduleNext, x
    <3> QED BY <1>1, <1>2, <1>4, <2>1, <3>1, <3>2 DEF x
  <2>5. CASE due # Never
    <3>1. due' = due /\ due \in Nat
      BY <1>1, <2>5
    <3>2. /\ due' <= now' /\ now' <= due' + MaxDelay
          /\ x' < due' /\ due' <= x' + 1
      BY <1>1, <2>1, <2>2, <2>5, <3>1 DEF x
    <3> QED BY <1>1, <1>2, <1>4, <2>1, <2>5, <3>1, <3>2 DEF x
  <2> QED BY <2>3, <2>4, <2>5
<1> QED BY <1>3, <1>4

LEMMA ExecuteKeeps == IInv /\ Execute => IInv'
<1> SUFFICES ASSUME IInv, Execute PROVE IInv'
  OBVIOUS
<1> USE DEF IInv, TypeOK, ClockInv
<1>1. /\ previous' = now /\ due' = Never /\ failures' \in 0..MaxFailures
      /\ UNCHANGED <<schedule, now>>
  BY DEF Execute
<1>2. now \in Int /\ failures' \in Nat /\ now # Never
  BY <1>1
<1>3. now <= NextIteration(schedule, now, failures')
  BY <1>2, NextBounds
<1> QED BY <1>1, <1>2, <1>3

LEMMA Inductive == Spec => []IInv
<1>1. Init => IInv
  <2> SUFFICES ASSUME Init PROVE IInv
    OBVIOUS
  <2>1. TypeOK
    BY DEF Init, TypeOK
  <2>2. CASE previous = Never
    BY <2>1, <2>2 DEF Init, IInv, ClockInv
  <2>3. CASE previous # Never
    <3>1. now = previous /\ previous \in Int /\ failures \in Nat
      BY <2>1, <2>3 DEF Init, TypeOK
    <3>2. previous <= NextIteration(schedule, previous, failures)
      BY <2>1, <3>1, NextBounds DEF TypeOK
    <3> QED BY <2>1, <2>3, <3>1, <3>2 DEF Init, IInv, ClockInv
  <2> QED BY <2>2, <2>3
<1>2. IInv /\ UNCHANGED vars => IInv'
  BY DEF IInv, TypeOK, ClockInv, vars
<1>3. IInv /\ [Next]_vars => IInv'
  BY <1>2, RefreshKeeps, ExecuteKeeps DEF Next
<1> QED BY <1>1, <1>3, PTL DEF Spec

------------------------------------------------------------------------------
\* The clock, the last execution and the waiting job keep their types.
THEOREM TypeCorrect == Spec => []TypeOK
<1>1. IInv => TypeOK
  BY DEF IInv
<1> QED BY <1>1, Inductive, PTL

\* A query without a noted start and without a result, its own, one of another
\* query with the same text or of the query it was forked from, is never enqueued
\* by its schedule, on whatever schedule: taken as run just now, it is never due.
THEOREM FirstRunIsByHandAlways == Spec => []FirstRunIsByHand
<1>1. IInv => FirstRunIsByHand
  BY DEF IInv, ClockInv, FirstRunIsByHand
<1> QED BY <1>1, Inductive, PTL

\* A query that was run once runs within an interval of its last execution, give
\* or take the day of the week, the backoff after failures and the delay of jobs.
THEOREM NoIterationSkippedAlways == Spec => []NoIterationSkipped
<1>1. IInv => NoIterationSkipped
  <2> SUFFICES ASSUME IInv, previous # Never
               PROVE  now <= previous + schedule.interval + DayWait(schedule)
                                      + Backoff(failures) + 1 + MaxDelay
    BY DEF NoIterationSkipped
  <2> DEFINE x == NextIteration(schedule, previous, failures)
             e == previous + schedule.interval + DayWait(schedule) + Backoff(failures)
  <2>1. previous \in Int /\ failures \in Nat /\ schedule \in Schedules /\ now \in Int
    BY DEF IInv, TypeOK
  <2>2. x \in Int /\ x <= e
    BY <2>1, NextBounds
  <2>3. e \in Int
    BY <2>1, BackoffType, SchedulesAssumption DEF DayWait
  <2>4. now <= x + 1 + MaxDelay
    <3>1. CASE due = Never
      BY <2>1, <2>2, <3>1 DEF IInv, ClockInv
    <3>2. CASE due # Never
      <4>1. due \in Int
        BY <3>2 DEF IInv, TypeOK
      <4>2. now <= due + MaxDelay /\ due <= x + 1
        BY <3>2 DEF IInv, ClockInv
      <4> HIDE DEF x
      <4> QED BY <2>1, <2>2, <4>1, <4>2
    <3> QED BY <3>1, <3>2
  <2>5. now <= e + 1 + MaxDelay
    <3> HIDE DEF x, e
    <3> QED BY <2>1, <2>2, <2>3, <2>4
  <2> QED BY <2>5
<1> QED BY <1>1, Inductive, PTL

\* At least interval days lie between two scheduled executions, counted from time
\* of day to time of day, however late each of them began.
THEOREM NoIterationTwiceAlways == Spec => NoIterationTwice
<1> DEFINE Twice == (/\ previous' # previous /\ previous # Never
                     /\ schedule.time # NoTime /\ schedule.day = AnyDay)
                    => (Slot(previous', schedule.time) - Slot(previous, schedule.time))
                           * DayLength >= schedule.interval
<1>1. IInv /\ [Next]_vars => [Twice]_vars
  <2> SUFFICES ASSUME IInv, Next, previous' # previous, previous # Never,
                      schedule.time # NoTime, schedule.day = AnyDay
               PROVE  (Slot(previous', schedule.time) - Slot(previous, schedule.time))
                          * DayLength >= schedule.interval
    OBVIOUS
  <2> DEFINE h == schedule.time
             x == NextIteration(schedule, previous, failures)
             p == Slot(previous, h)
             q == Slot(now, h)
             b == Backoff(failures)
  <2>1. due # Never /\ previous' = now
    BY DEF Next, Refresh, Execute
  <2>2. /\ previous \in Int /\ failures \in Nat /\ schedule \in Schedules
        /\ now \in Int /\ due \in Int
    BY <2>1 DEF IInv, TypeOK
  <2>3. x < due /\ due <= now
    BY <2>1 DEF IInv, ClockInv
  <2>4. PICK m \in Nat \ {0} : schedule.interval = m * DayLength
    BY <2>2, WholeDays
  <2>5. DaysToAdd(previous, schedule.day) = 0
    BY DEF DaysToAdd
  <2>6. h \in 0..(DayLength - 1)
    BY <2>2, SchedulesAssumption
  <2>7. p \in Int /\ q \in Int /\ now < q * DayLength + h + DayLength
    BY <2>2, <2>6, IterationInSlot
  <2>8. x = b + (p + m + 0) * DayLength + h /\ b \in Nat
    BY <2>2, <2>4, <2>5, NextInSlot, BackoffType
  <2> HIDE DEF h, x, p, q, b
  <2>9. (p + m) * DayLength <= q * DayLength
    <3> DEFINE k == p + m
               K == k * DayLength
               Q == q * DayLength
    <3>1. k \in Int /\ K \in Int /\ Q \in Int
      BY <2>7
    <3>2. p + m + 0 = k
      BY <2>7
    <3>3. x = b + K + h /\ now < Q + h + DayLength
      BY <2>7, <2>8, <3>2
    <3>4. K < Q + DayLength
      <4> HIDE DEF K, Q, k
      <4>1. x \in Int
        BY <2>6, <2>8, <3>1, <3>3
      <4> QED BY <2>2, <2>3, <2>6, <2>8, <3>1, <3>3, <4>1
    <3> HIDE DEF k
    <3>5. K <= Q
      BY <2>7, <3>1, <3>4, MultiplesOrdered
    <3> QED BY <3>5 DEF k
  <2>10. (q - p) * DayLength >= m * DayLength
    BY <2>7, <2>9
  <2> QED BY <2>1, <2>4, <2>10 DEF p, q, h
<1> QED BY <1>1, Inductive, PTL DEF Spec, NoIterationTwice

\* A schedule with a day of the week comes due on that day after an execution
\* that began at its time of day or later on the same day.
THEOREM InTimeDueOnItsDayAlways == Spec => []InTimeDueOnItsDay
<1>1. IInv => InTimeDueOnItsDay
  <2> SUFFICES ASSUME IInv, previous # Never, schedule.time # NoTime,
                      AtTime(previous, schedule.time) <= previous,
                      schedule.day # AnyDay, failures = 0
               PROVE  Weekday(NextIteration(schedule, previous, failures)) = schedule.day
    BY DEF InTimeDueOnItsDay, DueOnItsDay
  <2> DEFINE h == schedule.time
             d == schedule.day
             p == previous \div DayLength
             a == DaysToAdd(previous, d)
  <2>1. previous \in Int /\ schedule \in Schedules /\ failures \in Nat
    BY DEF IInv, TypeOK
  <2>2. PICK m \in Nat \ {0} : schedule.interval = m * DayLength /\ m % 7 = 0
    BY <2>1, WholeDays
  <2>3. h \in 0..(DayLength - 1) /\ d \in 0..6
    BY <2>1, SchedulesAssumption
  <2>4. ~(AtTime(previous, h) > previous)
    <3>1. AtTime(previous, h) \in Int
      BY <2>1, <2>3, Division DEF AtTime
    <3> QED BY <2>1, <3>1
  <2>5. Slot(previous, h) = p /\ p \in Int
    <3>1. IterationOf(previous, h) = previous
      BY <2>4 DEF IterationOf
    <3> QED BY <2>1, <2>3, <3>1, IterationInSlot, Division
  <2>6. a = d - (p % 7)
    BY <2>3, <2>5 DEF DaysToAdd, Weekday
  <2>7. NextIteration(schedule, previous, failures) = 0 + (p + m + a) * DayLength + h
    BY <2>1, <2>2, <2>5, NextInSlot DEF Backoff
  <2> HIDE DEF h, d, p, a
  <2>8. p % 7 \in 0..6 /\ p \div 7 \in Int /\ p = (p \div 7) * 7 + (p % 7)
    BY <2>5
  <2>9. m \div 7 \in Int /\ m = (m \div 7) * 7
    BY <2>2, Division
  <2> DEFINE n == p \div 7 + m \div 7
  <2>10. n \in Int /\ p + m + a = n * 7 + d
    BY <2>2, <2>3, <2>5, <2>6, <2>8, <2>9
  <2> HIDE DEF n
  <2>11. NextIteration(schedule, previous, failures) = (n * 7 + d) * DayLength + h
    <3>1. (n * 7 + d) * DayLength \in Int
      BY <2>3, <2>10
    <3> QED BY <2>3, <2>7, <2>10, <3>1
  <2>12. NextIteration(schedule, previous, failures) \div DayLength = n * 7 + d
    BY <2>3, <2>10, <2>11, Quotient
  <2>13. (n * 7 + d) % 7 = d
    BY <2>3, <2>10, Remainder
  <2> QED BY <2>12, <2>13 DEF Weekday, d
<1> QED BY <1>1, Inductive, PTL

==============================================================================
