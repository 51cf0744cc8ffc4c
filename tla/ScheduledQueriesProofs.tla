------------------------- MODULE ScheduledQueriesProofs -------------------------
(***************************************************************************)
(* For any number of scheduled queries, executions, edits, reports and     *)
(* runs of refresh_queries that overlap: the runs, which work on rows and  *)
(* start times that they read before, start a query whose jobs have their  *)
(* lock at most once each more than its interval asks for, and never       *)
(* revive a schedule that was removed.                                     *)
(***************************************************************************)
EXTENDS ScheduledQueries, FiniteSetTheorems, TLAPS

\* A scheduled job of query q waits, or one will be enqueued by the runs of
\* refresh_queries that have found q due.
Waiting(q, x) == exec[x].pc = "queued" /\ exec[x].scheduled /\ exec[x].query = q
JobWaits(q)   == \E x \in Executions : Waiting(q, x)
Planned(q)    == {r \in Refreshers : q \in refresh[r].outdated}

\* A lock holds a job that is queued or running, one for a text; a query whose
\* text has another such job counts as loose.
LockInv ==
    /\ \A x \in Executions : exec[x].pc # "free" => exec[x].query \in Queries
    /\ locks \subseteq Live
    /\ \A x, y \in locks : TextOf[exec[x].query] = TextOf[exec[y].query] => x = y
    /\ Unguarded \subseteq loose

\* The starts of an interval, those that are still to come included.  While the
\* interval counts as elapsed, none of them has happened.
Budget(q) == starts[q] + (IF JobWaits(q) THEN 1 ELSE 0) + Cardinality(Planned(q))

StartsInv ==
    \A q \in Queries :
        /\ q \in elapsed => starts[q] = 0
        /\ q \notin loose => Budget(q) <= 1 + Cardinality(Refreshers)

IInv == TypeOK /\ LockInv /\ StartsInv /\ RemovedStaysQuiet

USE QueriesAssumption, RefreshersAssumption, SchedulesAssumption, BoundsAssumption

LEMMA FreeType == Free \in ExecutionStates
BY DEF Free, ExecutionStates

LEMMA NoRefreshType == NoRefresh \in Refreshes
<1>1. 0 \in 0..MaxReports
  OBVIOUS
<1> QED BY <1>1 DEF NoRefresh, Refreshes

LEMMA InitInv == Init => IInv
<1> SUFFICES ASSUME Init PROVE IInv
  OBVIOUS
<1> USE DEF Init
<1>1. TypeOK
  <2>1. 0 \in 0..MaxReports /\ 0 \in 0..MaxEdits
    OBVIOUS
  <2>2. schedule \in [Queries -> Schedules]
    OBVIOUS
  <2>3. /\ failures \in [Queries -> 0..MaxReports] /\ starts \in [Queries -> Nat]
        /\ \A q \in Queries : starts[q] = 0
    BY <2>1
  <2> QED BY <2>1, <2>2, <2>3, FreeType, NoRefreshType DEF TypeOK
<1>2. LockInv /\ RemovedStaysQuiet
  BY DEF LockInv, RemovedStaysQuiet, Free, Unguarded, Live
<1>3. StartsInv
  <2> SUFFICES ASSUME NEW q \in Queries PROVE Budget(q) <= 1 + Cardinality(Refreshers)
    BY DEF StartsInv
  <2>1. Planned(q) = {} /\ ~JobWaits(q) /\ starts[q] = 0
    BY DEF Planned, NoRefresh, JobWaits, Waiting, Free
  <2> QED BY <2>1, FS_EmptySet, FS_CardinalityType DEF Budget
<1> QED BY <1>1, <1>2, <1>3 DEF IInv

\* The count of failures stays in its bounds, and the backoff touches only the
\* times.
LEMMA TrackFailureTypes ==
    ASSUME TypeOK, NEW q, NEW loaded \in 0..MaxReports, TrackFailure(q, loaded)
    PROVE  /\ failures' \in [Queries -> 0..MaxReports]
           /\ elapsed' \subseteq elapsed
           /\ unseen' \subseteq unseen \cup {q}
<1>1. (IF loaded < MaxReports THEN loaded + 1 ELSE MaxReports) \in 0..MaxReports
  OBVIOUS
<1>2. failures' \in [Queries -> 0..MaxReports]
  BY <1>1 DEF TypeOK, TrackFailure
<1>3. elapsed' \subseteq elapsed /\ unseen' \subseteq unseen \cup {q}
  BY DEF TrackFailure, Backoff
<1> QED BY <1>2, <1>3

\* What a call of enqueue_query leaves: at most a waiting job more, of its query
\* alone, and a job without its lock only if its query is loose.
LEMMA EnqueueTypes ==
    ASSUME TypeOK, LockInv, NEW q \in Queries, NEW scheduled \in BOOLEAN,
           Enqueue(q, scheduled)
    PROVE  /\ exec' \in [Executions -> ExecutionStates]
           /\ locks' \subseteq Executions /\ loose' \subseteq Queries
           /\ starts' \in [Queries -> Nat]
           /\ LockInv'
           /\ \A p \in Queries : JobWaits(p)' => JobWaits(p) \/ (scheduled /\ p = q)
           /\ loose \subseteq loose'
           /\ \A p \in Queries : starts'[p] = 0 \/ starts'[p] = starts[p]
           /\ \A p \in Queries \ loose' : starts'[p] = starts[p]
<1>1. CASE UNCHANGED jobs
  BY <1>1 DEF TypeOK, LockInv, Live, Unguarded, JobWaits, Waiting, jobs
<1>2. CASE ~Locked(TextOf[q]) /\ ~UNCHANGED jobs
  <2> DEFINE job == [pc |-> "queued", query |-> q, scheduled |-> scheduled, loaded |-> 0]
  <2>1. PICK J \in SUBSET {x \in Executions : exec[x].pc = "free"} :
           /\ exec' = [x \in Executions |-> IF x \in J THEN job ELSE exec[x]]
           /\ UNCHANGED locks \/ \E x \in J : locks' = locks \cup {x}
           /\ NoteLoose
    BY <1>2 DEF Enqueue
  <2>2. job \in ExecutionStates
    BY DEF ExecutionStates
  <2>3. exec' \in [Executions -> ExecutionStates]
    BY <2>1, <2>2 DEF TypeOK
  <2>4. \A x \in Executions : \/ x \in J /\ exec[x].pc = "free" /\ exec'[x] = job
                              \/ x \notin J /\ exec'[x] = exec[x]
    BY <2>1
  <2>5. locks' \subseteq Executions /\ \A x \in locks' : x \in locks \/ x \in J
    BY <2>1 DEF TypeOK
  <2>6. \A x \in locks : x \notin J /\ exec'[x] = exec[x] /\ TextOf[exec[x].query] # TextOf[q]
    BY <1>2, <2>4 DEF LockInv, Live, Locked
  <2>7. locks' \subseteq Live'
    BY <2>4, <2>5, <2>6 DEF Live, LockInv
  <2>8. ASSUME NEW x \in locks', NEW y \in locks',
               TextOf[exec'[x].query] = TextOf[exec'[y].query]
        PROVE  x = y
    <3>1. CASE x \in locks /\ y \in locks
      BY <2>6, <2>8, <3>1 DEF LockInv
    <3>2. CASE x \notin locks \/ y \notin locks
      BY <2>1, <2>4, <2>6, <2>8, <3>2
    <3> QED BY <3>1, <3>2
  <2>9. /\ loose' = loose \cup Unguarded' /\ loose' \subseteq Queries
        /\ starts' = [p \in Queries |-> IF p \in loose' THEN 0 ELSE starts[p]]
    BY <2>1 DEF NoteLoose, Unguarded, TypeOK
  <2>10. LockInv'
    BY <2>4, <2>7, <2>8, <2>9 DEF LockInv
  <2>11. starts' \in [Queries -> Nat]
    BY <2>9 DEF TypeOK
  <2>12. \A p, y : Waiting(p, y)' /\ y \in Executions => Waiting(p, y) \/ (scheduled /\ p = q)
    BY <2>4 DEF Waiting
  <2> QED BY <2>3, <2>5, <2>9, <2>10, <2>11, <2>12 DEF JobWaits
<1> QED BY <1>1, <1>2 DEF Enqueue

LEMMA TypePreserved == IInv /\ [Next]_vars => TypeOK'
<1> SUFFICES ASSUME IInv, [Next]_vars PROVE TypeOK'
  OBVIOUS
<1> USE DEF IInv, TypeOK, rows, history, jobs
<1>1. ASSUME NEW q \in Queries, NEW s \in NewSchedules, SetSchedule(q, s) PROVE TypeOK'
  BY <1>1 DEF SetSchedule, Schedules
<1>2. ASSUME NEW q \in Queries, RemoveSchedule(q) PROVE TypeOK'
  BY <1>2 DEF RemoveSchedule, Schedules
<1>3. ASSUME NEW q \in Queries, ExecuteByHand(q) PROVE TypeOK'
  BY <1>3, EnqueueTypes DEF ExecuteByHand
<1>3a. ASSUME NEW x \in Executions, LoseLock(x) PROVE TypeOK'
  <2>1. loose' \subseteq Queries /\ starts' \in [Queries -> Nat] /\ locks' \subseteq Executions
    BY <1>3a DEF LoseLock, NoteLoose, Unguarded
  <2> QED BY <1>3a, <2>1 DEF LoseLock
<1>4. ASSUME NEW q \in Queries, EndPasses(q) PROVE TypeOK'
  BY <1>4 DEF EndPasses, Schedules
<1>5. ASSUME NEW q \in Queries, IntervalPasses(q) PROVE TypeOK'
  BY <1>5 DEF IntervalPasses
<1>6. ASSUME NEW x \in Executions, Start(x) PROVE TypeOK'
  <2>1. failures[exec[x].query] \in 0..MaxReports
    BY <1>6 DEF Start, LockInv
  <2>2. exec' \in [Executions -> ExecutionStates]
    <3>1. [exec[x] EXCEPT !.pc = "running", !.loaded = failures[exec[x].query]]
              \in ExecutionStates
      <4>1. exec[x] \in ExecutionStates
        OBVIOUS
      <4> HIDE DEF IInv, TypeOK
      <4> QED BY <2>1, <4>1 DEF ExecutionStates
    <3> QED BY <1>6, <3>1 DEF Start
  <2>3. starts' \in [Queries -> Nat] /\ elapsed' \subseteq Queries
    BY <1>6 DEF Start
  <2>4. unseen' \subseteq Queries
    BY <1>6 DEF Start, LockInv
  <2> QED BY <1>6, <2>2, <2>3, <2>4 DEF Start
<1>7. ASSUME NEW x \in Executions, RunEnds(x) PROVE TypeOK'
  <2>1. \A pc \in {"failed", "succeeded"} : [exec[x] EXCEPT !.pc = pc] \in ExecutionStates
    BY DEF ExecutionStates
  <2> QED BY <1>7, <2>1 DEF RunEnds
<1>8. ASSUME NEW x \in Executions, Fail(x) PROVE TypeOK'
  <2>1. exec[x].query \in Queries /\ exec[x].loaded \in 0..MaxReports
    BY <1>8 DEF Fail, LockInv, ExecutionStates
  <2>2. /\ failures' \in [Queries -> 0..MaxReports]
        /\ elapsed' \subseteq Queries /\ unseen' \subseteq Queries
    <3>1. CASE exec[x].scheduled
      <4>1. TrackFailure(exec[x].query, exec[x].loaded)
        BY <1>8, <3>1 DEF Fail
      <4>2. TypeOK /\ elapsed \subseteq Queries /\ unseen \subseteq Queries
        OBVIOUS
      <4>3. PICK q \in Queries, n \in 0..MaxReports :
               q = exec[x].query /\ n = exec[x].loaded
        BY <2>1
      <4>4. TrackFailure(q, n)
        BY <4>1, <4>3
      <4> HIDE DEF IInv, TypeOK
      <4>5. /\ failures' \in [Queries -> 0..MaxReports]
            /\ elapsed' \subseteq elapsed
            /\ unseen' \subseteq unseen \cup {q}
        BY <4>2, <4>4, TrackFailureTypes
      <4> QED BY <4>2, <4>3, <4>5
    <3>2. CASE ~exec[x].scheduled
      BY <1>8, <3>2 DEF Fail
    <3> QED BY <3>1, <3>2
  <2>3. exec' \in [Executions -> ExecutionStates]
    BY <1>8, FreeType DEF Fail
  <2> QED BY <1>8, <2>2, <2>3 DEF Fail
<1>9. ASSUME NEW x \in Executions, Succeed(x) PROVE TypeOK'
  <2>1. exec' \in [Executions -> ExecutionStates]
    BY <1>9, FreeType DEF Succeed
  <2>2. failures' \in [Queries -> 0..MaxReports]
    <3>1. 0 \in 0..MaxReports
      OBVIOUS
    <3> QED BY <1>9, <3>1 DEF Succeed
  <2> QED BY <1>9, <2>1, <2>2 DEF Succeed
<1>10. CASE PauseOrResume
  BY <1>10 DEF PauseOrResume
<1>11. ASSUME NEW r \in Refreshers, RefreshStep(r), ~EnqueueOutdated(r) PROVE TypeOK'
  <2>1. refresh[r] \in Refreshes
    OBVIOUS
  <2>2. CASE SelectScheduled(r)
    <3>1. [pc |-> "selected", open |-> {q \in Queries : schedule[q] = "open"},
           faulty |-> {q \in Queries : schedule[q] = "faulty"}, outdated |-> {},
           loaded |-> [q \in Unapplicable |-> failures[q]]] \in Refreshes
      BY DEF Refreshes
    <3> QED BY <2>2, <3>1 DEF SelectScheduled
  <2>3. CASE LookAtExecutions(r)
    <3>1. LastOfTemplate(refresh[r].open \cap elapsed) \in SUBSET Queries
      BY DEF LastOfTemplate
    <3>2. [refresh[r] EXCEPT !.pc = "looking", !.open = {},
             !.outdated = LastOfTemplate(refresh[r].open \cap elapsed)] \in Refreshes
      BY <2>1, <3>1 DEF Refreshes
    <3>3. refresh' \in [Refreshers -> Refreshes]
      BY <2>3, <3>2 DEF LookAtExecutions
    <3> QED BY <2>3, <3>3 DEF LookAtExecutions
  <2>4. CASE DisableFaulty(r)
    <3>1. [refresh[r] EXCEPT !.pc = "enqueueing"] \in Refreshes
      BY <2>1 DEF Refreshes
    <3>2. refresh' \in [Refreshers -> Refreshes]
      <4>1. CASE refresh' = [refresh EXCEPT ![r].pc = "enqueueing"]
        BY <3>1, <4>1
      <4>2. CASE \E q \in refresh[r].faulty : refresh' = [refresh EXCEPT ![r].faulty = @ \ {q}]
        <5>1. PICK q : refresh' = [refresh EXCEPT ![r].faulty = @ \ {q}]
          BY <4>2
        <5>2. [refresh[r] EXCEPT !.faulty = @ \ {q}] \in Refreshes
          BY <2>1 DEF Refreshes
        <5> QED BY <5>1, <5>2
      <4> QED BY <2>4, <4>1, <4>2 DEF DisableFaulty
    <3>3. schedule' \in [Queries -> Schedules]
      BY <2>4 DEF DisableFaulty, Schedules
    <3> QED BY <2>4, <3>2, <3>3 DEF DisableFaulty
  <2>5. CASE RefreshEnds(r)
    BY <2>5, NoRefreshType DEF RefreshEnds
  <2> QED BY <1>11, <2>2, <2>3, <2>4, <2>5 DEF RefreshStep
<1>14. ASSUME NEW r \in Refreshers, EnqueueOutdated(r) PROVE TypeOK'
  <2>1. PICK q \in refresh[r].outdated :
          /\ refresh' = [refresh EXCEPT ![r].outdated = @ \ {q}]
          /\ \/ UNCHANGED <<failures, elapsed, unseen, jobs>>
             \/ /\ q \in Unapplicable
                /\ TrackFailure(q, refresh[r].loaded[q])
                /\ UNCHANGED jobs
             \/ Enqueue(q, TRUE) /\ UNCHANGED <<failures, elapsed, unseen>>
    BY <1>14 DEF EnqueueOutdated
  <2>2. UNCHANGED <<schedule, paused, emptying, history>>
    BY <1>14 DEF EnqueueOutdated
  <2>3. q \in Queries /\ refresh[r] \in Refreshes
    BY DEF Refreshes
  <2>4. [refresh[r] EXCEPT !.outdated = @ \ {q}] \in Refreshes
    BY <2>3 DEF Refreshes
  <2>5. refresh' \in [Refreshers -> Refreshes]
    BY <2>1, <2>4
  <2>6. CASE UNCHANGED <<failures, elapsed, unseen, jobs>>
    BY <2>2, <2>5, <2>6
  <2>7. CASE q \in Unapplicable /\ TrackFailure(q, refresh[r].loaded[q]) /\ UNCHANGED jobs
    <3>1. refresh[r].loaded[q] \in 0..MaxReports
      BY <2>3, <2>7 DEF Refreshes
    <3> QED BY <2>2, <2>3, <2>5, <2>7, <3>1, TrackFailureTypes
  <2>8. CASE Enqueue(q, TRUE) /\ UNCHANGED <<failures, elapsed, unseen>>
    BY <2>2, <2>3, <2>5, <2>8, EnqueueTypes
  <2> QED BY <2>1, <2>6, <2>7, <2>8
<1>16. CASE SelectPast
  BY <1>16 DEF SelectPast
<1>17. CASE EmptySchedules
  BY <1>17 DEF EmptySchedules, Schedules
<1>18. CASE UNCHANGED vars
  BY <1>18 DEF vars
<1> QED
  BY <1>1, <1>2, <1>3, <1>3a, <1>4, <1>5, <1>6, <1>7, <1>8, <1>9, <1>10, <1>11, <1>14,
     <1>16, <1>17, <1>18
  DEF Next, UserStep, ExecutionStep, RefreshStep

\* A step that changes no job keeps what is known of locks; a job that is lost from
\* its lock, or enqueued without it, makes its query loose.
LEMMA LockPreserved == IInv /\ [Next]_vars => LockInv'
<1> SUFFICES ASSUME IInv, [Next]_vars PROVE LockInv'
  OBVIOUS
<1> USE DEF IInv, TypeOK
<1>1. CASE UNCHANGED <<exec, locks, loose>>
  BY <1>1 DEF LockInv, Live, Unguarded
<1>2. ASSUME NEW q \in Queries, ExecuteByHand(q) PROVE LockInv'
  BY <1>2, EnqueueTypes DEF ExecuteByHand
<1>3. ASSUME NEW r \in Refreshers, EnqueueOutdated(r) PROVE LockInv'
  <2>1. CASE UNCHANGED jobs
    BY <2>1, <1>1 DEF jobs
  <2>2. CASE \E q \in refresh[r].outdated : Enqueue(q, TRUE)
    BY <2>2, EnqueueTypes DEF Refreshes
  <2> QED BY <1>3, <2>1, <2>2 DEF EnqueueOutdated
<1>4. ASSUME NEW q \in Queries, IntervalPasses(q) PROVE LockInv'
  <2>1. Unguarded' = Unguarded /\ Live' = Live
    BY <1>4 DEF IntervalPasses, Unguarded, Live
  <2> QED BY <1>4, <2>1 DEF IntervalPasses, LockInv
<1>5. ASSUME NEW x \in Executions, LoseLock(x) PROVE LockInv'
  <2>1. /\ UNCHANGED exec /\ locks' \subseteq locks
        /\ loose' = loose \cup Unguarded'
    BY <1>5 DEF LoseLock, NoteLoose
  <2> QED BY <2>1 DEF LockInv, Live
<1>6. ASSUME NEW x \in Executions, Start(x) PROVE LockInv'
  <2>1. /\ exec' = [exec EXCEPT ![x] = [@ EXCEPT !.pc = "running",
                                                 !.loaded = failures[exec[x].query]]]
        /\ UNCHANGED <<locks, loose>> /\ exec[x].pc = "queued"
    BY <1>6 DEF Start
  <2>2. \A y \in Executions : /\ exec'[y].query = exec[y].query
                              /\ exec'[y].pc = IF y = x THEN "running" ELSE exec[y].pc
    BY <2>1 DEF ExecutionStates
  <2>3. Live' = Live
    BY <2>1, <2>2 DEF Live
  <2>4. Unguarded' = Unguarded
    BY <2>1, <2>2, <2>3 DEF Unguarded, Live
  <2> QED BY <2>1, <2>2, <2>3, <2>4 DEF LockInv
<1>7. ASSUME NEW x \in Executions, RunEnds(x) PROVE LockInv'
  <2>1. /\ exec[x].pc = "running" /\ UNCHANGED loose
        /\ locks' = {y \in locks : TextOf[exec[y].query] # TextOf[exec[x].query]}
    BY <1>7 DEF RunEnds
  <2>2. \A y \in Executions : /\ exec'[y].query = exec[y].query
                              /\ y # x => exec'[y].pc = exec[y].pc
                              /\ exec'[x].pc \in {"failed", "succeeded"}
    BY <1>7 DEF RunEnds, ExecutionStates
  <2>3. Live' = Live \ {x}
    BY <2>1, <2>2 DEF Live
  <2>4. locks' \subseteq Live'
    BY <2>1, <2>3 DEF LockInv
  \* If another job of the text had the lock, this one was without it.
  <2>5. ASSUME NEW q \in Queries, NEW y \in Live' \ locks', TextOf[exec[y].query] = TextOf[q]
        PROVE  q \in loose
    <3>1. y \in Live /\ y # x
      BY <2>3, <2>5
    <3>2. CASE y \notin locks
      BY <2>5, <3>1, <3>2 DEF LockInv, Unguarded
    <3>3. CASE y \in locks
      <4>1. TextOf[exec[y].query] = TextOf[exec[x].query]
        BY <2>1, <2>5, <3>3
      <4>2. x \notin locks
        BY <3>1, <3>3, <4>1 DEF LockInv
      <4>3. x \in Live
        BY <2>1 DEF Live
      <4> QED BY <2>5, <4>1, <4>2, <4>3 DEF LockInv, Unguarded
    <3> QED BY <3>2, <3>3
  <2>6. Unguarded' \subseteq loose'
    BY <2>1, <2>2, <2>5 DEF Unguarded, Live
  <2>7. \A y \in Executions : exec'[y].pc # "free" => exec'[y].query \in Queries
    BY <2>1, <2>2 DEF LockInv
  <2>8. \A y, z \in locks' : TextOf[exec'[y].query] = TextOf[exec'[z].query] => y = z
    BY <2>1, <2>2 DEF LockInv
  <2> QED BY <2>4, <2>6, <2>7, <2>8 DEF LockInv
<1>8. ASSUME NEW x \in Executions, Fail(x) \/ Succeed(x) PROVE LockInv'
  <2>1. /\ exec[x].pc \in {"failed", "succeeded"} /\ exec' = [exec EXCEPT ![x] = Free]
        /\ UNCHANGED <<locks, loose>>
    BY <1>8 DEF Fail, Succeed
  <2>2. x \notin Live
    BY <2>1 DEF Live
  <2>3. \A y \in Executions : IF y = x THEN exec'[y] = Free ELSE exec'[y] = exec[y]
    BY <2>1
  <2>4. Live' = Live
    BY <2>2, <2>3 DEF Live, Free
  <2>5. \A y \in Live : exec'[y] = exec[y]
    BY <2>2, <2>3 DEF Live
  <2>6. Unguarded' = Unguarded
    BY <2>1, <2>4, <2>5 DEF Unguarded
  <2>7. \A y \in Executions : exec'[y].pc # "free" => exec'[y].query \in Queries
    BY <2>3 DEF LockInv, Free
  <2>8. locks' \subseteq Live' /\ \A y \in locks : exec'[y] = exec[y]
    BY <2>1, <2>4, <2>5 DEF LockInv
  <2> QED BY <2>1, <2>6, <2>7, <2>8 DEF LockInv
<1> QED
  BY <1>1, <1>2, <1>3, <1>4, <1>5, <1>6, <1>7, <1>8
  DEF Next, UserStep, ExecutionStep, RefreshStep, SetSchedule, RemoveSchedule, EndPasses,
      PauseOrResume, SelectScheduled, LookAtExecutions, DisableFaulty, RefreshEnds,
      SelectPast, EmptySchedules, vars, jobs

\* The runs that will enqueue q are counted; one that takes it from its list, or
\* ends, is one less.
LEMMA PlannedCounts ==
    /\ Cardinality(Refreshers) \in Nat
    /\ \A q : Cardinality(Planned(q)) \in Nat /\ Cardinality(Planned(q)) <= Cardinality(Refreshers)
    /\ \A q : Cardinality(Planned(q)') \in Nat
              /\ Cardinality(Planned(q)') <= Cardinality(Refreshers)
    /\ \A q : Planned(q)' \subseteq Planned(q) =>
              Cardinality(Planned(q)') <= Cardinality(Planned(q))
    /\ \A q, r : r \in Planned(q) /\ Planned(q)' = Planned(q) \ {r} =>
              Cardinality(Planned(q)') = Cardinality(Planned(q)) - 1
<1>1. \A q : Planned(q) \in SUBSET Refreshers /\ Planned(q)' \in SUBSET Refreshers
  BY DEF Planned
<1>2. \A q : IsFiniteSet(Planned(q)) /\ Cardinality(Planned(q)) <= Cardinality(Refreshers)
             /\ IsFiniteSet(Planned(q)') /\ Cardinality(Planned(q)') <= Cardinality(Refreshers)
  BY <1>1, FS_Subset
<1>3. /\ Cardinality(Refreshers) \in Nat
      /\ \A q : Cardinality(Planned(q)) \in Nat /\ Cardinality(Planned(q)') \in Nat
  BY <1>2, FS_CardinalityType
<1>4. ASSUME NEW q, Planned(q)' \subseteq Planned(q)
      PROVE  Cardinality(Planned(q)') <= Cardinality(Planned(q))
  BY <1>2, <1>4, FS_Subset
<1>5. ASSUME NEW q, NEW r, r \in Planned(q), Planned(q)' = Planned(q) \ {r}
      PROVE  Cardinality(Planned(q)') = Cardinality(Planned(q)) - 1
  BY <1>2, <1>5, FS_RemoveElement
<1> QED BY <1>2, <1>3, <1>4, <1>5

\* Steps that start nothing, enqueue nothing, and find nothing due.
LEMMA BudgetKept ==
    ASSUME TypeOK, StartsInv, elapsed' \subseteq elapsed, loose \subseteq loose',
           \A q \in Queries : starts'[q] = 0 \/ starts'[q] = starts[q],
           \A q \in Queries : JobWaits(q)' => JobWaits(q),
           \A q \in Queries : Planned(q)' \subseteq Planned(q)
    PROVE  StartsInv'
<1> SUFFICES ASSUME NEW q \in Queries
             PROVE  /\ q \in elapsed' => starts'[q] = 0
                    /\ q \notin loose' => Budget(q)' <= 1 + Cardinality(Refreshers)
  BY DEF StartsInv
<1>1. q \in elapsed' => starts'[q] = 0
  BY DEF StartsInv
<1>2. ASSUME q \notin loose' PROVE Budget(q)' <= 1 + Cardinality(Refreshers)
  <2>1. Budget(q) <= 1 + Cardinality(Refreshers)
    BY <1>2 DEF StartsInv
  <2>2. starts[q] \in Nat /\ (starts'[q] = 0 \/ starts'[q] = starts[q])
    BY DEF TypeOK
  <2>3. Cardinality(Planned(q)') <= Cardinality(Planned(q))
        /\ Cardinality(Planned(q)') \in Nat /\ Cardinality(Planned(q)) \in Nat
        /\ Cardinality(Refreshers) \in Nat
    BY PlannedCounts
  <2>4. starts'[q] <= starts[q] /\ starts'[q] \in Nat
    BY <2>2
  <2>5. (IF JobWaits(q)' THEN 1 ELSE 0) <= (IF JobWaits(q) THEN 1 ELSE 0)
    OBVIOUS
  <2> QED BY <2>1, <2>2, <2>3, <2>4, <2>5 DEF Budget
<1> QED BY <1>1, <1>2

\* A start turns a waiting job into a start, an enqueued query turns what one run
\* will enqueue into a waiting job, and a run takes a query only while its interval
\* counts as elapsed.
LEMMA StartsPreserved == IInv /\ [Next]_vars => StartsInv'
<1> SUFFICES ASSUME IInv, [Next]_vars PROVE StartsInv'
  OBVIOUS
<1> USE DEF IInv
<1>0. /\ \A q \in Queries : starts[q] \in Nat
      /\ Cardinality(Refreshers) \in Nat
      /\ \A q : Cardinality(Planned(q)) \in Nat /\ Cardinality(Planned(q)') \in Nat
                /\ Cardinality(Planned(q)) <= Cardinality(Refreshers)
                /\ Cardinality(Planned(q)') <= Cardinality(Refreshers)
  BY PlannedCounts DEF TypeOK
<1>1. CASE UNCHANGED <<jobs, refresh>> /\ elapsed' \subseteq elapsed
  <2>1. \A q \in Queries : (JobWaits(q)' <=> JobWaits(q)) /\ Planned(q)' = Planned(q)
    BY <1>1 DEF JobWaits, Waiting, Planned, jobs
  <2> QED BY <1>1, <2>1, BudgetKept DEF jobs
<1>2. ASSUME NEW q \in Queries, ExecuteByHand(q) PROVE StartsInv'
  <2>1. /\ \A p \in Queries : JobWaits(p)' => JobWaits(p)
        /\ loose \subseteq loose'
        /\ \A p \in Queries : starts'[p] = 0 \/ starts'[p] = starts[p]
    BY <1>2, EnqueueTypes DEF ExecuteByHand
  <2>2. elapsed' = elapsed /\ \A p \in Queries : Planned(p)' = Planned(p)
    BY <1>2 DEF ExecuteByHand, Planned
  <2> QED BY <2>1, <2>2, BudgetKept
<1>3. ASSUME NEW q \in Queries, IntervalPasses(q) PROVE StartsInv'
  <2>1. /\ \A p \in Queries : (JobWaits(p)' <=> JobWaits(p)) /\ Planned(p)' = Planned(p)
        /\ \A p \in Queries \ {q} : /\ starts'[p] = starts[p] /\ (p \in elapsed' <=> p \in elapsed)
                                    /\ p \in loose' <=> p \in loose
        /\ starts'[q] = 0
    BY <1>3 DEF IntervalPasses, JobWaits, Waiting, Planned, TypeOK
  <2>2. Budget(q)' <= 1 + Cardinality(Refreshers)
    BY <1>0, <2>1 DEF Budget
  <2>3. \A p \in Queries \ {q} : Budget(p)' = Budget(p)
    BY <2>1 DEF Budget
  <2> QED BY <2>1, <2>2, <2>3 DEF StartsInv
<1>3a. ASSUME NEW x \in Executions, LoseLock(x) PROVE StartsInv'
  <2>1. /\ elapsed' = elapsed /\ loose \subseteq loose'
        /\ \A q \in Queries : starts'[q] = 0 \/ starts'[q] = starts[q]
        /\ \A q \in Queries : (JobWaits(q)' <=> JobWaits(q)) /\ Planned(q)' = Planned(q)
    BY <1>3a DEF LoseLock, NoteLoose, JobWaits, Waiting, Planned
  <2> QED BY <2>1, BudgetKept
<1>4. ASSUME NEW x \in Executions, Start(x) PROVE StartsInv'
  <2>0. PICK q \in Queries : q = exec[x].query
    BY <1>4 DEF Start, LockInv
  <2>1. UNCHANGED <<refresh, loose, locks>> /\ exec[x].pc = "queued"
        /\ \A p : Planned(p)' = Planned(p)
    BY <1>4 DEF Start, Planned
  <2>2. \A y \in Executions : /\ y = x => exec'[y].pc = "running"
                              /\ y # x => exec'[y] = exec[y]
    BY <1>4 DEF Start, TypeOK, ExecutionStates
  <2>3. \A p \in Queries : JobWaits(p)' => JobWaits(p)
    BY <2>2 DEF JobWaits, Waiting
  <2>4. CASE ~exec[x].scheduled \/ (exec[x].scheduled /\ q \in loose)
    <3>1. elapsed' \subseteq elapsed /\ \A p \in Queries : starts'[p] = starts[p]
      BY <1>4, <2>0, <2>4 DEF Start, TypeOK
    <3> QED BY <2>1, <2>3, <3>1, BudgetKept
  <2>5. CASE exec[x].scheduled /\ q \notin loose
    <3>1. /\ starts'[q] = starts[q] + 1 /\ q \notin elapsed'
          /\ \A p \in Queries \ {q} : starts'[p] = starts[p]
          /\ elapsed' \subseteq elapsed
      BY <1>4, <2>0, <2>5 DEF Start, TypeOK
    <3>2. JobWaits(q)
      BY <2>0, <2>1, <2>5 DEF JobWaits, Waiting
    <3>3. ASSUME NEW y \in Executions, Waiting(q, y)' PROVE FALSE
      <4>1. y # x /\ exec[y].pc = "queued" /\ exec[y].query = q
        BY <2>2, <3>3 DEF Waiting
      <4>2. x \in Live /\ y \in Live
        BY <2>1, <4>1 DEF Live
      <4>3. x \in locks /\ y \in locks
        BY <2>0, <2>5, <4>1, <4>2 DEF LockInv, Unguarded
      <4> QED BY <2>0, <4>1, <4>3 DEF LockInv
    <3>4. Budget(q)' <= 1 + Cardinality(Refreshers)
      <4>1. starts[q] + 1 + Cardinality(Planned(q)) <= 1 + Cardinality(Refreshers)
        BY <2>5, <3>2 DEF StartsInv, Budget
      <4>2. ~JobWaits(q)'
        BY <3>3 DEF JobWaits
      <4> QED BY <1>0, <2>1, <3>1, <4>1, <4>2 DEF Budget
    <3>5. ASSUME NEW p \in Queries \ {q}, p \notin loose
          PROVE  Budget(p)' <= 1 + Cardinality(Refreshers)
      <4>1. Budget(p) <= 1 + Cardinality(Refreshers)
        BY <3>5 DEF StartsInv
      <4> QED BY <1>0, <2>1, <2>3, <3>1, <4>1 DEF Budget
    <3> QED BY <2>1, <3>1, <3>4, <3>5 DEF StartsInv
  <2> QED BY <2>4, <2>5
<1>5. ASSUME NEW x \in Executions, RunEnds(x) \/ Fail(x) \/ Succeed(x) PROVE StartsInv'
  <2>1. \A p \in Queries : JobWaits(p)' => JobWaits(p)
    BY <1>5 DEF RunEnds, Fail, Succeed, Free, JobWaits, Waiting, TypeOK, ExecutionStates
  <2>2. UNCHANGED <<starts, refresh, loose>> /\ elapsed' \subseteq elapsed
    BY <1>5 DEF RunEnds, Fail, Succeed, TrackFailure, Backoff
  <2>3. \A q \in Queries : Planned(q)' = Planned(q)
    BY <2>2 DEF Planned
  <2> QED BY <2>1, <2>2, <2>3, BudgetKept
<1>6. ASSUME NEW r \in Refreshers, LookAtExecutions(r) PROVE StartsInv'
  <2>1. /\ UNCHANGED <<starts, elapsed, exec, loose>>
        /\ refresh'[r].outdated \subseteq elapsed
        /\ \A s \in Refreshers \ {r} : refresh'[s] = refresh[s]
    BY <1>6 DEF LookAtExecutions, LastOfTemplate, TypeOK, jobs, Refreshes
  <2>2. \A q \in Queries : JobWaits(q)' <=> JobWaits(q)
    BY <2>1 DEF JobWaits, Waiting
  <2>3. ASSUME NEW q \in Queries, q \notin loose
        PROVE  Budget(q)' <= 1 + Cardinality(Refreshers)
    <3>1. CASE q \in elapsed
      BY <1>0, <2>1, <3>1 DEF StartsInv, Budget
    <3>2. CASE q \notin elapsed
      <4>1. Planned(q)' \subseteq Planned(q)
        BY <2>1, <3>2 DEF Planned
      <4>2. Cardinality(Planned(q)') <= Cardinality(Planned(q))
        BY <4>1, PlannedCounts
      <4>3. Budget(q) <= 1 + Cardinality(Refreshers)
        BY <2>3 DEF StartsInv
      <4> QED BY <1>0, <2>1, <2>2, <4>2, <4>3 DEF Budget
    <3> QED BY <3>1, <3>2
  <2> QED BY <2>1, <2>3 DEF StartsInv
<1>7. ASSUME NEW r \in Refreshers, EnqueueOutdated(r) PROVE StartsInv'
  <2>1. PICK q \in refresh[r].outdated :
          /\ refresh' = [refresh EXCEPT ![r].outdated = @ \ {q}]
          /\ \/ UNCHANGED <<elapsed, jobs>>
             \/ TrackFailure(q, refresh[r].loaded[q]) /\ UNCHANGED jobs
             \/ Enqueue(q, TRUE) /\ UNCHANGED elapsed
    BY <1>7 DEF EnqueueOutdated
  <2>2. q \in Queries
    BY <2>1 DEF TypeOK, Refreshes
  <2>3. /\ refresh'[r].outdated = refresh[r].outdated \ {q}
        /\ \A s \in Refreshers \ {r} : refresh'[s] = refresh[s]
    BY <2>1 DEF TypeOK, Refreshes
  <2>4. /\ \A p \in Queries \ {q} : Planned(p)' = Planned(p)
        /\ r \in Planned(q) /\ Planned(q)' = Planned(q) \ {r}
    BY <2>1, <2>3 DEF Planned
  <2>5. elapsed' \subseteq elapsed
    BY <2>1 DEF TrackFailure, Backoff
  <2>6. CASE UNCHANGED jobs
    <3>1. \A p \in Queries : (JobWaits(p)' <=> JobWaits(p)) /\ Planned(p)' \subseteq Planned(p)
      BY <2>4, <2>6 DEF JobWaits, Waiting, jobs
    <3> QED BY <2>5, <2>6, <3>1, BudgetKept DEF jobs
  <2>7. CASE Enqueue(q, TRUE)
    <3>1. /\ \A p \in Queries : JobWaits(p)' => JobWaits(p) \/ p = q
          /\ loose \subseteq loose'
          /\ \A p \in Queries : starts'[p] = 0 \/ starts'[p] = starts[p]
          /\ \A p \in Queries \ loose' : starts'[p] = starts[p]
      BY <2>2, <2>7, EnqueueTypes
    <3>2. Cardinality(Planned(q)') = Cardinality(Planned(q)) - 1
      BY <2>4, PlannedCounts
    <3>3. ASSUME q \notin loose' PROVE Budget(q)' <= 1 + Cardinality(Refreshers)
      <4>1. Budget(q) <= 1 + Cardinality(Refreshers) /\ starts'[q] = starts[q]
        BY <2>2, <3>1, <3>3 DEF StartsInv
      <4>2. starts[q] \in Nat
        BY <1>0, <2>2
      <4>3. starts[q] + Cardinality(Planned(q)) <= 1 + Cardinality(Refreshers)
        BY <1>0, <4>1, <4>2 DEF Budget
      <4> QED BY <1>0, <3>2, <4>1, <4>2, <4>3 DEF Budget
    <3>4. ASSUME NEW p \in Queries \ {q}, p \notin loose'
          PROVE  Budget(p)' <= 1 + Cardinality(Refreshers)
      <4>1. Budget(p) <= 1 + Cardinality(Refreshers) /\ starts'[p] = starts[p]
        BY <3>1, <3>4 DEF StartsInv
      <4>2. Cardinality(Planned(p)') = Cardinality(Planned(p))
        BY <2>4
      <4>3. JobWaits(p)' => JobWaits(p)
        BY <3>1
      <4> QED BY <1>0, <4>1, <4>2, <4>3 DEF Budget
    <3> QED BY <2>5, <3>1, <3>3, <3>4 DEF StartsInv
  <2> QED BY <2>1, <2>6, <2>7
<1>8. ASSUME NEW r \in Refreshers, SelectScheduled(r) \/ DisableFaulty(r) \/ RefreshEnds(r)
      PROVE  StartsInv'
  <2>1. /\ UNCHANGED <<jobs, elapsed>>
        /\ refresh'[r].outdated \subseteq refresh[r].outdated
        /\ \A s \in Refreshers \ {r} : refresh'[s] = refresh[s]
    <3>1. refresh[r] \in Refreshes
      BY DEF TypeOK
    <3>2. CASE SelectScheduled(r)
      BY <3>1, <3>2 DEF SelectScheduled, TypeOK
    <3>3. CASE DisableFaulty(r)
      <4>1. UNCHANGED <<jobs, elapsed>>
        BY <3>3 DEF DisableFaulty
      <4>2. CASE refresh' = [refresh EXCEPT ![r].pc = "enqueueing"]
        BY <3>1, <4>1, <4>2 DEF TypeOK, Refreshes
      <4>3. CASE \E q \in refresh[r].faulty : refresh' = [refresh EXCEPT ![r].faulty = @ \ {q}]
        BY <3>1, <4>1, <4>3 DEF TypeOK, Refreshes
      <4> QED BY <3>3, <4>2, <4>3 DEF DisableFaulty
    <3>4. CASE RefreshEnds(r)
      BY <3>4 DEF RefreshEnds, NoRefresh, TypeOK
    <3> QED BY <1>8, <3>2, <3>3, <3>4
  <2>2. \A q \in Queries : (JobWaits(q)' <=> JobWaits(q)) /\ Planned(q)' \subseteq Planned(q)
    BY <2>1 DEF JobWaits, Waiting, Planned, jobs
  <2> QED BY <2>1, <2>2, BudgetKept DEF jobs
<1> QED
  BY <1>1, <1>2, <1>3, <1>3a, <1>4, <1>5, <1>6, <1>7, <1>8
  DEF Next, UserStep, ExecutionStep, RefreshStep, SetSchedule, RemoveSchedule, EndPasses,
      PauseOrResume, SelectPast, EmptySchedules, vars

\* What is written back over a removed schedule is disabled.
LEMMA RemovedPreserved == IInv /\ [Next]_vars => RemovedStaysQuiet'
<1> SUFFICES ASSUME IInv, [Next]_vars PROVE RemovedStaysQuiet'
  OBVIOUS
<1> USE DEF IInv, TypeOK, RemovedStaysQuiet
<1>1. CASE UNCHANGED <<schedule, removed>>
  BY <1>1
<1>2. ASSUME NEW q \in Queries, NEW s \in NewSchedules, SetSchedule(q, s)
      PROVE RemovedStaysQuiet'
  BY <1>2 DEF SetSchedule
<1>3. ASSUME NEW q \in Queries, RemoveSchedule(q) PROVE RemovedStaysQuiet'
  BY <1>3 DEF RemoveSchedule
<1>3a. ASSUME NEW q \in Queries, EndPasses(q) PROVE RemovedStaysQuiet'
  BY <1>3a DEF EndPasses, history
<1>4. ASSUME NEW r \in Refreshers, DisableFaulty(r) PROVE RemovedStaysQuiet'
  BY <1>4 DEF DisableFaulty, history
<1>5. CASE EmptySchedules
  BY <1>5 DEF EmptySchedules, history
<1> QED
  BY <1>1, <1>2, <1>3, <1>3a, <1>4, <1>5
  DEF Next, UserStep, ExecutionStep, RefreshStep, ExecuteByHand, IntervalPasses, Start,
      RunEnds, Fail, Succeed, PauseOrResume, SelectScheduled, LookAtExecutions,
      EnqueueOutdated, RefreshEnds, SelectPast, LoseLock, vars, rows, history

\* The types, the locks of the jobs, the budget of starts and the
\* removed schedules hold together in every reachable state.
THEOREM Invariance == Spec => []IInv
<1>1. IInv /\ [Next]_vars => IInv'
  BY TypePreserved, LockPreserved, StartsPreserved, RemovedPreserved DEF IInv
<1> QED BY InitInv, <1>1, PTL DEF Spec

\* The variables keep their types; the counts of failures stay in their bounds.
THEOREM TypeCorrect == Spec => []TypeOK
BY Invariance, PTL DEF IInv

\* However long the runs of refresh_queries take between their look at the start
\* times and enqueue_query, and however many of them overlap: in an interval in
\* which the jobs of its text have their lock, a query is started at most once for
\* each of them, and once more.
THEOREM ExtraStartsAreBoundedAlways == Spec => []ExtraStartsAreBounded
<1>1. IInv => ExtraStartsAreBounded
  <2> SUFFICES ASSUME IInv, NEW q \in Queries \ loose
               PROVE  starts[q] <= 1 + Cardinality(Refreshers)
    BY DEF ExtraStartsAreBounded
  <2>1. Budget(q) <= 1 + Cardinality(Refreshers) /\ starts[q] \in Nat
    BY DEF IInv, TypeOK, StartsInv
  <2> QED BY <2>1, PlannedCounts DEF Budget
<1> QED BY Invariance, <1>1, PTL

\* A removed schedule that is written back by outdated_queries stays disabled.
THEOREM RemovedStaysQuietAlways == Spec => []RemovedStaysQuiet
BY Invariance, PTL DEF IInv

==============================================================================
