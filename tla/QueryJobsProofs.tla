--------------------------- MODULE QueryJobsProofs ---------------------------
(***************************************************************************)
(* Theorems about QueryJobs, for any sets of requests, hashes, jobs and    *)
(* workers and any bounds.                                                 *)
(***************************************************************************)
EXTENDS QueryJobs, TLAPS

USE HashOfAssumption, NoJobAssumption, NoHashAssumption, BoundsAssumption

\* A worker that is not idle has a job, an idle one has none.
WorkerHasJob == \A w \in Workers : IF wpc[w] = "idle" THEN wjob[w] = NoJob
                                                      ELSE wjob[w] \in Jobs

LEMMA RemoveAtType ==
    ASSUME NEW q \in Seq(Jobs), NEW i \in DOMAIN q
    PROVE  RemoveAt(q, i) \in Seq(Jobs)
  BY DEF RemoveAt

LEMMA RemoveAtElements ==
    ASSUME NEW q \in Seq(Jobs), NEW n \in DOMAIN q
    PROVE  /\ DOMAIN RemoveAt(q, n) = 1..(Len(q) - 1)
           /\ \A i \in DOMAIN RemoveAt(q, n) :
                RemoveAt(q, n)[i] = q[IF i < n THEN i ELSE i + 1]
<1> DEFINE f == SubSeq(q, 1, n - 1)
           b == SubSeq(q, n + 1, Len(q))
<1>1. /\ f \in Seq(Jobs) /\ Len(f) = n - 1
      /\ \A i \in 1..(n - 1) : f[i] = q[i]
  OBVIOUS
<1>2. /\ b \in Seq(Jobs) /\ Len(b) = Len(q) - n
      /\ \A i \in 1..(Len(q) - n) : b[i] = q[n + i]
  OBVIOUS
<1> HIDE DEF f, b
<1> DEFINE g == f \o b
<1>3. /\ DOMAIN g = 1..(Len(f) + Len(b))
      /\ \A i \in 1..(Len(f) + Len(b)) : g[i] = IF i <= Len(f) THEN f[i]
                                                ELSE b[i - Len(f)]
  BY <1>1, <1>2
<1> HIDE DEF g
<1>4. Len(f) = n - 1 /\ Len(b) = Len(q) - n /\ n \in 1..Len(q) /\ Len(q) \in Nat
  BY <1>1, <1>2
<1>5. /\ DOMAIN g = 1..(Len(q) - 1)
      /\ \A i \in 1..(Len(q) - 1) : g[i] = IF i <= n - 1 THEN f[i] ELSE b[i - (n - 1)]
  <2>1. Len(f) + Len(b) = Len(q) - 1
    BY <1>4
  <2>2. QED
    BY <1>3, <1>4, <2>1
<1>6. ASSUME NEW i \in 1..(Len(q) - 1), i < n PROVE g[i] = q[i]
  BY <1>1, <1>4, <1>5, <1>6
<1>7. ASSUME NEW i \in 1..(Len(q) - 1), ~(i < n) PROVE g[i] = q[i + 1]
  <2>1. i - (n - 1) \in 1..(Len(q) - n) /\ n + (i - (n - 1)) = i + 1
    BY <1>4, <1>7
  <2>2. g[i] = b[i - (n - 1)]
    BY <1>4, <1>5, <1>7
  <2>3. QED
    BY <1>2, <2>1, <2>2
<1>8. RemoveAt(q, n) = g
  BY DEF RemoveAt, f, b, g
<1>9. QED
  BY <1>5, <1>6, <1>7, <1>8

LEMMA TypePreserved == TypeOK /\ WorkerHasJob /\ [Next]_vars => TypeOK'
<1> SUFFICES ASSUME TypeOK, WorkerHasJob, [Next]_vars PROVE TypeOK'
  OBVIOUS
<1> USE DEF TypeOK, WorkerHasJob, rqVars, reqVars, history, workerVars, DeleteLock, HorseMoves,
            LeaveJob, ReturnFromJob, CleanupRegistry, SweepUnchanged, MaybeJob, Over,
            Statuses, RequestPCs, HorseAlive, WorkerPCs, SweepPCs, NoSweep, Queued,
            LockKey
<1>1. ASSUME NEW r \in Requests, Watch(r) PROVE TypeOK'
  BY <1>1 DEF Watch
<1>2. ASSUME NEW r \in Requests, LeaveLoop(r) \/ AnswerAtOnce(r) PROVE TypeOK'
  <2>1. rpc' \in [Requests -> RequestPCs]
    <3>1. ASSUME NEW pc \in RequestPCs, rpc' = [rpc EXCEPT ![r] = pc]
          PROVE  rpc' \in [Requests -> RequestPCs]
      BY <3>1
    <3>2. CASE LeaveLoop(r)
      BY <3>1, <3>2 DEF LeaveLoop
    <3>3. CASE AnswerAtOnce(r)
      <4>1. CASE rpc' = [rpc EXCEPT ![r] = "refused"]
        BY <3>1, <4>1
      <4>2. CASE rpc' = [rpc EXCEPT ![r] = "cached"]
        BY <3>1, <4>2
      <4> QED BY <3>3, <4>1, <4>2 DEF AnswerAtOnce
    <3> QED BY <1>2, <3>2, <3>3
  <2>2. UNCHANGED <<lock, rqVars, stored, tries, rjob, seen, history, dirty, workerVars,
                    sweep, crashes>>
    BY <1>2 DEF LeaveLoop, AnswerAtOnce
  <2> QED BY <2>1, <2>2
<1>3. ASSUME NEW r \in Requests, GetLock(r) PROVE TypeOK'
  BY <1>3 DEF GetLock
<1>4. ASSUME NEW r \in Requests, FetchJob(r) \/ ReadStatus(r) PROVE TypeOK'
  <2>1. ASSUME FetchJob(r) PROVE TypeOK'
    <3>1. rpc' \in [Requests -> RequestPCs] /\ seen' \in [Requests -> MaybeJob]
      <4>1. CASE FetchSaysIrrelevant(seen[r])
        BY <2>1, <4>1 DEF FetchJob
      <4>2. CASE ~FetchSaysIrrelevant(seen[r])
        BY <2>1, <4>2 DEF FetchJob
      <4> QED BY <4>1, <4>2
    <3>2. UNCHANGED <<lock, rqVars, stored, tries, rjob, history, dirty, workerVars, sweep,
                      crashes>>
      BY <2>1 DEF FetchJob
    <3> QED BY <3>1, <3>2
  <2>2. ASSUME ReadStatus(r) PROVE TypeOK'
    <3>1. /\ rpc' \in [Requests -> RequestPCs] /\ rjob' \in [Requests -> MaybeJob]
          /\ dirty' \in SUBSET Requests
      <4>1. CASE StatusSaysIrrelevant(seen[r])
        BY <2>2, <4>1 DEF ReadStatus
      <4>2. CASE ~StatusSaysIrrelevant(seen[r])
        BY <2>2, <4>2 DEF ReadStatus
      <4> QED BY <4>1, <4>2
    <3>2. seen' \in [Requests -> MaybeJob]
      BY <2>2 DEF ReadStatus
    <3>3. UNCHANGED <<lock, rqVars, stored, tries, history, workerVars, sweep, crashes>>
      BY <2>2 DEF ReadStatus
    <3> QED BY <3>1, <3>2, <3>3
  <2> QED BY <1>4, <2>1, <2>2
<1>5. ASSUME NEW r \in Requests, DropLock(r) PROVE TypeOK'
  BY <1>5 DEF DropLock, Watchers
<1>6. ASSUME NEW r \in Requests, EnqueueJob(r) PROVE TypeOK'
  BY <1>6 DEF EnqueueJob
<1>7. ASSUME NEW r \in Requests, ExecSetLock(r) PROVE TypeOK'
  <2>1. Unlocked(rjob[r]) => rjob[r] \in Jobs
    BY DEF Unlocked
  <2> QED BY <1>7, <2>1 DEF ExecSetLock, Watchers
<1>8. ASSUME NEW r \in Requests, ExecFails(r) PROVE TypeOK'
  BY <1>8 DEF ExecFails
<1>9. ASSUME NEW w \in Workers, Dequeue(w) PROVE TypeOK'
  BY <1>9 DEF Dequeue
<1>10. ASSUME NEW w \in Workers, StartJob(w) PROVE TypeOK'
  BY <1>10 DEF StartJob
<1>11. ASSUME NEW w \in Workers, QueryEnds(w) PROVE TypeOK'
  BY <1>11 DEF QueryEnds
<1>12. ASSUME NEW w \in Workers, Unlock(w) PROVE TypeOK'
  BY <1>12 DEF Unlock, Watchers
<1>13. ASSUME NEW w \in Workers, StoreResult(w) PROVE TypeOK'
  BY <1>13 DEF StoreResult
<1>14. ASSUME NEW w \in Workers, HorseRaises(w) PROVE TypeOK'
  BY <1>14 DEF HorseRaises
<1>15. ASSUME NEW w \in Workers, HorseInterrupted(w) PROVE TypeOK'
  <2>1. CASE HorseMoves(w, "ran", FALSE)
    BY <2>1
  <2>2. CASE HorseMoves(w, "raised", FALSE)
    BY <2>2
  <2>3. QED
    BY <1>15, <2>1, <2>2 DEF HorseInterrupted
<1>16. ASSUME NEW w \in Workers, FinishJob(w) PROVE TypeOK'
  BY <1>16 DEF FinishJob
<1>17. ASSUME NEW w \in Workers, FailJob(w) PROVE TypeOK'
  BY <1>17 DEF FailJob
<1>18. ASSUME NEW w \in Workers, HardLimitKill(w) PROVE TypeOK'
  BY <1>18 DEF HardLimitKill, HorseDies
<1>19. ASSUME NEW w \in Workers, HorseCrashes(w) PROVE TypeOK'
  BY <1>19 DEF HorseCrashes
<1>20. ASSUME NEW w \in Workers, ReapHorse(w) PROVE TypeOK'
  <2>1. PICK s \in Statuses : LeaveJob(w, s)
    BY <1>20 DEF ReapHorse
  <2>2. QED
    BY <1>20, <2>1 DEF ReapHorse
<1>21. ASSUME NEW w \in Workers, WorkerCrashes(w) PROVE TypeOK'
  BY <1>21 DEF WorkerCrashes
<1>22. ASSUME NEW j \in Jobs, TimeLimitPasses(j) PROVE TypeOK'
  BY <1>22 DEF TimeLimitPasses
<1>23. ASSUME NEW j \in Jobs, JobExpires(j) PROVE TypeOK'
  BY <1>23 DEF JobExpires
<1>24. ASSUME NEW j \in Jobs, CancelMark(j) PROVE TypeOK'
  BY <1>24 DEF CancelMark
<1>25. ASSUME NEW j \in Jobs, CancelRemove(j) PROVE TypeOK'
  <2>1. ASSUME NEW i \in DOMAIN queue PROVE RemoveAt(queue, i) \in Seq(Jobs)
    BY RemoveAtType
  <2>2. QED
    BY <1>25, <2>1 DEF CancelRemove
<1>26. ASSUME NEW h \in Hashes, LockExpires(h) PROVE TypeOK'
  BY <1>26 DEF LockExpires
<1>27. CASE RegistryMaintenance
  BY <1>27 DEF RegistryMaintenance
<1>28. CASE SweepKeys
  BY <1>28 DEF SweepKeys
<1>29. CASE SweepGet
  <2>1. PICK h \in sweep.todo :
          sweep' = [sweep EXCEPT !.locks[h] = lock[h], !.todo = @ \ {h},
                                 !.pc = IF sweep.todo = {h} THEN "started" ELSE "get"]
    BY <1>29 DEF SweepGet
  <2>2. lock[h] \in MaybeJob
    OBVIOUS
  <2>3. [sweep.locks EXCEPT ![h] = lock[h]] \in [Hashes -> MaybeJob]
    BY <2>2
  <2>4. sweep' \in [pc : SweepPCs, keys : SUBSET Hashes, todo : SUBSET Hashes,
                    locks : [Hashes -> MaybeJob], ids : SUBSET Jobs]
    BY <2>1, <2>3
  <2>5. QED
    BY <1>29, <2>4 DEF SweepGet
<1>30. CASE SweepStarted
  BY <1>30 DEF SweepStarted
<1>31. CASE SweepQueued
  BY <1>31 DEF SweepQueued
<1>32. CASE SweepDelete
  <2>1. PICK h \in sweep.todo :
          /\ DeleteLock(h)
          /\ sweep' = IF sweep.todo = {h} THEN NoSweep
                      ELSE [sweep EXCEPT !.todo = @ \ {h}]
    BY <1>32 DEF SweepDelete
  <2>2. lock' \in [Hashes -> MaybeJob] /\ dirty' \in SUBSET Requests
    BY <2>1 DEF Watchers
  <2>3. sweep' \in [pc : SweepPCs, keys : SUBSET Hashes, todo : SUBSET Hashes,
                    locks : [Hashes -> MaybeJob], ids : SUBSET Jobs]
    BY <2>1
  <2>4. QED
    BY <1>32, <2>2, <2>3 DEF SweepDelete
<1>33. CASE UNCHANGED vars
  BY <1>33 DEF vars
<1>34. QED
  BY <1>1, <1>2, <1>3, <1>4, <1>5, <1>6, <1>7, <1>8, <1>9, <1>10,
     <1>11, <1>12, <1>13, <1>14, <1>15, <1>16, <1>17, <1>18, <1>19,
     <1>20, <1>21, <1>22, <1>23, <1>24, <1>25, <1>26, <1>27, <1>28,
     <1>29, <1>30, <1>31, <1>32, <1>33
  DEF Next, RequestStep, WorkerStep, JobStep, Sweep

LEMMA WorkerHasJobPreserved == TypeOK /\ WorkerHasJob /\ [Next]_vars => WorkerHasJob'
<1> SUFFICES ASSUME TypeOK, WorkerHasJob, [Next]_vars PROVE WorkerHasJob'
  OBVIOUS
<1> USE DEF TypeOK, WorkerHasJob, HorseMoves, LeaveJob, HorseAlive, workerVars
<1>1. ASSUME NEW r \in Requests, RequestStep(r) PROVE WorkerHasJob'
  BY <1>1 DEF RequestStep, Watch, LeaveLoop, AnswerAtOnce, GetLock, FetchJob,
              ReadStatus, DropLock, EnqueueJob, ExecSetLock, ExecFails
<1>2. ASSUME NEW w \in Workers, Dequeue(w) PROVE WorkerHasJob'
  BY <1>2 DEF Dequeue
<1>3. ASSUME NEW w \in Workers, WorkerStep(w), ~Dequeue(w) PROVE WorkerHasJob'
  \* What a step of w does to wpc and wjob is all that matters.
  <2>1. ASSUME NEW pc \in WorkerPCs, pc # "idle", wpc[w] # "idle",
               wpc' = [wpc EXCEPT ![w] = pc], wjob' = wjob
        PROVE  WorkerHasJob'
    BY <2>1
  <2>2. ASSUME wpc' = [wpc EXCEPT ![w] = "idle"], wjob' = [wjob EXCEPT ![w] = NoJob]
        PROVE  WorkerHasJob'
    BY <2>2
  <2>3. CASE StartJob(w) \/ QueryEnds(w) \/ Unlock(w) \/ StoreResult(w)
    BY <2>1, <2>3 DEF StartJob, QueryEnds, Unlock, StoreResult, WorkerPCs
  <2>4. CASE HorseRaises(w) \/ HorseInterrupted(w) \/ HardLimitKill(w) \/ HorseCrashes(w)
    BY <2>1, <2>4 DEF HorseRaises, HorseInterrupted, HardLimitKill, HorseDies, HorseCrashes,
                      WorkerPCs
  <2>5. CASE FinishJob(w) \/ FailJob(w) \/ ReapHorse(w) \/ WorkerCrashes(w)
    BY <2>2, <2>5 DEF FinishJob, ReturnFromJob, FailJob, ReapHorse, WorkerCrashes
  <2> QED BY <1>3, <2>3, <2>4, <2>5 DEF WorkerStep
<1>4. ASSUME NEW j \in Jobs, JobStep(j) PROVE WorkerHasJob'
  BY <1>4 DEF JobStep, TimeLimitPasses, JobExpires, CancelMark, CancelRemove
<1>5. ASSUME NEW h \in Hashes, LockExpires(h) PROVE WorkerHasJob'
  BY <1>5 DEF LockExpires
<1>6. CASE RegistryMaintenance \/ Sweep
  BY <1>6 DEF RegistryMaintenance, Sweep, SweepKeys, SweepGet, SweepStarted,
              SweepQueued, SweepDelete, SweepUnchanged
<1>7. CASE UNCHANGED vars
  BY <1>7 DEF vars
<1>8. QED
  BY <1>1, <1>2, <1>3, <1>4, <1>5, <1>6, <1>7 DEF Next

\* Every variable of QueryJobs keeps to its type (TypeOK), in every execution.
THEOREM TypeCorrect == Spec => [](TypeOK /\ WorkerHasJob)
<1>1. Init => TypeOK /\ WorkerHasJob
  BY DEF Init, TypeOK, WorkerHasJob, MaybeJob, Statuses, RequestPCs, WorkerPCs, NoSweep,
         SweepPCs
<1>2. TypeOK /\ WorkerHasJob /\ [Next]_vars => (TypeOK /\ WorkerHasJob)'
  BY TypePreserved, WorkerHasJobPreserved
<1>3. QED
  BY <1>1, <1>2, PTL DEF Spec

------------------------------------------------------------------------------
(***************************************************************************)
(* Where a job is.  OneRunner alone is not inductive: that a popped job    *)
(* cannot be finished under its worker needs the statuses of the queued,   *)
(* popped and registered jobs.                                             *)
(***************************************************************************)
QueueInv ==
    /\ \A i, k \in DOMAIN queue : queue[i] = queue[k] => i = k
    /\ \A i \in DOMAIN queue : status[queue[i]] = "queued"
    /\ \A w \in Workers : wpc[w] # "idle" =>
         /\ \A i \in DOMAIN queue : queue[i] # wjob[w]
         /\ status[wjob[w]] # "none"
         /\ wpc[w] = "popped" => status[wjob[w]] = "queued"
    /\ \A v, w \in Workers : wpc[v] # "idle" /\ wjob[v] = wjob[w] => v = w
    /\ \A j \in registry : status[j] \notin {"none", "queued"}

\* Steps that leave the queue, the statuses and the workers' jobs alone.
LEMMA QueueInvFrame ==
    ASSUME TypeOK, WorkerHasJob, QueueInv, UNCHANGED <<queue, status, wjob>>,
           registry' \subseteq registry,
           \A w \in Workers : /\ wpc'[w] = "idle" <=> wpc[w] = "idle"
                              /\ wpc'[w] = "popped" => wpc[w] = "popped"
    PROVE  QueueInv'
  BY DEF TypeOK, WorkerHasJob, QueueInv

LEMMA QueueInvPreserved ==
    TypeOK /\ WorkerHasJob /\ QueueInv /\ [Next]_vars => QueueInv'
<1> SUFFICES ASSUME TypeOK, WorkerHasJob, QueueInv, [Next]_vars PROVE QueueInv'
  OBVIOUS
<1> USE DEF rqVars, workerVars, HorseMoves, HorseAlive
<1>1. ASSUME NEW r \in Requests, RequestStep(r), ~EnqueueJob(r) PROVE QueueInv'
  BY <1>1, QueueInvFrame DEF RequestStep, Watch, LeaveLoop, AnswerAtOnce, GetLock, FetchJob,
       ReadStatus, DropLock, ExecSetLock, ExecFails
<1>2. ASSUME NEW r \in Requests, EnqueueJob(r) PROVE QueueInv'
  <2>1. PICK j \in Jobs : /\ status[j] = "none"
                          /\ status' = [status EXCEPT ![j] = "queued"]
                          /\ queue' = Append(queue, j)
    BY <1>2 DEF EnqueueJob
  <2>2. UNCHANGED <<wpc, wjob, registry>>
    BY <1>2 DEF EnqueueJob
  <2>3. \A i \in DOMAIN queue : queue[i] # j
    BY <2>1 DEF QueueInv
  <2>4. /\ DOMAIN queue' = 1..(Len(queue) + 1)
        /\ \A i \in DOMAIN queue' : queue'[i] = IF i \in DOMAIN queue THEN queue[i] ELSE j
    BY <2>1 DEF TypeOK
  <2>5. QED
    BY <2>1, <2>2, <2>3, <2>4 DEF QueueInv, TypeOK, WorkerHasJob
<1>3. ASSUME NEW w \in Workers, Dequeue(w) PROVE QueueInv'
  <2>1. /\ queue # <<>>
        /\ queue' = Tail(queue)
        /\ wjob' = [wjob EXCEPT ![w] = Head(queue)]
        /\ wpc' = [wpc EXCEPT ![w] = "popped"]
        /\ UNCHANGED <<status, registry>>
    BY <1>3 DEF Dequeue
  <2>2. /\ DOMAIN queue' = 1..(Len(queue) - 1)
        /\ \A i \in DOMAIN queue' : i + 1 \in DOMAIN queue /\ queue'[i] = queue[i + 1]
        /\ 1 \in DOMAIN queue /\ Head(queue) = queue[1]
    BY <2>1 DEF TypeOK
  <2>3. wpc[w] = "idle"
    BY <1>3 DEF Dequeue
  <2>4. \A i \in DOMAIN queue' : queue'[i] # queue[1]
    BY <2>2 DEF QueueInv, TypeOK
  <2>5. \A i, k \in DOMAIN queue' : queue'[i] = queue'[k] => i = k
    BY <2>2 DEF QueueInv, TypeOK
  <2>6. QED
    BY <2>1, <2>2, <2>3, <2>4, <2>5 DEF QueueInv, TypeOK, WorkerHasJob
<1>4. ASSUME NEW w \in Workers, StartJob(w) PROVE QueueInv'
  BY <1>4 DEF StartJob, QueueInv, TypeOK, WorkerHasJob
<1>5. ASSUME NEW w \in Workers,
             \/ QueryEnds(w) \/ Unlock(w) \/ StoreResult(w) \/ HorseRaises(w)
             \/ HorseInterrupted(w) \/ HardLimitKill(w) \/ HorseCrashes(w)
      PROVE QueueInv'
  BY <1>5, QueueInvFrame DEF QueryEnds, Unlock, StoreResult, HorseRaises,
       HorseInterrupted, HardLimitKill, HorseDies, HorseCrashes, TypeOK
<1>6. ASSUME NEW w \in Workers, NEW s \in Over, wpc[w] # "idle", LeaveJob(w, s)
      PROVE QueueInv'
  BY <1>6 DEF LeaveJob, Over, QueueInv, TypeOK, WorkerHasJob
<1>7. ASSUME NEW w \in Workers, FinishJob(w) \/ FailJob(w) \/ ReapHorse(w)
      PROVE QueueInv'
  BY <1>6, <1>7 DEF FinishJob, ReturnFromJob, FailJob, ReapHorse, Over
<1>8. ASSUME NEW w \in Workers, WorkerCrashes(w) PROVE QueueInv'
  BY <1>8 DEF WorkerCrashes, QueueInv, TypeOK, WorkerHasJob
<1>9. ASSUME NEW j \in Jobs, TimeLimitPasses(j) \/ CancelMark(j) PROVE QueueInv'
  BY <1>9, QueueInvFrame DEF TimeLimitPasses, CancelMark
<1>10. ASSUME NEW j \in Jobs, JobExpires(j) PROVE QueueInv'
  BY <1>10 DEF JobExpires, Held, QueueInv, TypeOK, WorkerHasJob
<1>11. ASSUME NEW j \in Jobs, CancelRemove(j) PROVE QueueInv'
  <2>1. CASE UNCHANGED queue
    BY <1>11, <2>1, QueueInvFrame DEF CancelRemove
  <2>2. ASSUME NEW n \in DOMAIN queue, queue' = RemoveAt(queue, n) PROVE QueueInv'
    <3>1. UNCHANGED <<status, wpc, wjob, registry>>
      BY <1>11 DEF CancelRemove
    <3>2. /\ DOMAIN queue' = 1..(Len(queue) - 1)
          /\ \A i \in DOMAIN queue' : queue'[i] = queue[IF i < n THEN i ELSE i + 1]
      BY <2>2, RemoveAtElements DEF TypeOK
    <3>3. \A i \in DOMAIN queue' : (IF i < n THEN i ELSE i + 1) \in DOMAIN queue
      BY <3>2 DEF TypeOK
    <3>4. \A i, k \in DOMAIN queue' : queue'[i] = queue'[k] => i = k
      BY <3>2, <3>3 DEF QueueInv, TypeOK
    <3>5. \A i \in DOMAIN queue' : \E k \in DOMAIN queue : queue'[i] = queue[k]
      BY <3>2, <3>3
    <3>6. QED
      BY <3>1, <3>4, <3>5 DEF QueueInv, TypeOK, WorkerHasJob
  <2>3. QED
    BY <1>11, <2>1, <2>2 DEF CancelRemove
<1>12. ASSUME NEW h \in Hashes, LockExpires(h) PROVE QueueInv'
  BY <1>12, QueueInvFrame DEF LockExpires
<1>13. ASSUME CleanupRegistry, UNCHANGED <<queue, wpc, wjob>> PROVE QueueInv'
  BY <1>13 DEF CleanupRegistry, QueueInv, TypeOK, WorkerHasJob
<1>14. CASE RegistryMaintenance \/ SweepStarted
  BY <1>13, <1>14 DEF RegistryMaintenance, SweepStarted, SweepUnchanged
<1>15. CASE SweepKeys \/ SweepGet \/ SweepQueued \/ SweepDelete
  BY <1>15, QueueInvFrame DEF SweepKeys, SweepGet, SweepQueued, SweepDelete,
       SweepUnchanged
<1>16. CASE UNCHANGED vars
  BY <1>16, QueueInvFrame DEF vars
<1>17. QED
  BY <1>1, <1>2, <1>3, <1>4, <1>5, <1>7, <1>8, <1>9, <1>10, <1>11, <1>12, <1>14, <1>15,
     <1>16 DEF Next, RequestStep, WorkerStep, JobStep, Sweep

------------------------------------------------------------------------------
(***************************************************************************)
(* What happens to the statuses and to the cancelled marks.                *)
(***************************************************************************)
\* A job id is never new again, a job that is over stays over, and what finished or
\* failed does nothing but expire.
LEMMA StatusSteps ==
    ASSUME TypeOK, WorkerHasJob, QueueInv, [Next]_vars
    PROVE  \A j \in Jobs :
             /\ status[j] # "none" => status'[j] # "none"
             /\ status[j] \in Over => status'[j] \in Over
             /\ StatusSaysIrrelevant(j) => StatusSaysIrrelevant(j)' \/ JobExpires(j)
<1> USE DEF StatusSaysIrrelevant
<1> DEFINE Kept == \A j \in Jobs :
                     /\ status[j] # "none" => status'[j] # "none"
                     /\ status[j] \in Over => status'[j] \in Over
                     /\ StatusSaysIrrelevant(j) => StatusSaysIrrelevant(j)' \/ JobExpires(j)
<1>1. ASSUME NEW r \in Requests, RequestStep(r) PROVE Kept
  BY <1>1 DEF RequestStep, Watch, LeaveLoop, AnswerAtOnce, GetLock, FetchJob,
              ReadStatus, DropLock, EnqueueJob,
              ExecSetLock, ExecFails, rqVars, TypeOK, Over
<1>2. ASSUME NEW w \in Workers, Dequeue(w) \/ StartJob(w) PROVE Kept
  BY <1>2 DEF Dequeue, StartJob, Over, QueueInv, TypeOK
<1>3. ASSUME NEW w \in Workers,
             \/ QueryEnds(w) \/ Unlock(w) \/ StoreResult(w) \/ HorseRaises(w)
             \/ HorseInterrupted(w) \/ HardLimitKill(w) \/ HorseCrashes(w)
             \/ WorkerCrashes(w)
      PROVE  Kept
  BY <1>3 DEF QueryEnds, Unlock, StoreResult, HorseRaises, HorseInterrupted,
       HardLimitKill, HorseDies, HorseMoves, HorseCrashes, WorkerCrashes, rqVars
<1>4. ASSUME NEW w \in Workers, NEW s \in Over, LeaveJob(w, s),
             s # "expired" \/ s = status[wjob[w]]
      PROVE  Kept
  BY <1>4 DEF LeaveJob, Over, TypeOK
<1>5. ASSUME NEW w \in Workers, FinishJob(w) \/ FailJob(w) \/ ReapHorse(w) PROVE Kept
  BY <1>4, <1>5 DEF FinishJob, ReturnFromJob, FailJob, ReapHorse, Over
<1>6. ASSUME NEW j \in Jobs, JobStep(j) PROVE Kept
  BY <1>6 DEF JobStep, TimeLimitPasses, JobExpires, CancelMark, CancelRemove, Over, TypeOK
<1>7. ASSUME NEW h \in Hashes, LockExpires(h) PROVE Kept
  BY <1>7 DEF LockExpires, rqVars
<1>8. ASSUME CleanupRegistry PROVE Kept
  BY <1>8 DEF CleanupRegistry, Over
<1>9. CASE RegistryMaintenance \/ Sweep
  BY <1>8, <1>9 DEF RegistryMaintenance, Sweep, SweepKeys, SweepGet, SweepStarted,
       SweepQueued, SweepDelete
<1>10. CASE UNCHANGED vars
  BY <1>10 DEF vars, rqVars
<1>11. QED
  BY <1>1, <1>2, <1>3, <1>5, <1>6, <1>7, <1>9, <1>10 DEF Next, WorkerStep

\* Only existing jobs are marked as cancelled, and the mark stays.
CancelInv == /\ \A j \in cancelled : status[j] # "none"
             /\ cancelling \subseteq cancelled
             /\ CancelledNotQueued

\* The variables the cancellations change are changed by nothing else.
LEMMA CancelFrame ==
    ASSUME [Next]_vars
    PROVE  \/ \E j \in Jobs : CancelMark(j) \/ CancelRemove(j)
           \/ UNCHANGED <<cancelled, cancelling>>
<1> USE DEF rqVars, HorseMoves, LeaveJob
<1>1. ASSUME NEW r \in Requests, RequestStep(r) PROVE UNCHANGED <<cancelled, cancelling>>
  BY <1>1 DEF RequestStep, Watch, LeaveLoop, AnswerAtOnce, GetLock, FetchJob,
              ReadStatus, DropLock, EnqueueJob, ExecSetLock, ExecFails
<1>2. ASSUME NEW w \in Workers, WorkerStep(w) PROVE UNCHANGED <<cancelled, cancelling>>
  BY <1>2 DEF WorkerStep, Dequeue, StartJob, QueryEnds, Unlock, StoreResult, HorseRaises,
       HorseInterrupted, FinishJob, ReturnFromJob, FailJob, HardLimitKill, HorseDies,
       HorseCrashes, ReapHorse, WorkerCrashes
<1>3. ASSUME NEW j \in Jobs, TimeLimitPasses(j) \/ JobExpires(j)
      PROVE  UNCHANGED <<cancelled, cancelling>>
  BY <1>3 DEF TimeLimitPasses, JobExpires
<1>4. ASSUME NEW h \in Hashes, LockExpires(h) PROVE UNCHANGED <<cancelled, cancelling>>
  BY <1>4 DEF LockExpires
<1>5. CASE RegistryMaintenance \/ Sweep
  BY <1>5 DEF RegistryMaintenance, Sweep, SweepKeys, SweepGet, SweepStarted, SweepQueued,
       SweepDelete, SweepUnchanged
<1>6. CASE UNCHANGED vars
  BY <1>6 DEF vars
<1>7. QED
  BY <1>1, <1>2, <1>3, <1>4, <1>5, <1>6 DEF Next, JobStep

\* A job enters the queue only when it is created.
LEMMA QueueGrows ==
    ASSUME TypeOK, WorkerHasJob, [Next]_vars
    PROVE  \A j \in Jobs : j \in Queued' => j \in Queued \/ status[j] = "none"
<1> DEFINE Grown == \A j \in Jobs : j \in Queued' => j \in Queued \/ status[j] = "none"
<1> USE DEF rqVars, HorseMoves, LeaveJob, Queued, ToSet
<1>1. ASSUME NEW r \in Requests, RequestStep(r), ~EnqueueJob(r) PROVE Grown
  BY <1>1 DEF RequestStep, Watch, LeaveLoop, AnswerAtOnce, GetLock, FetchJob,
              ReadStatus, DropLock, ExecSetLock, ExecFails
<1>2. ASSUME NEW r \in Requests, EnqueueJob(r) PROVE Grown
  <2>1. PICK j \in Jobs : status[j] = "none" /\ queue' = Append(queue, j)
    BY <1>2 DEF EnqueueJob
  <2>2. queue \in Seq(Jobs)
    BY DEF TypeOK
  <2>3. \A i \in DOMAIN queue' : IF i \in DOMAIN queue THEN queue'[i] = queue[i]
                                                       ELSE queue'[i] = j
    BY <2>1, <2>2
  <2>4. QED
    BY <2>1, <2>3
<1>3. ASSUME NEW w \in Workers, Dequeue(w) PROVE Grown
  <2>1. queue # <<>> /\ queue' = Tail(queue)
    BY <1>3 DEF Dequeue
  <2>2. \A i \in DOMAIN queue' : i + 1 \in DOMAIN queue /\ queue'[i] = queue[i + 1]
    BY <2>1 DEF TypeOK
  <2>3. QED
    BY <2>2
<1>4. ASSUME NEW w \in Workers, WorkerStep(w), ~Dequeue(w) PROVE Grown
  BY <1>4 DEF WorkerStep, StartJob, QueryEnds, Unlock, StoreResult, HorseRaises,
       HorseInterrupted, FinishJob, ReturnFromJob, FailJob, HardLimitKill, HorseDies,
       HorseCrashes, ReapHorse, WorkerCrashes
<1>5. ASSUME NEW j \in Jobs, TimeLimitPasses(j) \/ JobExpires(j) \/ CancelMark(j)
      PROVE  Grown
  BY <1>5 DEF TimeLimitPasses, JobExpires, CancelMark
<1>6. ASSUME NEW j \in Jobs, CancelRemove(j) PROVE Grown
  <2>1. ASSUME NEW n \in DOMAIN queue, queue' = RemoveAt(queue, n) PROVE Grown
    <3>1. \A i \in DOMAIN queue' : /\ queue'[i] = queue[IF i < n THEN i ELSE i + 1]
                                   /\ (IF i < n THEN i ELSE i + 1) \in DOMAIN queue
      BY <2>1, RemoveAtElements DEF TypeOK
    <3>2. QED
      BY <3>1
  <2>2. QED
    BY <1>6, <2>1 DEF CancelRemove
<1>7. ASSUME NEW h \in Hashes, LockExpires(h) PROVE Grown
  BY <1>7 DEF LockExpires
<1>8. CASE RegistryMaintenance \/ Sweep
  BY <1>8 DEF RegistryMaintenance, Sweep, SweepKeys, SweepGet, SweepStarted, SweepQueued,
       SweepDelete, SweepUnchanged
<1>9. CASE UNCHANGED vars
  BY <1>9 DEF vars
<1>10. QED
  BY <1>1, <1>2, <1>3, <1>4, <1>5, <1>6, <1>7, <1>8, <1>9 DEF Next, JobStep

LEMMA CancelInvPreserved ==
    ASSUME TypeOK, WorkerHasJob, QueueInv, CancelInv, [Next]_vars
    PROVE  CancelInv'
<1> USE DEF CancelInv, CancelledNotQueued
<1>1. ASSUME UNCHANGED <<cancelled, cancelling>> PROVE CancelInv'
  BY <1>1, StatusSteps, QueueGrows DEF TypeOK
<1>2. ASSUME NEW j \in Jobs, CancelMark(j) PROVE CancelInv'
  BY <1>2 DEF CancelMark, Queued, TypeOK
<1>3. ASSUME NEW j \in Jobs, CancelRemove(j) PROVE CancelInv'
  <2>1. j \notin Queued'
    <3>1. ASSUME NEW n \in DOMAIN queue, queue[n] = j, queue' = RemoveAt(queue, n)
          PROVE  j \notin Queued'
      <4>1. \A i \in DOMAIN queue' : /\ queue'[i] = queue[IF i < n THEN i ELSE i + 1]
                                     /\ (IF i < n THEN i ELSE i + 1) \in DOMAIN queue
                                     /\ (IF i < n THEN i ELSE i + 1) # n
        BY <3>1, RemoveAtElements DEF TypeOK
      <4>2. QED
        BY <3>1, <4>1 DEF Queued, ToSet, QueueInv
    <3>2. QED
      BY <1>3, <3>1 DEF CancelRemove, Queued
  <2>2. \A i \in Jobs : i \in Queued' => i \in Queued \/ status[i] = "none"
    BY QueueGrows
  <2>3. cancelling' = cancelling \ {j} /\ UNCHANGED <<cancelled, status>>
    BY <1>3 DEF CancelRemove
  <2>4. QED
    BY <2>1, <2>2, <2>3 DEF TypeOK
<1>4. QED
  BY <1>1, <1>2, <1>3, CancelFrame

------------------------------------------------------------------------------
(***************************************************************************)
(* Answers.  A request's local variables and the lock key only name jobs   *)
(* of its query; the job it would return now is not one of those that were *)
(* over or cancelled when it began, unless it vanished between the reads.  *)
(***************************************************************************)
JobOf(j, h) == status[j] # "none" /\ jobHash[j] = h

AnswerInv ==
    /\ \A h \in Hashes : lock[h] \in Jobs => JobOf(lock[h], h)
    /\ \A r \in Requests :
         /\ seen[r] \in Jobs => JobOf(seen[r], HashOf[r])
         /\ rjob[r] \in Jobs => JobOf(rjob[r], HashOf[r])
         /\ rpc[r] \in {"fetch", "status"} => seen[r] \in Jobs
         /\ rpc[r] \in {"exec", "done", "told"} => rjob[r] \in Jobs
         /\ rpc[r] = "loop" => (tries[r] = 0 <=> rjob[r] = NoJob)
         /\ tries[r] = 0 => rpc[r] \in {"loop", "cached", "refused"}

FreshInv ==
    \A r \in Requests :
        /\ \A j \in stale[r] : LockIsIrrelevant(j)
        /\ rpc[r] = "status" /\ seen[r] \in stale[r] =>
             StatusSaysIrrelevant(seen[r]) \/ seen[r] \in vanished[r]
        /\ rjob[r] \in stale[r] => rjob[r] \in vanished[r]

\* A request whose fetch did not find its job missing or cancelled may go on to
\* read the status: of a stale job that is finished or failed.
LEMMA FreshKept ==
    ASSUME FreshInv, NEW r \in Requests,
           UNCHANGED <<status, cancelled, rjob, stale, vanished>>,
           \A q \in Requests \ {r} : rpc'[q] = rpc[q] /\ seen'[q] = seen[q],
           rpc'[r] = "status" => seen'[r] = seen[r] /\ ~FetchSaysIrrelevant(seen[r])
    PROVE  FreshInv'
<1>1. /\ status' = status /\ cancelled' = cancelled /\ rjob' = rjob
      /\ stale' = stale /\ vanished' = vanished
  OBVIOUS
<1>2. seen[r] \in stale[r] /\ ~FetchSaysIrrelevant(seen[r]) => StatusSaysIrrelevant(seen[r])
  BY DEF FreshInv, LockIsIrrelevant, FetchSaysIrrelevant, StatusSaysIrrelevant, Over
<1>3. \A q \in Requests : rpc'[q] = "status" /\ seen'[q] \in stale[q] =>
          status[seen'[q]] \in {"finished", "failed"} \/ seen'[q] \in vanished[q]
  BY <1>2 DEF FreshInv, StatusSaysIrrelevant
<1>4. \A q \in Requests : /\ \A j \in stale[q] : status[j] \in Over \/ j \in cancelled
                          /\ rjob[q] \in stale[q] => rjob[q] \in vanished[q]
  BY DEF FreshInv, LockIsIrrelevant
<1> QED BY <1>1, <1>3, <1>4 DEF FreshInv, LockIsIrrelevant, StatusSaysIrrelevant

\* A step that changes no request, no lock but by deleting it, and no hash.
LEMMA AnswerFrame ==
    ASSUME TypeOK, WorkerHasJob, QueueInv, [Next]_vars, AnswerInv, FreshInv,
           UNCHANGED <<jobHash, rpc, tries, rjob, seen, stale>>, cancelled \subseteq cancelled',
           \A r \in Requests : vanished[r] \subseteq vanished'[r],
           \A h \in Hashes : lock'[h] \in {lock[h], NoJob}
    PROVE  AnswerInv' /\ FreshInv'
<1> USE DEF TypeOK, MaybeJob, reqVars, history
<1>1. AnswerInv'
  <2>1. \A j \in Jobs, h \in Hashes : JobOf(j, h) => JobOf(j, h)'
    BY StatusSteps DEF JobOf
  <2>2. ASSUME NEW h \in Hashes PROVE (lock[h] \in Jobs => JobOf(lock[h], h))'
    <3>1. lock'[h] \in Jobs => lock'[h] = lock[h]
      OBVIOUS
    <3>2. lock[h] \in Jobs => status'[lock[h]] # "none" /\ jobHash'[lock[h]] = h
      BY <2>1 DEF AnswerInv, JobOf
    <3>3. QED
      BY <3>1, <3>2 DEF JobOf
  <2>3. \A r \in Requests : /\ (seen[r] \in Jobs => JobOf(seen[r], HashOf[r]))'
                           /\ (rjob[r] \in Jobs => JobOf(rjob[r], HashOf[r]))'
    BY <2>1 DEF AnswerInv, JobOf
  <2>4. QED
    BY <2>2, <2>3 DEF AnswerInv
<1>2. FreshInv'
  <2>1. ASSUME NEW r \in Requests, NEW j \in stale[r] PROVE LockIsIrrelevant(j)'
    BY <2>1, StatusSteps DEF FreshInv, LockIsIrrelevant
  <2>2. ASSUME NEW r \in Requests, rpc[r] = "status", seen[r] \in stale[r]
        PROVE  StatusSaysIrrelevant(seen[r])' \/ seen[r] \in vanished'[r]
    <3>1. CASE seen[r] \in vanished[r]
      BY <3>1
    <3>2. CASE StatusSaysIrrelevant(seen[r]) /\ ~JobExpires(seen[r])
      <4>1. seen[r] \in Jobs
        BY <2>2
      <4>2. StatusSaysIrrelevant(seen[r])'
        BY <3>2, <4>1, StatusSteps DEF StatusSaysIrrelevant
      <4> QED BY <4>2
    <3>3. CASE JobExpires(seen[r])
      BY <2>2, <3>3 DEF JobExpires
    <3> QED BY <2>2, <3>1, <3>2, <3>3 DEF FreshInv
  <2> QED BY <2>1, <2>2 DEF FreshInv, StatusSaysIrrelevant, LockIsIrrelevant
<1>3. QED
  BY <1>1, <1>2

LEMMA AnswerPreserved ==
    ASSUME TypeOK, WorkerHasJob, QueueInv, CancelInv, AnswerInv, FreshInv, [Next]_vars
    PROVE  AnswerInv' /\ FreshInv'
<1> USE DEF TypeOK, MaybeJob, LockKey, rqVars, reqVars, history
<1>1. ASSUME NEW r \in Requests, Watch(r) PROVE AnswerInv' /\ FreshInv'
  <2>1. AnswerInv'
    BY <1>1 DEF Watch, AnswerInv, JobOf
  <2>2. FreshInv'
    BY <1>1 DEF Watch, AnswerInv, FreshInv, LockIsIrrelevant, StatusSaysIrrelevant
  <2>3. QED
    BY <2>1, <2>2
<1>2. ASSUME NEW r \in Requests, LeaveLoop(r) \/ AnswerAtOnce(r)
      PROVE  AnswerInv' /\ FreshInv'
  <2>1. CASE LeaveLoop(r)
    <3>1. tries[r] # 0
      BY <2>1 DEF LeaveLoop
    <3>2. FreshInv'
      BY <2>1 DEF LeaveLoop, FreshInv, LockIsIrrelevant, StatusSaysIrrelevant
    <3>3. rjob[r] \in Jobs
      BY <2>1, <3>1 DEF LeaveLoop, AnswerInv
    <3>4. /\ rpc' = [rpc EXCEPT ![r] = "done"]
          /\ UNCHANGED <<lock, status, jobHash, tries, rjob, seen>>
      BY <2>1 DEF LeaveLoop
    <3>5. ASSUME NEW q \in Requests
          PROVE  /\ rpc'[q] \in {"fetch", "status"} => seen[q] \in Jobs
                 /\ rpc'[q] \in {"exec", "done", "told"} => rjob[q] \in Jobs
                 /\ rpc'[q] = "loop" => (tries[q] = 0 <=> rjob[q] = NoJob)
                 /\ tries[q] = 0 => rpc'[q] \in {"loop", "cached", "refused"}
      BY <3>1, <3>3, <3>4 DEF AnswerInv
    <3>6. AnswerInv'
      BY <3>4, <3>5 DEF AnswerInv, JobOf
    <3>7. QED
      BY <3>2, <3>6
  <2>2. CASE AnswerAtOnce(r)
    <3>1. FreshInv'
      BY <2>2 DEF AnswerAtOnce, FreshInv, LockIsIrrelevant, StatusSaysIrrelevant
    <3>2. PICK pc \in {"refused", "cached"} : rpc' = [rpc EXCEPT ![r] = pc]
      BY <2>2 DEF AnswerAtOnce
    <3>3. UNCHANGED <<lock, status, jobHash, tries, rjob, seen>>
      BY <2>2 DEF AnswerAtOnce
    <3>4. AnswerInv'
      BY <3>2, <3>3 DEF AnswerInv, JobOf
    <3>5. QED
      BY <3>1, <3>4
  <2> QED BY <1>2, <2>1, <2>2
<1>3. ASSUME NEW r \in Requests, GetLock(r) PROVE AnswerInv' /\ FreshInv'
  <2>1. AnswerInv'
    BY <1>3 DEF GetLock, AnswerInv, JobOf
  <2>2. FreshInv'
    BY <1>3 DEF GetLock, FreshInv, LockIsIrrelevant, StatusSaysIrrelevant
  <2>3. QED
    BY <2>1, <2>2
<1>4. ASSUME NEW r \in Requests, FetchJob(r) \/ ReadStatus(r) PROVE AnswerInv' /\ FreshInv'
  <2>1. CASE FetchJob(r)
    <3>1. AnswerInv'
      <4>1. seen[r] \in Jobs /\ tries[r] # 0
        BY <2>1 DEF FetchJob, AnswerInv
      <4>2. CASE rpc' = [rpc EXCEPT ![r] = "drop"] /\ seen' = [seen EXCEPT ![r] = NoJob]
        BY <2>1, <4>1, <4>2 DEF FetchJob, AnswerInv, JobOf
      <4>3. CASE rpc' = [rpc EXCEPT ![r] = "status"] /\ seen' = seen
        BY <2>1, <4>1, <4>3 DEF FetchJob, AnswerInv, JobOf
      <4> QED BY <2>1, <4>2, <4>3 DEF FetchJob
    <3>2. /\ UNCHANGED <<status, cancelled, rjob, stale, vanished>>
          /\ \A q \in Requests \ {r} : rpc'[q] = rpc[q] /\ seen'[q] = seen[q]
          /\ rpc'[r] = "status" => seen'[r] = seen[r] /\ ~FetchSaysIrrelevant(seen[r])
      <4>1. UNCHANGED <<status, cancelled, rjob, stale, vanished>>
        BY <2>1 DEF FetchJob
      <4>2. \A q \in Requests \ {r} : rpc'[q] = rpc[q] /\ seen'[q] = seen[q]
        BY <2>1 DEF FetchJob
      <4>3. rpc'[r] = "status" => seen'[r] = seen[r] /\ ~FetchSaysIrrelevant(seen[r])
        BY <2>1 DEF FetchJob
      <4> QED BY <4>1, <4>2, <4>3
    <3> QED BY <3>1, <3>2, FreshKept
  <2>2. CASE ReadStatus(r)
    <3>1. AnswerInv'
      BY <2>2 DEF ReadStatus, AnswerInv, JobOf
    <3>2. FreshInv'
      BY <2>2 DEF ReadStatus, FreshInv, LockIsIrrelevant, StatusSaysIrrelevant
    <3> QED BY <3>1, <3>2
  <2> QED BY <1>4, <2>1, <2>2
<1>5. ASSUME NEW r \in Requests, DropLock(r) PROVE AnswerInv' /\ FreshInv'
  <2>1. AnswerInv'
    BY <1>5 DEF DropLock, DeleteLock, AnswerInv, JobOf
  <2>2. FreshInv'
    BY <1>5 DEF DropLock, FreshInv, LockIsIrrelevant, StatusSaysIrrelevant
  <2>3. QED
    BY <2>1, <2>2
<1>6. ASSUME NEW r \in Requests, EnqueueJob(r) PROVE AnswerInv' /\ FreshInv'
  <2>1. PICK j \in Jobs : /\ status[j] = "none"
                          /\ status' = [status EXCEPT ![j] = "queued"]
                          /\ jobHash' = [jobHash EXCEPT ![j] = HashOf[r]]
                          /\ rjob' = [rjob EXCEPT ![r] = j]
    BY <1>6 DEF EnqueueJob
  <2>2. AnswerInv'
    BY <1>6, <2>1 DEF EnqueueJob, AnswerInv, JobOf
  <2>3. \A q \in Requests : j \notin stale[q]
    BY <2>1 DEF FreshInv, LockIsIrrelevant, CancelInv, Over
  <2>4. FreshInv'
    BY <1>6, <2>1, <2>3 DEF EnqueueJob, FreshInv, LockIsIrrelevant, StatusSaysIrrelevant
  <2>5. QED
    BY <2>2, <2>4
<1>7. ASSUME NEW r \in Requests, ExecSetLock(r) PROVE AnswerInv' /\ FreshInv'
  <2>1. AnswerInv'
    BY <1>7 DEF ExecSetLock, AnswerInv, JobOf
  <2>2. FreshInv'
    BY <1>7 DEF ExecSetLock, FreshInv, LockIsIrrelevant, StatusSaysIrrelevant
  <2>3. QED
    BY <2>1, <2>2
<1>8. ASSUME NEW r \in Requests, ExecFails(r) PROVE AnswerInv' /\ FreshInv'
  <2>1. AnswerInv'
    BY <1>8 DEF ExecFails, AnswerInv, JobOf
  <2>2. FreshInv'
    BY <1>8 DEF ExecFails, FreshInv, LockIsIrrelevant, StatusSaysIrrelevant
  <2>3. QED
    BY <2>1, <2>2
<1>9. ASSUME NEW w \in Workers, WorkerStep(w) PROVE AnswerInv' /\ FreshInv'
  <2>1. /\ UNCHANGED <<jobHash, rpc, tries, rjob, seen, stale, vanished>>
        /\ cancelled \subseteq cancelled'
    BY <1>9 DEF WorkerStep, Dequeue, StartJob, QueryEnds, Unlock, StoreResult,
         HorseRaises, HorseInterrupted, FinishJob, ReturnFromJob, FailJob,
         HardLimitKill, HorseDies, HorseMoves, LeaveJob, HorseCrashes, ReapHorse,
         WorkerCrashes
  <2>2. \A h \in Hashes : lock'[h] \in {lock[h], NoJob}
    BY <1>9 DEF WorkerStep, Dequeue, StartJob, QueryEnds, Unlock, StoreResult,
         HorseRaises, HorseInterrupted, FinishJob, ReturnFromJob, FailJob,
         HardLimitKill, HorseDies, HorseMoves, LeaveJob, HorseCrashes, ReapHorse,
         WorkerCrashes, DeleteLock
  <2>3. QED
    BY <2>1, <2>2, AnswerFrame
<1>10. ASSUME NEW j \in Jobs, JobStep(j) PROVE AnswerInv' /\ FreshInv'
  <2>1. CASE JobExpires(j)
    <3>1. \A r \in Requests : vanished[r] \subseteq vanished'[r]
      BY <2>1 DEF JobExpires
    <3> QED BY <2>1, <3>1, AnswerFrame DEF JobExpires
  <2>2. CASE ~JobExpires(j)
    BY <1>10, <2>2, AnswerFrame DEF JobStep, TimeLimitPasses, CancelMark, CancelRemove
  <2> QED BY <2>1, <2>2
<1>11. ASSUME NEW h \in Hashes, LockExpires(h) PROVE AnswerInv' /\ FreshInv'
  BY <1>11, AnswerFrame DEF LockExpires
<1>12. CASE RegistryMaintenance \/ Sweep
  BY <1>12, AnswerFrame DEF RegistryMaintenance, Sweep, SweepKeys, SweepGet, SweepStarted,
       SweepQueued, SweepDelete, SweepUnchanged, DeleteLock
<1>13. CASE UNCHANGED vars
  BY <1>13, AnswerFrame DEF vars
<1>14. QED
  BY <1>1, <1>2, <1>3, <1>4, <1>5, <1>6, <1>7, <1>8, <1>9, <1>10, <1>11, <1>12, <1>13
  DEF Next, RequestStep

------------------------------------------------------------------------------
\* The return value "data" is only reported by a horse that is past the commit.
StoredInv ==
    /\ \A w \in Workers : wpc[w] = "stored" => wjob[w] \in stored
    /\ ResultIsStored

LEMMA StoredPreserved ==
    ASSUME TypeOK, WorkerHasJob, StoredInv, [Next]_vars
    PROVE  StoredInv'
<1> USE DEF TypeOK, WorkerHasJob, StoredInv, ResultIsStored, rqVars, workerVars,
            HorseMoves, LeaveJob, HorseAlive
<1>1. ASSUME NEW r \in Requests, RequestStep(r) PROVE StoredInv'
  BY <1>1 DEF RequestStep, Watch, LeaveLoop, AnswerAtOnce, GetLock, FetchJob,
              ReadStatus, DropLock, EnqueueJob, ExecSetLock, ExecFails
<1>2. ASSUME NEW w \in Workers, StoreResult(w) PROVE StoredInv'
  BY <1>2 DEF StoreResult
<1>3. ASSUME NEW w \in Workers, FinishJob(w) PROVE StoredInv'
  BY <1>3 DEF FinishJob, ReturnFromJob
<1>4. ASSUME NEW w \in Workers, WorkerStep(w), ~StoreResult(w), ~FinishJob(w)
      PROVE  StoredInv'
  BY <1>4 DEF WorkerStep, Dequeue, StartJob, QueryEnds, Unlock, HorseRaises,
       HorseInterrupted, FailJob, HardLimitKill, HorseDies, HorseCrashes, ReapHorse,
       WorkerCrashes
<1>5. ASSUME NEW j \in Jobs, JobStep(j) PROVE StoredInv'
  BY <1>5 DEF JobStep, TimeLimitPasses, JobExpires, CancelMark, CancelRemove
<1>6. ASSUME NEW h \in Hashes, LockExpires(h) PROVE StoredInv'
  BY <1>6 DEF LockExpires
<1>7. CASE RegistryMaintenance \/ Sweep
  BY <1>7 DEF RegistryMaintenance, Sweep, SweepKeys, SweepGet, SweepStarted, SweepQueued,
       SweepDelete, SweepUnchanged
<1>8. CASE UNCHANGED vars
  BY <1>8 DEF vars
<1>9. QED
  BY <1>1, <1>2, <1>3, <1>4, <1>5, <1>6, <1>7, <1>8 DEF Next

------------------------------------------------------------------------------
(***************************************************************************)
(* The inductive invariant and what follows from it.                       *)
(***************************************************************************)
IInv == /\ TypeOK /\ WorkerHasJob
        /\ QueueInv /\ CancelInv /\ AnswerInv /\ FreshInv /\ StoredInv

LEMMA IInvPreserved == IInv /\ [Next]_vars => IInv'
  BY TypePreserved, WorkerHasJobPreserved, QueueInvPreserved, CancelInvPreserved,
     AnswerPreserved, StoredPreserved DEF IInv

LEMMA IInvInit == Init => IInv
<1>1. ASSUME Init PROVE TypeOK /\ WorkerHasJob
  BY <1>1 DEF Init, TypeOK, WorkerHasJob, MaybeJob, Statuses, RequestPCs, WorkerPCs,
         NoSweep, SweepPCs
<1>2. ASSUME Init PROVE QueueInv /\ CancelInv
  BY <1>2 DEF Init, QueueInv, CancelInv, CancelledNotQueued
<1>3. ASSUME Init PROVE AnswerInv /\ FreshInv /\ StoredInv
  BY <1>3 DEF Init, AnswerInv, FreshInv, StoredInv, ResultIsStored, MaybeJob
<1>4. QED
  BY <1>1, <1>2, <1>3 DEF IInv

LEMMA Inductive == Spec => []IInv
  BY IInvInit, IInvPreserved, PTL DEF Spec

\* No job is queued twice, queued while a worker has it, or with two workers.
THEOREM OneRunnerAlways == Spec => []OneRunner
<1>1. IInv => OneRunner
  BY DEF IInv, QueueInv, OneRunner, Queued, ToSet
<1>2. QED
  BY <1>1, Inductive, PTL

\* Every call of enqueue_query that returns, returns a job of its own query.
THEOREM AnswersOwnQueryAlways == Spec => []AnswersOwnQuery
<1>1. IInv => AnswersOwnQuery
  BY DEF IInv, AnswerInv, AnswersOwnQuery, JobOf
<1>2. QED
  BY <1>1, Inductive, PTL

\* enqueue_query returns no job that was over or cancelled when it began, but one
\* whose hash expired between its fetch and the read of its status.
THEOREM FreshAnswerAlways == Spec => []FreshAnswer
<1>1. IInv => FreshAnswer
  BY DEF IInv, FreshInv, FreshAnswer
<1>2. QED
  BY <1>1, Inductive, PTL

\* A job reports the id of a result only after the commit of that result.
THEOREM ResultIsStoredAlways == Spec => []ResultIsStored
<1>1. IInv => ResultIsStored
  BY DEF IInv, StoredInv
<1>2. QED
  BY <1>1, Inductive, PTL

\* After cancel() has returned the job is not in the queue, and stays out.
THEOREM CancelledNotQueuedAlways == Spec => []CancelledNotQueued
<1>1. IInv => CancelledNotQueued
  BY DEF IInv, CancelInv
<1>2. QED
  BY <1>1, Inductive, PTL

------------------------------------------------------------------------------
(***************************************************************************)
(* Whoever joins a job joins it before its result is committed, but for    *)
(* jobs whose lock came late.  LateInv carries this back from the answer   *)
(* to the locks.                                                           *)
(***************************************************************************)
\* A lock of a job that has unlocked was set late, and so were the locks by which
\* a request came to a job whose result was there before.
LateInv ==
    /\ \A j \in stored : status[j] # "none"
    /\ \A r \in Requests : storedAt[r] \subseteq stored
    /\ \A h \in Hashes, j \in Jobs : lock[h] = j /\ Unlocked(j) => j \in late
    /\ \A r \in Requests :
         /\ rpc[r] \in {"fetch", "status"} /\ seen[r] \in storedAt[r] => seen[r] \in late
         /\ rjob[r] \in storedAt[r] => rjob[r] \in late

AInv == IInv /\ LateInv

\* Only its own unlock makes a job unlocked, and only an unlocked job is stored.
LEMMA UnlockedSteps ==
    ASSUME TypeOK, WorkerHasJob, [Next]_vars, NEW j \in Jobs, Unlocked(j)'
    PROVE  Unlocked(j) \/ \E w \in Workers : Unlock(w) /\ wjob[w] = j
<1> USE DEF Unlocked, rqVars, reqVars, workerVars, HorseMoves, LeaveJob, TypeOK, HorseAlive
<1>1. ASSUME NEW r \in Requests, RequestStep(r) PROVE Unlocked(j)
  BY <1>1 DEF RequestStep, Watch, LeaveLoop, AnswerAtOnce, GetLock, FetchJob,
              ReadStatus, DropLock, EnqueueJob, ExecSetLock, ExecFails
<1>2. ASSUME NEW w \in Workers, Dequeue(w) \/ StartJob(w) \/ QueryEnds(w) \/ HorseRaises(w)
                                \/ HorseInterrupted(w)
      PROVE  Unlocked(j)
  BY <1>2 DEF Dequeue, StartJob, QueryEnds, HorseRaises, HorseInterrupted
<1>3. ASSUME NEW w \in Workers, StoreResult(w) PROVE Unlocked(j)
  BY <1>3 DEF StoreResult
<1>4. ASSUME NEW w \in Workers, HardLimitKill(w) \/ HorseCrashes(w) \/ WorkerCrashes(w)
      PROVE  Unlocked(j)
  BY <1>4 DEF HardLimitKill, HorseDies, HorseCrashes, WorkerCrashes
<1>5. ASSUME NEW w \in Workers, FinishJob(w) \/ FailJob(w) \/ ReapHorse(w)
      PROVE  Unlocked(j)
  \* The worker lets its job go, and no other worker changes.
  <2>1. /\ stored' = stored
        /\ wpc' = [wpc EXCEPT ![w] = "idle"] /\ wjob' = [wjob EXCEPT ![w] = NoJob]
    BY <1>5 DEF FinishJob, ReturnFromJob, FailJob, ReapHorse
  <2> QED BY <2>1
<1>6. ASSUME NEW w \in Workers, Unlock(w) PROVE Unlocked(j) \/ wjob[w] = j
  BY <1>6 DEF Unlock
<1>7. ASSUME NEW i \in Jobs, JobStep(i) PROVE Unlocked(j)
  BY <1>7 DEF JobStep, TimeLimitPasses, JobExpires, CancelMark, CancelRemove
<1>8. ASSUME NEW h \in Hashes, LockExpires(h) PROVE Unlocked(j)
  BY <1>8 DEF LockExpires
<1>9. CASE RegistryMaintenance \/ Sweep
  BY <1>9 DEF RegistryMaintenance, Sweep, SweepKeys, SweepGet, SweepStarted, SweepQueued,
              SweepDelete, SweepUnchanged
<1>10. CASE UNCHANGED vars
  BY <1>10 DEF vars
<1> QED BY <1>1, <1>2, <1>3, <1>4, <1>5, <1>6, <1>7, <1>8, <1>9, <1>10 DEF Next, WorkerStep

\* Where a request gets its job from.
LEMMA RequestEffects ==
    ASSUME TypeOK, [Next]_vars, NEW r \in Requests
    PROVE  /\ rpc'[r] \in {"fetch", "status"} =>
                \/ rpc[r] \in {"fetch", "status"} /\ seen'[r] = seen[r]
                \/ \E h \in Hashes : seen'[r] = lock[h]
           /\ \/ rjob'[r] \in {rjob[r], NoJob}
              \/ rpc[r] = "status" /\ rjob'[r] = seen[r]
              \/ rjob'[r] \in Jobs /\ status[rjob'[r]] = "none"
<1> DEFINE Kept == UNCHANGED <<rpc, seen, rjob>>
<1>1. ASSUME NEW q \in Requests, RequestStep(q), q # r PROVE UNCHANGED <<rpc[r], seen[r], rjob[r]>>
  BY <1>1 DEF RequestStep, Watch, LeaveLoop, AnswerAtOnce, GetLock, FetchJob,
              ReadStatus, DropLock, EnqueueJob, ExecSetLock, ExecFails, TypeOK
<1>2. CASE \/ AnswerAtOnce(r) \/ Watch(r) \/ LeaveLoop(r) \/ ExecSetLock(r)
           \/ ExecFails(r) \/ DropLock(r)
  BY <1>2 DEF AnswerAtOnce, Watch, LeaveLoop, ExecSetLock, ExecFails, DropLock, TypeOK
<1>3. CASE GetLock(r)
  BY <1>3 DEF GetLock, TypeOK, LockKey
<1>4. CASE FetchJob(r) \/ ReadStatus(r)
  BY <1>4 DEF FetchJob, ReadStatus, TypeOK
<1>5. CASE EnqueueJob(r)
  BY <1>5 DEF EnqueueJob, TypeOK
<1>6. ASSUME NEW w \in Workers, WorkerStep(w) PROVE Kept
  BY <1>6 DEF WorkerStep, Dequeue, StartJob, QueryEnds, Unlock, StoreResult, HorseRaises,
       HorseInterrupted, FinishJob, ReturnFromJob, FailJob, HardLimitKill, HorseDies,
       HorseMoves, LeaveJob, HorseCrashes, ReapHorse, WorkerCrashes, reqVars
<1>7. ASSUME NEW j \in Jobs, JobStep(j) PROVE Kept
  BY <1>7 DEF JobStep, TimeLimitPasses, JobExpires, CancelMark, CancelRemove, reqVars
<1>8. ASSUME NEW h \in Hashes, LockExpires(h) PROVE Kept
  BY <1>8 DEF LockExpires, reqVars
<1>9. CASE RegistryMaintenance \/ Sweep \/ UNCHANGED vars
  BY <1>9 DEF RegistryMaintenance, Sweep, SweepKeys, SweepGet, SweepStarted, SweepQueued,
              SweepDelete, SweepUnchanged, vars, reqVars
<1> QED BY <1>1, <1>2, <1>3, <1>4, <1>5, <1>6, <1>7, <1>8, <1>9 DEF Next, RequestStep

LEMMA StoredSteps ==
    ASSUME TypeOK, WorkerHasJob, QueueInv, [Next]_vars
    PROVE  /\ stored \subseteq stored'
           /\ \A j \in stored' : j \in stored \/ status[j] # "none"
<1>1. ASSUME NEW w \in Workers, WorkerStep(w) PROVE
        stored \subseteq stored' /\ \A j \in stored' : j \in stored \/ status[j] # "none"
  <2>1. CASE StoreResult(w)
    BY <2>1 DEF StoreResult, QueueInv
  <2>2. CASE ~StoreResult(w)
    BY <1>1, <2>2 DEF WorkerStep, Dequeue, StartJob, QueryEnds, Unlock, HorseRaises,
       HorseInterrupted, FinishJob, ReturnFromJob, FailJob, HardLimitKill, HorseDies,
       HorseMoves, LeaveJob, HorseCrashes, ReapHorse, WorkerCrashes
  <2> QED BY <2>1, <2>2
<1>2. ASSUME NEW r \in Requests, RequestStep(r) PROVE stored' = stored
  BY <1>2 DEF RequestStep, Watch, LeaveLoop, AnswerAtOnce, GetLock, FetchJob,
              ReadStatus, DropLock, EnqueueJob, ExecSetLock, ExecFails
<1>3. ASSUME NEW j \in Jobs, JobStep(j) PROVE stored' = stored
  BY <1>3 DEF JobStep, TimeLimitPasses, JobExpires, CancelMark, CancelRemove
<1>4. ASSUME NEW h \in Hashes, LockExpires(h) PROVE stored' = stored
  BY <1>4 DEF LockExpires
<1>5. CASE RegistryMaintenance \/ Sweep \/ UNCHANGED vars
  BY <1>5 DEF RegistryMaintenance, Sweep, SweepKeys, SweepGet, SweepStarted, SweepQueued,
              SweepDelete, SweepUnchanged, vars
<1> QED BY <1>1, <1>2, <1>3, <1>4, <1>5 DEF Next

\* What a step may do to the history of a request and to the locks.
LEMMA HistorySteps ==
    ASSUME IInv, [Next]_vars
    PROVE  /\ late \subseteq late'
           /\ \A r \in Requests : \/ storedAt'[r] = storedAt[r]
                                  \/ /\ storedAt'[r] = stored /\ rjob'[r] = NoJob
                                     /\ rpc'[r] = "watched" /\ stored' = stored
           /\ \A h \in Hashes : \/ lock'[h] \in {lock[h], NoJob}
                                \/ \A j \in Jobs : lock'[h] = j /\ Unlocked(j)' => j \in late'
<1> DEFINE Kept == UNCHANGED <<late, storedAt>>
           Locks == \A h \in Hashes : lock'[h] \in {lock[h], NoJob}
<1> USE DEF IInv
<1>1. ASSUME NEW q \in Requests, RequestStep(q), ~Watch(q), ~ExecSetLock(q) PROVE Kept /\ Locks
  <2>1. Kept
    BY <1>1 DEF RequestStep, LeaveLoop, AnswerAtOnce, GetLock, FetchJob,
                ReadStatus, DropLock, EnqueueJob, ExecFails, history
  <2>2. Locks
    BY <1>1 DEF RequestStep, LeaveLoop, AnswerAtOnce, GetLock, FetchJob,
                ReadStatus, DropLock, EnqueueJob, ExecFails, DeleteLock, TypeOK
  <2> QED BY <2>1, <2>2
<1>2. ASSUME NEW q \in Requests, Watch(q) PROVE
        /\ lock' = lock /\ late' = late
        /\ \A r \in Requests : \/ storedAt'[r] = storedAt[r]
                               \/ /\ storedAt'[r] = stored /\ rjob'[r] = NoJob
                                  /\ rpc'[r] = "watched" /\ stored' = stored
  <2>1. tries[q] = 0 => rjob[q] = NoJob
    BY <1>2 DEF Watch, AnswerInv
  <2>2. rpc'[q] = "watched" /\ UNCHANGED <<lock, late, rjob, stored>>
    BY <1>2 DEF Watch, TypeOK
  <2>3. CASE tries[q] = 0
    <3>1. storedAt' = [storedAt EXCEPT ![q] = stored]
      BY <1>2, <2>3 DEF Watch
    <3> QED BY <2>1, <2>2, <2>3, <3>1 DEF TypeOK
  <2>4. CASE tries[q] # 0
    BY <1>2, <2>2, <2>4 DEF Watch
  <2> QED BY <2>3, <2>4
<1>3. ASSUME NEW q \in Requests, ExecSetLock(q) PROVE
        /\ late \subseteq late' /\ storedAt' = storedAt
        /\ \A h \in Hashes : \/ lock'[h] = lock[h]
                             \/ \A j \in Jobs : lock'[h] = j /\ Unlocked(j)' => j \in late'
  <2>1. rjob[q] \in Jobs
    BY <1>3 DEF ExecSetLock, AnswerInv
  <2>2. /\ lock' = [lock EXCEPT ![HashOf[q]] = rjob[q]]
        /\ late' = IF Unlocked(rjob[q]) THEN late \cup {rjob[q]} ELSE late
        /\ UNCHANGED <<stored, wpc, wjob, storedAt>>
    BY <1>3 DEF ExecSetLock, LockKey, workerVars
  <2>3. ASSUME NEW j \in Jobs PROVE Unlocked(j)' = Unlocked(j)
    BY <2>2 DEF Unlocked
  <2>4. ASSUME NEW h \in Hashes, lock'[h] # lock[h], NEW j \in Jobs, lock'[h] = j, Unlocked(j)'
        PROVE  j \in late'
    <3>1. j = rjob[q]
      BY <2>2, <2>4 DEF TypeOK
    <3>2. Unlocked(j)
      BY <2>3, <2>4
    <3> QED BY <2>2, <3>1, <3>2
  <2>5. late \subseteq late' /\ storedAt' = storedAt
    BY <2>2
  <2> QED BY <2>4, <2>5
<1>4. ASSUME NEW w \in Workers, WorkerStep(w) PROVE Kept /\ Locks
  <2>1. Kept
    BY <1>4 DEF WorkerStep, Dequeue, StartJob, QueryEnds, Unlock, StoreResult, HorseRaises,
       HorseInterrupted, FinishJob, ReturnFromJob, FailJob, HardLimitKill, HorseDies,
       HorseMoves, LeaveJob, HorseCrashes, ReapHorse, WorkerCrashes, reqVars, history
  <2>2. Locks
    BY <1>4 DEF WorkerStep, Dequeue, StartJob, QueryEnds, Unlock, StoreResult, HorseRaises,
       HorseInterrupted, FinishJob, ReturnFromJob, FailJob, HardLimitKill, HorseDies,
       HorseMoves, LeaveJob, HorseCrashes, ReapHorse, WorkerCrashes, DeleteLock, TypeOK
  <2> QED BY <2>1, <2>2
<1>5. ASSUME NEW j \in Jobs, JobStep(j) PROVE Kept /\ Locks
  BY <1>5 DEF JobStep, TimeLimitPasses, JobExpires, CancelMark, CancelRemove, reqVars, history
<1>6. ASSUME NEW h \in Hashes, LockExpires(h) PROVE Kept /\ Locks
  BY <1>6 DEF LockExpires, reqVars, history, TypeOK
<1>7. CASE RegistryMaintenance \/ Sweep \/ UNCHANGED vars
  BY <1>7 DEF RegistryMaintenance, Sweep, SweepKeys, SweepGet, SweepStarted, SweepQueued,
              SweepDelete, SweepUnchanged, DeleteLock, vars, reqVars, history, TypeOK
<1> QED BY <1>1, <1>2, <1>3, <1>4, <1>5, <1>6, <1>7 DEF Next

LEMMA LateInvPreserved == AInv /\ [Next]_vars => LateInv'
<1> SUFFICES ASSUME AInv, [Next]_vars PROVE LateInv'
  OBVIOUS
<1> USE DEF AInv, IInv
<1>1. /\ stored \subseteq stored'
      /\ \A j \in stored' : status'[j] # "none"
  <2>1. stored \subseteq stored' /\ \A j \in stored' : status[j] # "none"
    BY StoredSteps DEF LateInv
  <2>2. stored' \subseteq Jobs
    BY TypePreserved DEF TypeOK
  <2> QED BY <2>1, <2>2, StatusSteps
<1>2. ASSUME NEW h \in Hashes, NEW j \in Jobs, lock'[h] = j, Unlocked(j)'
      PROVE  j \in late'
  <2>1. CASE lock[h] # j
    <3>1. lock'[h] \notin {lock[h], NoJob}
      BY <1>2, <2>1
    <3> QED BY <1>2, <3>1, HistorySteps
  <2>2. CASE lock[h] = j /\ Unlocked(j)
    BY <2>2, HistorySteps DEF LateInv
  <2>3. ASSUME NEW w \in Workers, Unlock(w), wjob[w] = j, lock[h] = j PROVE FALSE
    \* The lock of j can only be at its own key, which the step has deleted.
    <3>1. lock' = [lock EXCEPT ![jobHash[j]] = NoJob]
      BY <2>3 DEF Unlock, DeleteLock
    <3>2. jobHash[j] = h
      BY <2>3 DEF AnswerInv, JobOf
    <3> QED BY <1>2, <3>1, <3>2 DEF TypeOK
  <2> QED BY <1>2, <2>1, <2>2, <2>3, UnlockedSteps
<1>3. ASSUME NEW r \in Requests
      PROVE  /\ (storedAt[r] \subseteq stored)'
             /\ (rpc[r] \in {"fetch", "status"} /\ seen[r] \in storedAt[r] => seen[r] \in late)'
             /\ (rjob[r] \in storedAt[r] => rjob[r] \in late)'
  <2>1. storedAt[r] \subseteq stored /\ late \subseteq late'
    BY HistorySteps DEF LateInv
  <2>2. stored \subseteq Jobs /\ \A j \in stored : Unlocked(j) /\ status[j] # "none"
    BY DEF TypeOK, LateInv, Unlocked
  <2>3. CASE storedAt'[r] = storedAt[r]
    <3>1. ASSUME NEW h \in Hashes, lock[h] \in storedAt[r] PROVE lock[h] \in late
      BY <2>1, <2>2, <3>1 DEF LateInv
    <3>2. (rpc[r] \in {"fetch", "status"} /\ seen[r] \in storedAt[r] => seen[r] \in late)'
      BY <2>1, <2>3, <3>1, RequestEffects DEF LateInv
    <3>3. NoJob \notin storedAt[r]
      BY <2>1, <2>2
    <3>4. (rjob[r] \in storedAt[r] => rjob[r] \in late)'
      BY <2>1, <2>2, <2>3, <3>3, RequestEffects DEF LateInv
    <3> QED BY <1>1, <2>1, <2>3, <3>2, <3>4
  <2>4. CASE storedAt'[r] = stored /\ rjob'[r] = NoJob /\ rpc'[r] = "watched" /\ stored' = stored
    BY <2>2, <2>4
  <2> QED BY <2>3, <2>4, HistorySteps
<1> QED BY <1>1, <1>2, <1>3 DEF LateInv

LEMMA AInvInit == Init => AInv
<1> SUFFICES ASSUME Init PROVE AInv
  OBVIOUS
<1>1. LateInv
  BY DEF Init, LateInv, Unlocked
<1> QED BY <1>1, IInvInit DEF AInv

LEMMA AInvInductive == Spec => []AInv
<1>1. AInv /\ [Next]_vars => AInv'
  BY LateInvPreserved, IInvPreserved DEF AInv
<1> QED BY <1>1, AInvInit, PTL DEF Spec

\* Whoever joins a job joins it before its result is committed, unless the lock of
\* the job was set after the job had unlocked.
THEOREM JoinedResultIsNewAlways == Spec => []JoinedResultIsNew
<1>1. AInv => JoinedResultIsNew
  BY DEF AInv, LateInv, JoinedResultIsNew
<1> QED BY <1>1, AInvInductive, PTL

------------------------------------------------------------------------------
(***************************************************************************)
(* The optimistic transaction.  Whoever is about to set a lock and whose   *)
(* WATCH has not failed has a free key before it.                          *)
(***************************************************************************)
FreeKeyInv ==
    \A r \in Requests :
        rpc[r] \in {"enqueue", "exec"} /\ r \notin dirty => lock[LockKey(r)] = NoJob

\* Steps of other processes delete locks, and spoil transactions.
LEMMA OthersFreeKeys ==
    ASSUME TypeOK, [Next]_vars, ~\E q \in Requests : RequestStep(q)
    PROVE  /\ rpc' = rpc /\ tries' = tries /\ dirty \subseteq dirty'
           /\ \A h \in Hashes : lock'[h] \in {lock[h], NoJob}
<1> DEFINE Frees == /\ rpc' = rpc /\ tries' = tries /\ dirty \subseteq dirty'
                    /\ \A h \in Hashes : lock'[h] \in {lock[h], NoJob}
<1> USE DEF reqVars
<1>1. ASSUME NEW w \in Workers, WorkerStep(w) PROVE Frees
  <2>1. CASE Unlock(w)
    BY <2>1 DEF Unlock, DeleteLock, TypeOK
  <2>2. CASE ~Unlock(w)
    BY <1>1, <2>2 DEF WorkerStep, Dequeue, StartJob, QueryEnds, StoreResult, HorseRaises,
       HorseInterrupted, FinishJob, ReturnFromJob, FailJob, HardLimitKill, HorseDies,
       HorseMoves, LeaveJob, HorseCrashes, ReapHorse, WorkerCrashes
  <2> QED BY <2>1, <2>2
<1>2. ASSUME NEW j \in Jobs, JobStep(j) PROVE Frees
  BY <1>2 DEF JobStep, TimeLimitPasses, JobExpires, CancelMark, CancelRemove
<1>3. ASSUME NEW h \in Hashes, LockExpires(h) PROVE Frees
  BY <1>3 DEF LockExpires, TypeOK
<1>4. CASE SweepDelete
  BY <1>4 DEF SweepDelete, DeleteLock, SweepUnchanged, TypeOK
<1>5. CASE RegistryMaintenance \/ SweepKeys \/ SweepGet \/ SweepStarted \/ SweepQueued
           \/ UNCHANGED vars
  BY <1>5 DEF RegistryMaintenance, SweepKeys, SweepGet, SweepStarted, SweepQueued,
              SweepUnchanged, vars
<1> QED BY <1>1, <1>2, <1>3, <1>4, <1>5 DEF Next, Sweep

LEMMA FreeKeyPreserved == TypeOK /\ FreeKeyInv /\ [Next]_vars => FreeKeyInv'
<1> SUFFICES ASSUME TypeOK, FreeKeyInv, [Next]_vars, NEW r \in Requests,
                    rpc'[r] \in {"enqueue", "exec"}, r \notin dirty'
             PROVE  lock'[LockKey(r)] = NoJob
  BY DEF FreeKeyInv, LockKey
<1> USE DEF LockKey
<1>0. HashOf[r] \in Hashes
  OBVIOUS
<1>1. CASE ~\E q \in Requests : RequestStep(q)
  <2>1. rpc[r] \in {"enqueue", "exec"} /\ r \notin dirty
    BY <1>1, OthersFreeKeys
  <2>2. lock[HashOf[r]] = NoJob
    BY <2>1 DEF FreeKeyInv
  <2> QED BY <1>0, <1>1, <2>2, OthersFreeKeys
<1>2. ASSUME RequestStep(r) PROVE lock'[HashOf[r]] = NoJob
  <2>1. CASE GetLock(r)
    BY <2>1 DEF GetLock, TypeOK
  <2>2. CASE DropLock(r)
    BY <1>0, <2>2 DEF DropLock, DeleteLock, TypeOK
  <2>3. CASE EnqueueJob(r)
    BY <2>3 DEF EnqueueJob, FreeKeyInv
  <2>4. CASE AnswerAtOnce(r) \/ Watch(r) \/ LeaveLoop(r) \/ FetchJob(r) \/ ReadStatus(r)
               \/ ExecSetLock(r) \/ ExecFails(r)
    BY <2>4 DEF AnswerAtOnce, Watch, LeaveLoop, FetchJob,
  ReadStatus, ExecSetLock, ExecFails, TypeOK
  <2> QED BY <1>2, <2>1, <2>2, <2>3, <2>4 DEF RequestStep
<1>3. ASSUME NEW q \in Requests, RequestStep(q), q # r PROVE lock'[HashOf[r]] = NoJob
  <2>1. rpc[r] \in {"enqueue", "exec"}
    BY <1>3 DEF RequestStep, Watch, LeaveLoop, AnswerAtOnce, GetLock, FetchJob,
                ReadStatus, DropLock, EnqueueJob, ExecSetLock, ExecFails, TypeOK
  <2>2. CASE ExecSetLock(q)
    <3>1. /\ lock' = [lock EXCEPT ![HashOf[q]] = rjob[q]]
          /\ dirty' = (dirty \cup Watchers(HashOf[q])) \ {q}
      BY <2>2 DEF ExecSetLock
    <3>2. r \notin dirty /\ r \notin Watchers(HashOf[q])
      BY <1>3, <3>1
    <3>3. HashOf[r] # HashOf[q]
      BY <2>1, <3>2 DEF Watchers, Watching
    <3> QED BY <1>0, <2>1, <3>1, <3>2, <3>3 DEF FreeKeyInv, TypeOK
  <2>3. CASE ~ExecSetLock(q)
    <3>1. dirty \subseteq dirty' \cup {q}
      BY <1>3, <2>3 DEF RequestStep, Watch, LeaveLoop, AnswerAtOnce, GetLock, FetchJob,
                        ReadStatus, DropLock, EnqueueJob, ExecFails, DeleteLock
    <3>2. \A h \in Hashes : lock'[h] \in {lock[h], NoJob}
      BY <1>3, <2>3 DEF RequestStep, Watch, LeaveLoop, AnswerAtOnce, GetLock, FetchJob,
                        ReadStatus, DropLock, EnqueueJob, ExecFails, DeleteLock, TypeOK
    <3>3. lock[HashOf[r]] = NoJob
      BY <1>3, <2>1, <3>1 DEF FreeKeyInv
    <3> QED BY <1>0, <3>2, <3>3
  <2> QED BY <2>2, <2>3
<1> QED BY <1>1, <1>2, <1>3

\* A lock is only set where none is: of the requests that found no lock, or dropped
\* the one they found, one sets its own.
THEOREM LocksNotOverwrittenAlways == Spec => LocksNotOverwritten
<1>1. Init => FreeKeyInv
  BY DEF Init, FreeKeyInv
<1>2. TypeOK /\ FreeKeyInv /\ [Next]_vars
        => [\A h \in Hashes : lock[h] = NoJob \/ lock'[h] \in {lock[h], NoJob}]_vars
  <2> SUFFICES ASSUME TypeOK, FreeKeyInv, [Next]_vars, NEW h \in Hashes
               PROVE  lock[h] = NoJob \/ lock'[h] \in {lock[h], NoJob}
    OBVIOUS
  <2>1. ASSUME NEW q \in Requests, ExecSetLock(q)
        PROVE  lock[h] = NoJob \/ lock'[h] \in {lock[h], NoJob}
    <3>1. lock[HashOf[q]] = NoJob
      BY <2>1 DEF ExecSetLock, FreeKeyInv, LockKey
    <3> QED BY <2>1, <3>1 DEF ExecSetLock, LockKey, TypeOK
  <2>2. ASSUME NEW q \in Requests, RequestStep(q), ~ExecSetLock(q)
        PROVE  lock'[h] \in {lock[h], NoJob}
    BY <2>2 DEF RequestStep, Watch, LeaveLoop, AnswerAtOnce, GetLock, FetchJob,
                ReadStatus, DropLock, EnqueueJob, ExecFails, DeleteLock, TypeOK
  <2> QED BY <2>1, <2>2, OthersFreeKeys
<1> QED
  BY <1>1, <1>2, FreeKeyPreserved, TypeCorrect, PTL DEF Spec, LocksNotOverwritten

\* A call of enqueue_query ends by its own steps: each of them uses up one of at
\* most 7 * MaxTries + 1, and no step of another process gives one back.
THEOREM CallsAreBoundedAlways == Spec => CallsAreBounded
<1> DEFINE Bounded == \A r \in Requests : \/ UNCHANGED <<rpc[r], tries[r]>>
                                           \/ RoundTripsLeft(r)' < RoundTripsLeft(r)
<1>1. TypeOK /\ [Next]_vars => [Bounded]_vars
  <2> SUFFICES ASSUME TypeOK, [Next]_vars, NEW r \in Requests
               PROVE  \/ UNCHANGED <<rpc[r], tries[r]>>
                      \/ RoundTripsLeft(r)' < RoundTripsLeft(r)
    OBVIOUS
  <2>1. CASE ~\E q \in Requests : RequestStep(q)
    BY <2>1, OthersFreeKeys
  <2>2. ASSUME NEW q \in Requests, RequestStep(q), q # r PROVE UNCHANGED <<rpc[r], tries[r]>>
    BY <2>2 DEF RequestStep, Watch, LeaveLoop, AnswerAtOnce, GetLock, FetchJob,
                ReadStatus, DropLock, EnqueueJob, ExecSetLock, ExecFails, TypeOK
  <2>3. ASSUME RequestStep(r) PROVE RoundTripsLeft(r)' < RoundTripsLeft(r)
    <3> DEFINE t == tries[r]
    <3>1. t \in 0..MaxTries /\ MaxTries \in Nat
      BY DEF TypeOK
    <3> USE DEF RoundTripsLeft, TripsOfRound
    <3>2. CASE Watch(r)
      <4>1. rpc[r] = "loop" /\ rpc'[r] = "watched" /\ tries'[r] = t + 1
        BY <3>2 DEF Watch, TypeOK
      <4> QED BY <3>1, <4>1
    <3>3. CASE ~Watch(r)
      <4>1. tries'[r] = t
        BY <2>3, <3>3 DEF RequestStep, LeaveLoop, AnswerAtOnce, GetLock, FetchJob,
                          ReadStatus, DropLock, EnqueueJob, ExecSetLock, ExecFails
      <4>2. \/ rpc[r] = "loop" /\ rpc'[r] \in {"done", "cached", "refused"}
            \/ rpc[r] = "watched" /\ rpc'[r] \in {"fetch", "enqueue", "done"}
            \/ rpc[r] = "fetch" /\ rpc'[r] \in {"drop", "status"}
            \/ rpc[r] = "status" /\ rpc'[r] \in {"drop", "done"}
            \/ rpc[r] = "drop" /\ rpc'[r] = "enqueue"
            \/ rpc[r] = "enqueue" /\ rpc'[r] = "exec"
            \/ rpc[r] = "exec" /\ rpc'[r] \in {"done", "loop"}
        BY <2>3, <3>3 DEF RequestStep, LeaveLoop, AnswerAtOnce, GetLock, FetchJob,
                          ReadStatus, DropLock, EnqueueJob, ExecSetLock, ExecFails, TypeOK
      <4> HIDE DEF t
      <4> QED BY <3>1, <4>1, <4>2 DEF t
    <3> QED BY <3>2, <3>3
  <2> QED BY <2>1, <2>2, <2>3
<1> QED BY <1>1, TypeCorrect, PTL DEF Spec, CallsAreBounded

==============================================================================
