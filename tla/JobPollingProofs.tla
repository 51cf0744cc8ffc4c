--------------------------- MODULE JobPollingProofs ---------------------------
(***************************************************************************)
(* QueryJobs implements JobLifecycle for any number of requests, jobs and  *)
(* workers: each of its steps is a step in the life of one job, or none.   *)
(* So it does while pages poll their jobs, and what the pages are told is  *)
(* right and final.                                                        *)
(***************************************************************************)
EXTENDS JobPolling, QueryJobsProofs

USE HashOfAssumption, NoJobAssumption, NoWorkerAssumption

------------------------------------------------------------------------------
\* What the three operations on a queue do to the set of its elements.
LEMMA AppendAdds ==
    ASSUME NEW q \in Seq(Jobs), NEW j \in Jobs
    PROVE  ToSet(Append(q, j)) = ToSet(q) \cup {j}
<1> DEFINE a == Append(q, j)
<1>1. /\ DOMAIN a = 1..(Len(q) + 1) /\ DOMAIN q = 1..Len(q) /\ Len(q) \in Nat
      /\ \A i \in 1..Len(q) : a[i] = q[i]
      /\ a[Len(q) + 1] = j
  OBVIOUS
<1> HIDE DEF a
<1>2. ToSet(a) = {a[i] : i \in DOMAIN a} /\ ToSet(q) = {q[i] : i \in DOMAIN q}
  BY DEF ToSet
<1>3. ASSUME NEW i \in DOMAIN a PROVE a[i] \in ToSet(q) \cup {j}
  <2>1. CASE i = Len(q) + 1
    BY <1>1, <2>1
  <2>2. CASE i # Len(q) + 1
    <3>1. i \in DOMAIN q
      BY <1>1, <2>2
    <3> QED BY <1>1, <1>2, <3>1
  <2> QED BY <2>1, <2>2
<1>4. \A i \in DOMAIN q : i \in DOMAIN a /\ a[i] = q[i]
  BY <1>1
<1>5. Len(q) + 1 \in DOMAIN a
  BY <1>1
<1>6. ToSet(a) = ToSet(q) \cup {j}
  BY <1>1, <1>2, <1>3, <1>4, <1>5
<1> QED BY <1>6 DEF a

LEMMA TailRemoves ==
    ASSUME NEW q \in Seq(Jobs), q # <<>>, \A i, k \in DOMAIN q : q[i] = q[k] => i = k
    PROVE  ToSet(Tail(q)) = ToSet(q) \ {Head(q)}
<1> DEFINE t == Tail(q)
<1>1. /\ DOMAIN t = 1..(Len(q) - 1) /\ DOMAIN q = 1..Len(q) /\ Len(q) \in Nat
      /\ 1 \in DOMAIN q /\ Head(q) = q[1]
      /\ \A i \in DOMAIN t : t[i] = q[i + 1]
  OBVIOUS
<1> HIDE DEF t
<1>2. ToSet(t) = {t[i] : i \in DOMAIN t} /\ ToSet(q) = {q[i] : i \in DOMAIN q}
  BY DEF ToSet
<1>3. ASSUME NEW i \in DOMAIN t PROVE t[i] \in ToSet(q) \ {q[1]}
  <2>1. i + 1 \in DOMAIN q /\ i + 1 # 1
    BY <1>1
  <2>2. q[i + 1] # q[1]
    BY <1>1, <2>1
  <2> QED BY <1>1, <1>2, <2>1, <2>2
<1>4. ASSUME NEW i \in DOMAIN q, q[i] # q[1] PROVE q[i] \in ToSet(t)
  <2>1. i - 1 \in DOMAIN t /\ (i - 1) + 1 = i
    <3>1. i # 1
      BY <1>4
    <3> QED BY <1>1, <3>1
  <2>2. t[i - 1] = q[i]
    BY <1>1, <2>1
  <2> QED BY <1>2, <2>1, <2>2
<1>5. ToSet(t) = ToSet(q) \ {Head(q)}
  BY <1>1, <1>2, <1>3, <1>4
<1> QED BY <1>5 DEF t

LEMMA RemoveAtRemoves ==
    ASSUME NEW q \in Seq(Jobs), NEW n \in DOMAIN q,
           \A i, k \in DOMAIN q : q[i] = q[k] => i = k
    PROVE  ToSet(RemoveAt(q, n)) = ToSet(q) \ {q[n]}
<1> DEFINE t == RemoveAt(q, n)
           From(i) == IF i < n THEN i ELSE i + 1
<1>1. /\ DOMAIN t = 1..(Len(q) - 1) /\ DOMAIN q = 1..Len(q) /\ Len(q) \in Nat
      /\ n \in 1..Len(q)
      /\ \A i \in DOMAIN t : t[i] = q[From(i)]
  BY RemoveAtElements
<1> HIDE DEF t
<1>2. ToSet(t) = {t[i] : i \in DOMAIN t} /\ ToSet(q) = {q[i] : i \in DOMAIN q}
  BY DEF ToSet
<1>3. ASSUME NEW i \in DOMAIN t PROVE t[i] \in ToSet(q) \ {q[n]}
  <2>1. From(i) \in DOMAIN q /\ From(i) # n
    BY <1>1
  <2> HIDE DEF From
  <2>2. q[From(i)] # q[n]
    BY <2>1
  <2> QED BY <1>1, <1>2, <2>1, <2>2
<1>4. ASSUME NEW i \in DOMAIN q, q[i] # q[n] PROVE q[i] \in ToSet(t)
  <2>1. PICK k \in DOMAIN t : From(k) = i
    <3>1. i # n
      BY <1>4
    <3>2. CASE i < n
      <4>1. i \in DOMAIN t /\ From(i) = i
        BY <1>1, <3>2
      <4> QED BY <4>1
    <3>3. CASE ~(i < n)
      <4>1. i - 1 \in DOMAIN t /\ From(i - 1) = i
        BY <1>1, <3>1, <3>3
      <4> QED BY <4>1
    <3> QED BY <3>2, <3>3
  <2> HIDE DEF From
  <2>2. t[k] = q[i]
    BY <1>1, <2>1
  <2> QED BY <1>2, <2>2
<1>5. ToSet(t) = ToSet(q) \ {q[n]}
  BY <1>2, <1>3, <1>4
<1> QED BY <1>5 DEF t

------------------------------------------------------------------------------
LEMMA QueuedElements == Queued = {queue[i] : i \in DOMAIN queue}
  BY DEF Queued, ToSet

\* Who has a job is the only one who has it.
LEMMA HolderIs ==
    ASSUME QueueInv, WorkerHasJob, NEW w \in Workers, NEW j \in Jobs, wjob[w] = j
    PROVE  Held(j) /\ Holder[j] = w
<1>1. \A v \in Workers : wjob[v] = j => v = w
  BY DEF QueueInv, WorkerHasJob
<1>2. (CHOOSE v \in Workers : wjob[v] = j) = w
  BY <1>1
<1> QED BY <1>2 DEF Held, Holder

\* A queued job was created and is with no worker.
LEMMA QueuedNotHeld ==
    ASSUME QueueInv, WorkerHasJob, NEW j \in Jobs, j \in Queued
    PROVE  status[j] = "queued" /\ ~Held(j)
  BY QueuedElements DEF QueueInv, WorkerHasJob, Held

\* Steps that create no job and leave the queue and the workers' jobs alone.
LEMMA LifecycleFrame ==
    ASSUME UNCHANGED <<queue, wjob, result>>,
           \A j \in Jobs : status'[j] = "none" <=> status[j] = "none"
    PROVE  UNCHANGED Lifecycle!vars
<1>1. Queued' = Queued
  BY DEF Queued
<1>2. \A j : Held(j)' = Held(j)
  BY DEF Held
<1>3. Phase' = Phase
  BY <1>1, <1>2 DEF Phase
<1>4. Holder' = Holder
  BY DEF Holder, Held
<1> QED BY <1>3, <1>4 DEF Lifecycle!vars

\* The phases change as they do job by job.
LEMMA PhaseUpdate ==
    ASSUME NEW j \in Jobs, NEW v, \A i \in Jobs : Phase'[i] = IF i = j THEN v ELSE Phase[i]
    PROVE  Phase' = [Phase EXCEPT ![j] = v]
<1>1. Phase' = [i \in Jobs |-> Phase'[i]] /\ Phase = [i \in Jobs |-> Phase[i]]
  BY DEF Phase
<1> HIDE DEF Phase
<1> QED BY <1>1

LEMMA EnqueueSubmits ==
    ASSUME IInv, NEW r \in Requests, EnqueueJob(r) PROVE Lifecycle!Next
<1> USE DEF IInv, TypeOK
<1>1. PICK j \in Jobs : /\ status[j] = "none"
                        /\ status' = [status EXCEPT ![j] = "queued"]
                        /\ queue' = Append(queue, j)
  BY DEF EnqueueJob
<1>2. UNCHANGED <<wjob, result>>
  BY DEF EnqueueJob, workerVars
<1>3. Queued' = Queued \cup {j}
  BY <1>1, AppendAdds DEF Queued
<1>4. \A i : Held(i)' = Held(i)
  BY <1>2 DEF Held
<1>5. Phase[j] = "new"
  BY <1>1 DEF Phase
<1>6. Phase' = [Phase EXCEPT ![j] = "waiting"]
  BY <1>1, <1>3, <1>4 DEF Phase
<1>7. Holder' = Holder
  BY <1>2 DEF Holder, Held
<1>8. Lifecycle!Submit(j)
  BY <1>2, <1>5, <1>6, <1>7 DEF Lifecycle!Submit, Lifecycle!Move
<1> QED BY <1>8 DEF Lifecycle!Next

LEMMA DequeueTakes ==
    ASSUME IInv, IInv', NEW w \in Workers, Dequeue(w) PROVE Lifecycle!Next
<1> USE DEF IInv, TypeOK
<1> DEFINE j == Head(queue)
<1>1. /\ wpc[w] = "idle" /\ queue # <<>> /\ queue' = Tail(queue)
      /\ wjob' = [wjob EXCEPT ![w] = j]
      /\ UNCHANGED <<status, result>>
  BY DEF Dequeue
<1>2. j \in Jobs /\ j = queue[1] /\ 1 \in DOMAIN queue
  BY <1>1
<1>3. Queued' = Queued \ {j}
  BY <1>1, TailRemoves DEF Queued, QueueInv
<1>4. j \in Queued
  BY <1>2, QueuedElements
<1> HIDE DEF j
<1>5. status[j] = "queued" /\ ~Held(j)
  BY <1>2, <1>4, QueuedNotHeld
<1>6. wjob[w] = NoJob
  BY <1>1 DEF WorkerHasJob
<1>7. \A i \in Jobs : Held(i)' <=> Held(i) \/ i = j
  BY <1>1, <1>2, <1>6 DEF Held
<1>8. Phase[j] = "waiting" /\ Phase' = [Phase EXCEPT ![j] = "taken"]
  <2>1. Phase[j] = "waiting"
    BY <1>2, <1>4, <1>5 DEF Phase
  <2>2. ASSUME NEW i \in Jobs
        PROVE  Phase'[i] = IF i = j THEN "taken" ELSE Phase[i]
    BY <1>1, <1>3, <1>5, <1>7 DEF Phase
  <2> QED BY <1>2, <2>1, <2>2, PhaseUpdate
<1>9. Holder' = [Holder EXCEPT ![j] = w]
  <2>1. ASSUME NEW i \in Jobs, i # j PROVE Holder'[i] = Holder[i]
    <3>1. \A v \in Workers : wjob'[v] = i <=> wjob[v] = i
      BY <1>1, <1>6, <2>1
    <3>2. (CHOOSE v \in Workers : wjob'[v] = i) = (CHOOSE v \in Workers : wjob[v] = i)
      BY <3>1
    <3> QED BY <1>7, <2>1, <3>2 DEF Holder, Held
  <2>2. Holder'[j] = w
    <3>1. wjob'[w] = j
      BY <1>1
    <3>2. \A v \in Workers : wjob'[v] = j => v = w
      BY <1>1, <1>5 DEF Held
    <3>3. (CHOOSE v \in Workers : wjob'[v] = j) = w
      BY <3>1, <3>2
    <3> QED BY <1>2, <3>1, <3>3 DEF Holder, Held
  <2>3. Holder' = [i \in Jobs |-> Holder'[i]] /\ Holder = [i \in Jobs |-> Holder[i]]
    BY DEF Holder
  <2> QED BY <2>1, <2>2, <2>3
<1>10. \A i \in Jobs : Holder[i] # w
  <2>1. ASSUME NEW i \in Jobs, Held(i) PROVE Holder[i] # w
    <3>1. PICK v \in Workers : wjob[v] = i
      BY <2>1 DEF Held
    <3>2. Holder[i] = v
      BY <3>1, HolderIs
    <3> QED BY <1>6, <3>1, <3>2
  <2>2. \A i \in Jobs : ~Held(i) => Holder[i] = NoJob
    BY DEF Holder
  <2> QED BY <2>1, <2>2
<1>11. Lifecycle!Take(w, j)
  BY <1>1, <1>8, <1>9, <1>10 DEF Lifecycle!Take, Lifecycle!Move
<1> QED BY <1>2, <1>11 DEF Lifecycle!Next

\* A worker that leaves its job, or dies with it, ends the job.
LEMMA ReleaseLetsGo ==
    ASSUME IInv, NEW w \in Workers, wpc[w] # "idle", UNCHANGED queue,
           wjob' = [wjob EXCEPT ![w] = NoJob],
           \A i \in Jobs : status'[i] = "none" <=> status[i] = "none",
           NEW o \in {"none", "data", "error"}, result' = [result EXCEPT ![wjob[w]] = o]
    PROVE  Lifecycle!Next
<1> USE DEF IInv, TypeOK
<1> DEFINE j == wjob[w]
<1>1. /\ j \in Jobs /\ status[j] # "none"
      /\ \A v \in Workers : wjob[v] = j => v = w
  BY DEF WorkerHasJob, QueueInv
<1>2. j \notin Queued
  BY QueuedElements DEF QueueInv
<1>3. wjob' = [wjob EXCEPT ![w] = NoJob] /\ wjob[w] = j
  OBVIOUS
<1>4. result' = [result EXCEPT ![j] = o]
  OBVIOUS
<1> HIDE DEF j
<1>5. Held(j) /\ \A i \in Jobs : Held(i)' <=> Held(i) /\ i # j
  BY <1>1, <1>3 DEF Held
<1>6. Queued' = Queued
  BY DEF Queued
<1>7. Phase[j] = "taken" /\ Phase' = [Phase EXCEPT ![j] = "over"]
  <2>1. Phase[j] = "taken"
    BY <1>1, <1>2, <1>5 DEF Phase
  <2>2. ASSUME NEW i \in Jobs PROVE Phase'[i] = IF i = j THEN "over" ELSE Phase[i]
    BY <1>1, <1>2, <1>5, <1>6 DEF Phase
  <2> QED BY <1>1, <2>1, <2>2, PhaseUpdate
<1>8. Holder' = [Holder EXCEPT ![j] = NoJob]
  <2>1. ASSUME NEW i \in Jobs, i # j PROVE Holder'[i] = Holder[i]
    <3>1. \A v \in Workers : wjob'[v] = i <=> wjob[v] = i
      BY <1>3, <2>1
    <3>2. (CHOOSE v \in Workers : wjob'[v] = i) = (CHOOSE v \in Workers : wjob[v] = i)
      BY <3>1
    <3> QED BY <1>5, <2>1, <3>2 DEF Holder, Held
  <2>2. Holder'[j] = NoJob
    BY <1>1, <1>5 DEF Holder
  <2>3. Holder' = [i \in Jobs |-> Holder'[i]] /\ Holder = [i \in Jobs |-> Holder[i]]
    BY DEF Holder
  <2> QED BY <2>1, <2>2, <2>3
<1>9. Lifecycle!LetGo(j)
  BY <1>4, <1>7, <1>8 DEF Lifecycle!LetGo, Lifecycle!Move
<1> QED BY <1>1, <1>9 DEF Lifecycle!Next

LEMMA CancelWithdraws ==
    ASSUME IInv, NEW n \in DOMAIN queue, queue' = RemoveAt(queue, n),
           UNCHANGED <<status, wjob, result>>
    PROVE  Lifecycle!Next
<1> USE DEF IInv, TypeOK
<1> DEFINE j == queue[n]
<1>1. j \in Jobs /\ j \in Queued
  BY QueuedElements
<1>2. Queued' = Queued \ {j}
  BY RemoveAtRemoves DEF Queued, QueueInv
<1> HIDE DEF j
<1>3. status[j] # "none" /\ ~Held(j)
  BY <1>1, QueuedNotHeld
<1>4. \A i : Held(i)' = Held(i)
  BY DEF Held
<1>5. Phase[j] = "waiting" /\ Phase' = [Phase EXCEPT ![j] = "over"]
  <2>1. Phase[j] = "waiting"
    BY <1>1, <1>3 DEF Phase
  <2>2. ASSUME NEW i \in Jobs PROVE Phase'[i] = IF i = j THEN "over" ELSE Phase[i]
    BY <1>1, <1>2, <1>3, <1>4 DEF Phase
  <2> QED BY <1>1, <2>1, <2>2, PhaseUpdate
<1>6. Holder' = Holder
  BY DEF Holder, Held
<1>7. Lifecycle!Withdraw(j)
  BY <1>5, <1>6 DEF Lifecycle!Withdraw, Lifecycle!Move
<1> QED BY <1>1, <1>7 DEF Lifecycle!Next

LEMMA StepRefines == IInv /\ IInv' /\ [Next]_vars => [Lifecycle!Next]_(Lifecycle!vars)
<1> SUFFICES ASSUME IInv, IInv', [Next]_vars PROVE [Lifecycle!Next]_(Lifecycle!vars)
  OBVIOUS
<1> DEFINE Kept == \A j \in Jobs : status'[j] = "none" <=> status[j] = "none"
<1> USE DEF rqVars, workerVars
<1>1. ASSUME NEW r \in Requests, RequestStep(r), ~EnqueueJob(r) PROVE UNCHANGED Lifecycle!vars
  BY <1>1, LifecycleFrame DEF RequestStep, Watch, LeaveLoop, AnswerAtOnce, GetLock, FetchJob,
                              ReadStatus, DropLock, ExecSetLock, ExecFails
<1>2. ASSUME NEW w \in Workers,
             \/ QueryEnds(w) \/ Unlock(w) \/ StoreResult(w) \/ HorseRaises(w)
             \/ HorseInterrupted(w) \/ HardLimitKill(w) \/ HorseCrashes(w)
      PROVE  UNCHANGED Lifecycle!vars
  BY <1>2, LifecycleFrame DEF QueryEnds, Unlock, StoreResult, HorseRaises, HorseInterrupted,
       HardLimitKill, HorseDies, HorseMoves, HorseCrashes
<1>3. ASSUME NEW w \in Workers, StartJob(w) PROVE UNCHANGED Lifecycle!vars
  <2>1. wjob[w] \in Jobs /\ status[wjob[w]] # "none"
    BY <1>3 DEF StartJob, IInv, WorkerHasJob, QueueInv
  <2>2. UNCHANGED <<queue, wjob, result>> /\ status' = [status EXCEPT ![wjob[w]] = "started"]
    BY <1>3 DEF StartJob
  <2>3. Kept
    BY <2>1, <2>2 DEF IInv, TypeOK
  <2> QED BY <2>2, <2>3, LifecycleFrame
<1>4. ASSUME NEW w \in Workers, NEW s \in Over, LeaveJob(w, s), wpc[w] # "idle",
             NEW o \in {"none", "data", "error"}, result' = [result EXCEPT ![wjob[w]] = o]
      PROVE  Lifecycle!Next
  <2>1. wjob[w] \in Jobs /\ status[wjob[w]] # "none"
    BY <1>4 DEF IInv, WorkerHasJob, QueueInv
  <2>2. /\ UNCHANGED queue /\ wjob' = [wjob EXCEPT ![w] = NoJob]
        /\ status' = [status EXCEPT ![wjob[w]] = s]
    BY <1>4 DEF LeaveJob
  <2>3. Kept
    BY <2>1, <2>2 DEF IInv, TypeOK, Over
  <2> QED BY <1>4, <2>2, <2>3, ReleaseLetsGo
<1>5. ASSUME NEW w \in Workers, FinishJob(w) PROVE Lifecycle!Next
  <2>1. PICK o \in {"data", "error"} : result' = [result EXCEPT ![wjob[w]] = o]
    BY <1>5 DEF FinishJob, ReturnFromJob
  <2>2. wpc[w] # "idle" /\ LeaveJob(w, "finished") /\ "finished" \in Over
    BY <1>5 DEF FinishJob, ReturnFromJob, Over
  <2> QED BY <1>4, <2>1, <2>2
<1>6. ASSUME NEW w \in Workers, FailJob(w) \/ ReapHorse(w) PROVE Lifecycle!Next
  <2>1. PICK s \in Over : LeaveJob(w, s)
    BY <1>6 DEF FailJob, ReapHorse, Over
  <2>2. wpc[w] # "idle" /\ UNCHANGED result
    BY <1>6 DEF FailJob, ReapHorse
  <2>3. wjob[w] \in Jobs
    BY <2>2 DEF IInv, WorkerHasJob
  <2>4. /\ result[wjob[w]] \in {"none", "data", "error"}
        /\ result' = [result EXCEPT ![wjob[w]] = result[wjob[w]]]
    BY <2>2, <2>3 DEF IInv, TypeOK
  <2> QED BY <1>4, <2>1, <2>2, <2>4
<1>7. ASSUME NEW w \in Workers, WorkerCrashes(w) PROVE Lifecycle!Next
  <2>1. /\ wpc[w] # "idle" /\ wjob' = [wjob EXCEPT ![w] = NoJob]
        /\ UNCHANGED <<queue, status, result>>
    BY <1>7 DEF WorkerCrashes
  <2>2. wjob[w] \in Jobs
    BY <2>1 DEF IInv, WorkerHasJob
  <2>3. /\ result[wjob[w]] \in {"none", "data", "error"}
        /\ result' = [result EXCEPT ![wjob[w]] = result[wjob[w]]]
    BY <2>1, <2>2 DEF IInv, TypeOK
  <2> QED BY <2>1, <2>3, ReleaseLetsGo
<1>8. ASSUME NEW j \in Jobs, TimeLimitPasses(j) \/ CancelMark(j)
      PROVE  UNCHANGED Lifecycle!vars
  BY <1>8, LifecycleFrame DEF TimeLimitPasses, CancelMark
<1>9. ASSUME NEW j \in Jobs, JobExpires(j) PROVE UNCHANGED Lifecycle!vars
  <2>1. UNCHANGED <<queue, wjob, result>> /\ Kept
    BY <1>9 DEF JobExpires, IInv, TypeOK
  <2> QED BY <2>1, LifecycleFrame
<1>10. ASSUME NEW j \in Jobs, CancelRemove(j) PROVE [Lifecycle!Next]_(Lifecycle!vars)
  <2>1. UNCHANGED <<status, wjob, result>>
    BY <1>10 DEF CancelRemove
  <2>2. CASE UNCHANGED queue
    BY <2>1, <2>2, LifecycleFrame
  <2>3. ASSUME NEW n \in DOMAIN queue, queue' = RemoveAt(queue, n) PROVE Lifecycle!Next
    BY <2>1, <2>3, CancelWithdraws
  <2> QED BY <1>10, <2>2, <2>3 DEF CancelRemove
<1>11. ASSUME NEW h \in Hashes, LockExpires(h) PROVE UNCHANGED Lifecycle!vars
  BY <1>11, LifecycleFrame DEF LockExpires
<1>12. CASE RegistryMaintenance \/ Sweep
  <2>1. UNCHANGED <<queue, wjob, result>>
    BY <1>12 DEF RegistryMaintenance, Sweep, SweepKeys, SweepGet, SweepStarted,
                 SweepQueued, SweepDelete, SweepUnchanged
  <2>2. ASSUME CleanupRegistry PROVE Kept
    BY <2>2 DEF CleanupRegistry, IInv, QueueInv
  <2>3. Kept
    BY <1>12, <2>2 DEF RegistryMaintenance, Sweep, SweepKeys, SweepGet, SweepStarted,
                 SweepQueued, SweepDelete
  <2> QED BY <2>1, <2>3, LifecycleFrame
<1>13. CASE UNCHANGED vars
  BY <1>13, LifecycleFrame DEF vars
<1> QED
  BY <1>1, <1>2, <1>3, <1>5, <1>6, <1>7, <1>8, <1>9, <1>10, <1>11, <1>12, <1>13,
     EnqueueSubmits, DequeueTakes
  DEF Next, RequestStep, WorkerStep, JobStep

LEMMA LifecycleInit == Init => Lifecycle!Init
<1> SUFFICES ASSUME Init PROVE Lifecycle!Init
  OBVIOUS
<1>1. \A j \in Jobs : ~Held(j)
  BY DEF Init, Held
<1>2. Phase = [j \in Jobs |-> "new"]
  BY DEF Init, Phase
<1>3. Holder = [j \in Jobs |-> NoJob]
  BY <1>1 DEF Holder
<1> QED BY <1>2, <1>3 DEF Init, Lifecycle!Init

\* Every job enqueue_query creates is handed to at most one worker, once, and its
\* return value is written once, by that worker, whatever requests,
\* cancellations, crashes and sweeps there are.
THEOREM QueueImplementsLifecycle == Spec => ImplementsLifecycle
  BY LifecycleInit, StepRefines, Inductive, PTL DEF Spec, ImplementsLifecycle, Lifecycle!Spec

------------------------------------------------------------------------------
(***************************************************************************)
(* What the life of a job says of the queue.                               *)
(***************************************************************************)
LEMMA OverIsAbandoned == \A j \in Jobs : Abandoned(j) <=> Phase[j] = "over"
  BY QueuedElements DEF Abandoned, Phase

\* A job that has left the queue and its worker, however it did, is over for good:
\* it is never queued or run again, and what it returned stays.
THEOREM JobsEndOnce ==
    Spec => [][\A j \in Jobs : Abandoned(j) => Abandoned(j)' /\ result'[j] = result[j]]_vars
<1> DEFINE Ends == \A j \in Jobs : Abandoned(j) => Abandoned(j)' /\ result'[j] = result[j]
<1>1. ASSUME [Lifecycle!Next]_(Lifecycle!vars) PROVE Ends
  <2>1. ASSUME NEW j \in Jobs, Phase[j] = "over"
        PROVE  Phase'[j] = "over" /\ result'[j] = result[j]
    <3>1. CASE UNCHANGED Lifecycle!vars
      BY <2>1, <3>1 DEF Lifecycle!vars
    <3>2. ASSUME NEW i \in Jobs, NEW from \in {"new", "waiting", "taken"}, NEW to,
                 Lifecycle!Move(i, from, to)
          PROVE  i # j /\ Phase'[j] = "over"
      <4>1. Phase = [k \in Jobs |-> Phase[k]]
        BY DEF Phase
      <4>2. Phase[i] = from /\ Phase' = [Phase EXCEPT ![i] = to]
        BY <3>2 DEF Lifecycle!Move
      <4> QED BY <2>1, <4>1, <4>2
    <3>3. ASSUME NEW i \in Jobs,
                 Lifecycle!Submit(i) \/ Lifecycle!Withdraw(i)
                   \/ \E w \in Workers : Lifecycle!Take(w, i)
          PROVE  Phase'[j] = "over" /\ result'[j] = result[j]
      BY <3>2, <3>3 DEF Lifecycle!Submit, Lifecycle!Withdraw, Lifecycle!Take
    <3>4. ASSUME NEW i \in Jobs, Lifecycle!LetGo(i)
          PROVE  Phase'[j] = "over" /\ result'[j] = result[j]
      <4>1. i # j /\ Phase'[j] = "over"
        BY <3>2, <3>4 DEF Lifecycle!LetGo
      <4>2. PICK o : result' = [result EXCEPT ![i] = o]
        BY <3>4 DEF Lifecycle!LetGo
      <4> QED BY <4>1, <4>2
    <3> QED BY <1>1, <3>1, <3>3, <3>4 DEF Lifecycle!Next
  <2>2. \A j \in Jobs : Abandoned(j)' <=> Phase'[j] = "over"
    BY QueuedElements DEF Abandoned, Phase, Queued, Held
  <2> QED BY <2>1, <2>2, OverIsAbandoned
<1>2. IInv /\ IInv' /\ [Next]_vars => [Ends]_vars
  BY <1>1, StepRefines
<1> QED BY <1>2, Inductive, PTL DEF Spec

------------------------------------------------------------------------------
(***************************************************************************)
(* Pages that poll.  A poll changes nothing but its own page.              *)
(***************************************************************************)
LEMMA PollKeeps == ASSUME AInv, NEW r \in Requests, Poll(r) PROVE AInv'
<1> USE DEF AInv, IInv
<1>1. /\ rpc[r] = "done" /\ rpc' = [rpc EXCEPT ![r] = "told"]
      /\ UNCHANGED <<lock, rqVars, stored, tries, rjob, seen, history, dirty, workerVars,
                     sweep, crashes>>
  BY DEF Poll
<1> USE DEF rqVars, history, workerVars
<1>2. TypeOK' /\ WorkerHasJob'
  <2>1. rpc' \in [Requests -> RequestPCs]
    BY <1>1 DEF TypeOK, RequestPCs
  <2> QED BY <1>1, <2>1 DEF TypeOK, WorkerHasJob
<1>3. QueueInv' /\ CancelInv' /\ StoredInv'
  BY <1>1 DEF QueueInv, CancelInv, CancelledNotQueued, Queued, StoredInv, ResultIsStored
<1>4. AnswerInv'
  <2>1. ASSUME NEW q \in Requests
        PROVE  /\ rpc'[q] \in {"fetch", "status"} => seen[q] \in Jobs
               /\ rpc'[q] \in {"exec", "done", "told"} => rjob[q] \in Jobs
               /\ rpc'[q] = "loop" => (tries[q] = 0 <=> rjob[q] = NoJob)
               /\ tries[q] = 0 => rpc'[q] \in {"loop", "cached", "refused"}
    BY <1>1 DEF AnswerInv, TypeOK
  <2> QED BY <1>1, <2>1 DEF AnswerInv, JobOf
<1>5. FreshInv'
  BY <1>1 DEF FreshInv, LockIsIrrelevant, StatusSaysIrrelevant, TypeOK
<1>6. LateInv'
  BY <1>1 DEF LateInv, Unlocked, TypeOK
<1> QED BY <1>2, <1>3, <1>4, <1>5, <1>6

LEMMA PollingSteps == PollingSpec => Init /\ [][PollingNext]_vars
  BY PTL DEF PollingSpec

LEMMA PollingInductive == PollingSpec => []AInv
<1>1. Init => AInv
  BY AInvInit
<1>2. AInv /\ [PollingNext]_vars => AInv'
  BY PollKeeps, LateInvPreserved, IInvPreserved DEF PollingNext, AInv
<1> QED BY <1>1, <1>2, PollingSteps, PTL

\* No job is with two workers or comes back to the queue, while pages poll.
THEOREM OneRunnerWhilePolled == PollingSpec => []OneRunner
<1>1. AInv => OneRunner
  BY DEF AInv, IInv, QueueInv, OneRunner, Queued, ToSet
<1> QED BY <1>1, PollingInductive, PTL

\* A result id that a poll may deliver is the id of a result that is committed.
THEOREM ResultIsStoredWhilePolled == PollingSpec => []ResultIsStored
<1>1. AInv => ResultIsStored
  BY DEF AInv, IInv, StoredInv
<1> QED BY <1>1, PollingInductive, PTL

\* The queue and the pages that poll it implement the abstract life of a job.
THEOREM PollingImplementsLifecycle == PollingSpec => ImplementsLifecycle
<1>1. AInv /\ AInv' /\ [PollingNext]_vars => [Lifecycle!Next]_(Lifecycle!vars)
  <2>1. ASSUME NEW r \in Requests, Poll(r) PROVE UNCHANGED Lifecycle!vars
    BY <2>1, LifecycleFrame DEF Poll, rqVars, workerVars
  <2> QED BY <2>1, StepRefines DEF PollingNext, AInv
<1> QED
  BY <1>1, LifecycleInit, PollingInductive, PollingSteps, PTL DEF ImplementsLifecycle, Lifecycle!Spec

------------------------------------------------------------------------------
(***************************************************************************)
(* What api/jobs/<id> says of a job.                                       *)
(***************************************************************************)
\* How a step may change what is said: marks stay, results are only written, and
\* a job that has failed or expired and is run to its end all the same returns.
LEMMA AnswerSteps ==
    ASSUME IInv, [PollingNext]_vars, NEW j \in Jobs
    PROVE  /\ j \in cancelled => j \in cancelled'
           /\ result'[j] = result[j] \/ result'[j] \in {"data", "error"}
           /\ status[j] \in {"failed", "expired"} =>
                status'[j] \in {"failed", "expired"} \/ result'[j] \in {"data", "error"}
<1> DEFINE Kept == UNCHANGED <<cancelled, result, status>>
           Fits == /\ j \in cancelled => j \in cancelled'
                   /\ result'[j] = result[j] \/ result'[j] \in {"data", "error"}
                   /\ status[j] \in {"failed", "expired"} =>
                        \/ status'[j] \in {"failed", "expired"}
                        \/ result'[j] \in {"data", "error"}
<1> USE DEF rqVars
<1>1. ASSUME NEW r \in Requests, RequestStep(r) \/ Poll(r) PROVE Fits
  <2>1. CASE EnqueueJob(r)
    <3>1. PICK i \in Jobs : status[i] = "none" /\ status' = [status EXCEPT ![i] = "queued"]
      BY <2>1 DEF EnqueueJob
    <3>2. UNCHANGED <<cancelled, result>>
      BY <2>1 DEF EnqueueJob
    <3> QED BY <3>1, <3>2
  <2>2. CASE ~EnqueueJob(r)
    <3>1. Kept
      BY <1>1, <2>2 DEF RequestStep, Poll, Watch, LeaveLoop, AnswerAtOnce, GetLock, FetchJob,
                        ReadStatus, DropLock, ExecSetLock, ExecFails
    <3> QED BY <3>1
  <2> QED BY <2>1, <2>2
<1>2. ASSUME NEW w \in Workers, StartJob(w) PROVE Fits
  <2>1. /\ status[wjob[w]] = "queued" /\ status' = [status EXCEPT ![wjob[w]] = "started"]
        /\ UNCHANGED <<cancelled, result>>
    BY <1>2 DEF StartJob, IInv, QueueInv
  <2> QED BY <2>1
<1>3. ASSUME NEW w \in Workers, FinishJob(w) PROVE Fits
  <2>1. PICK o \in {"data", "error"} : result' = [result EXCEPT ![wjob[w]] = o]
    BY <1>3 DEF FinishJob, ReturnFromJob
  <2>2. cancelled' = cancelled /\ status' = [status EXCEPT ![wjob[w]] = "finished"]
    BY <1>3 DEF FinishJob, ReturnFromJob, LeaveJob
  <2> QED BY <2>1, <2>2 DEF IInv, TypeOK
<1>4. ASSUME NEW w \in Workers, FailJob(w) \/ ReapHorse(w) PROVE Fits
  <2>1. UNCHANGED <<cancelled, result>>
    BY <1>4 DEF FailJob, ReapHorse, LeaveJob
  <2>2. \/ status' = [status EXCEPT ![wjob[w]] = "failed"]
        \/ status' = [status EXCEPT ![wjob[w]] = status[wjob[w]]]
    BY <1>4 DEF FailJob, ReapHorse, LeaveJob
  <2> QED BY <2>1, <2>2 DEF IInv, TypeOK
<1>5. ASSUME NEW w \in Workers,
             \/ Dequeue(w) \/ QueryEnds(w) \/ Unlock(w) \/ StoreResult(w) \/ HorseRaises(w)
             \/ HorseInterrupted(w) \/ HardLimitKill(w) \/ HorseCrashes(w) \/ WorkerCrashes(w)
      PROVE  Fits
  <2>1. Kept
    BY <1>5 DEF Dequeue, QueryEnds, Unlock, StoreResult, HorseRaises, HorseInterrupted,
         HardLimitKill, HorseDies, HorseMoves, HorseCrashes, WorkerCrashes
  <2> QED BY <2>1
<1>6. ASSUME NEW i \in Jobs, JobStep(i) PROVE Fits
  <2>1. CASE JobExpires(i)
    <3>1. status' = [status EXCEPT ![i] = "expired"] /\ UNCHANGED <<cancelled, result>>
      BY <2>1 DEF JobExpires
    <3> QED BY <3>1 DEF IInv, TypeOK
  <2>2. CASE ~JobExpires(i)
    <3>1. cancelled \subseteq cancelled' /\ UNCHANGED <<result, status>>
      BY <1>6, <2>2 DEF JobStep, TimeLimitPasses, CancelMark, CancelRemove
    <3> QED BY <3>1
  <2> QED BY <2>1, <2>2
<1>7. ASSUME NEW h \in Hashes, LockExpires(h) PROVE Fits
  BY <1>7 DEF LockExpires
<1>8. CASE RegistryMaintenance \/ Sweep
  <2>1. UNCHANGED <<cancelled, result>>
    BY <1>8 DEF RegistryMaintenance, Sweep, SweepKeys, SweepGet, SweepStarted, SweepQueued,
                SweepDelete, SweepUnchanged
  <2>2. \/ status' = status
        \/ status' = [k \in Jobs |-> IF k \in registry \cap overdue THEN "failed" ELSE status[k]]
    BY <1>8 DEF RegistryMaintenance, Sweep, SweepKeys, SweepGet, SweepStarted, SweepQueued,
                SweepDelete, CleanupRegistry
  <2> QED BY <2>1, <2>2
<1>9. CASE UNCHANGED vars
  BY <1>9 DEF vars
<1> QED
  BY <1>1, <1>2, <1>3, <1>4, <1>5, <1>6, <1>7, <1>8, <1>9 DEF PollingNext, Next, WorkerStep

LEMMA AnsweredStays ==
    ASSUME IInv, [PollingNext]_vars, NEW j \in Jobs, Answered(j)
    PROVE  Answered(j)'
  BY AnswerSteps DEF Answered, IsError

\* A job that was said to have failed, to be cancelled or to have a result never
\* looks pending again.
THEOREM NoAnswerTakenBackAlways == PollingSpec => NoAnswerTakenBack
<1>1. AInv /\ [PollingNext]_vars => [\A j \in Jobs : Answered(j) => Answered(j)']_vars
  BY AnsweredStays DEF AInv
<1> QED BY <1>1, PollingInductive, PollingSteps, PTL DEF NoAnswerTakenBack

\* A page that has stopped polling was given a job of its own query, one that was
\* not over when it asked (unless its hash expired under the request); the job is
\* still answered, and a result id it was told is the id of a committed result.
PageIsToldRight ==
    \A r \in Requests : rpc[r] = "told" =>
        /\ rjob[r] \in Jobs /\ jobHash[rjob[r]] = HashOf[r]
        /\ rjob[r] \in stale[r] => rjob[r] \in vanished[r]
        /\ Answered(rjob[r])
        /\ result[rjob[r]] = "data" => rjob[r] \in stored

ToldInv == \A r \in Requests : rpc[r] = "told" => Answered(rjob[r])

\* Only a poll tells a page, and a page that was told does nothing more.
LEMMA ToldSteps ==
    ASSUME TypeOK, [PollingNext]_vars, NEW r \in Requests, rpc'[r] = "told"
    PROVE  /\ rjob'[r] = rjob[r]
           /\ rpc[r] = "told" \/ Answered(rjob[r])
<1>1. ASSUME NEW q \in Requests, Poll(q) PROVE rjob'[r] = rjob[r] /\ (rpc[r] = "told" \/ Answered(rjob[r]))
  BY <1>1 DEF Poll, TypeOK
<1>2. ASSUME NEW q \in Requests, RequestStep(q) PROVE rjob'[r] = rjob[r] /\ rpc[r] = "told"
  <2>1. q # r
    BY <1>2 DEF RequestStep, Watch, LeaveLoop, AnswerAtOnce, GetLock, FetchJob,
                ReadStatus, DropLock, EnqueueJob, ExecSetLock, ExecFails, TypeOK
  <2> QED
    BY <1>2, <2>1 DEF RequestStep, Watch, LeaveLoop, AnswerAtOnce, GetLock, FetchJob,
                      ReadStatus, DropLock, EnqueueJob, ExecSetLock, ExecFails, TypeOK
<1>3. CASE ~\E q \in Requests : Poll(q) \/ RequestStep(q)
  <2>1. rpc' = rpc /\ rjob' = rjob
    BY <1>3 DEF PollingNext, Next, WorkerStep, JobStep, Dequeue, StartJob, QueryEnds, Unlock,
         StoreResult, HorseRaises, HorseInterrupted, FinishJob, ReturnFromJob, FailJob,
         HardLimitKill, HorseDies, HorseMoves, LeaveJob, HorseCrashes, ReapHorse, WorkerCrashes,
         TimeLimitPasses, JobExpires, CancelMark, CancelRemove, LockExpires,
         RegistryMaintenance, Sweep, SweepKeys, SweepGet, SweepStarted, SweepQueued,
         SweepDelete, SweepUnchanged, vars, reqVars
  <2> QED BY <2>1
<1> QED BY <1>1, <1>2, <1>3

\* What a page is told is right, and stays right after it has stopped asking.
THEOREM PagesAreToldRight == PollingSpec => []PageIsToldRight
<1>1. Init => ToldInv
  BY DEF Init, ToldInv
<1>2. AInv /\ AInv' /\ ToldInv /\ [PollingNext]_vars => ToldInv'
  <2> SUFFICES ASSUME AInv, AInv', ToldInv, [PollingNext]_vars, NEW r \in Requests, rpc'[r] = "told"
               PROVE  Answered(rjob[r])'
    BY DEF ToldInv
  <2>1. rjob'[r] = rjob[r] /\ rjob[r] \in Jobs /\ Answered(rjob[r])
    <3>1. rjob'[r] \in Jobs
      BY DEF AInv, IInv, AnswerInv
    <3> QED BY <3>1, ToldSteps DEF AInv, IInv, ToldInv
  <2>2. \A j \in Jobs : Answered(j) => Answered(j)'
    BY AnsweredStays DEF AInv
  <2> QED BY <2>1, <2>2 DEF Answered, IsError
<1>3. AInv /\ ToldInv => PageIsToldRight
  BY DEF AInv, IInv, AnswerInv, FreshInv, StoredInv, ResultIsStored, JobOf, ToldInv, PageIsToldRight
<1> QED BY <1>1, <1>2, <1>3, PollingInductive, PollingSteps, PTL

==============================================================================
