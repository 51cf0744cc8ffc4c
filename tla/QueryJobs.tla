------------------------------ MODULE QueryJobs ------------------------------
(***************************************************************************)
(* The query-execution core of bi-tool: web requests and the scheduler     *)
(* call enqueue_query, RQ workers pop the jobs and run execute_query, the  *)
(* periodic remove_ghost_locks sweeps the per-query locks, and clients     *)
(* cancel jobs.  They share two Redis structures: RQ's (job hashes, queue, *)
(* StartedJobRegistry) and one lock key per query hash and data source,    *)
(* which holds the id of the job that is to answer that query.             *)
(*                                                                         *)
(* Every Redis round trip that another process can interleave with is an   *)
(* action of its own.  A job id is a member of Jobs; a (query hash, data   *)
(* source) pair is a member of Hashes.                                     *)
(***************************************************************************)
EXTENDS Integers, Sequences, SequencesExt

CONSTANTS
    Requests,     \* calls of enqueue_query
    HashOf,       \* HashOf[r]: the query hash request r asks for
    Hashes,       \* the lock keys
    Jobs,         \* RQ job ids
    Workers,      \* RQ worker processes, each with at most one work horse
    NoJob,        \* no job id: Redis nil, Python None
    NoHash,       \* the query of a job id that was never used
    MaxTries,     \* rounds of enqueue_query's optimistic loop (5 in the code)
    TimeLimited,  \* do the jobs carry a time limit (query_time_limit # -1)?
    MaxCancels,   \* bound: cancelled jobs
    MaxCrashes    \* bound: work horses and workers that die

ASSUME HashOfAssumption == HashOf \in [Requests -> Hashes]
ASSUME NoJobAssumption  == NoJob \notin Jobs
ASSUME NoHashAssumption == NoHash \notin Hashes
ASSUME BoundsAssumption == /\ MaxTries \in Nat \ {0}
                           /\ TimeLimited \in BOOLEAN
                           /\ MaxCancels \in Nat
                           /\ MaxCrashes \in Nat

VARIABLES
    lock,       \* [Hashes -> job id or NoJob]: the query_hash_job:* keys
    status,     \* [Jobs -> ...]: the status field of the job's hash
    jobHash,    \* [Jobs -> hash or NoHash]: the query it was created for
    result,     \* [Jobs -> ...]: the return value saved with the job
    cancelled,  \* jobs whose meta has "cancelled"
    cancelling, \* cancelled jobs not yet removed from their queue
    queue,      \* the RQ queue
    registry,   \* RQ's StartedJobRegistry
    overdue,    \* started jobs whose time limit has passed
    stored,     \* jobs whose query result is committed to the database
    rpc,        \* [Requests -> ...]: where the call of enqueue_query is
    tries,      \* [Requests -> Nat]: try_count
    rjob,       \* [Requests -> job or NoJob]: the local variable job
    seen,       \* [Requests -> job or NoJob]: job_id, until it is looked up
    dirty,      \* requests whose watched key changed since their WATCH
    stale,      \* history: jobs that were over or cancelled when r began
    storedAt,   \* history: jobs whose result was stored when r began
    late,       \* history: jobs whose lock was set after they had unlocked
    vanished,   \* history: jobs that expired between r's two reads of them
    wpc,        \* [Workers -> ...]: where the worker and its horse are
    wjob,       \* [Workers -> job or NoJob]
    wok,        \* [Workers -> BOOLEAN]: the query ran without error
    sweep,      \* the run of remove_ghost_locks in progress
    crashes     \* horses and workers that have died

rqVars     == <<status, jobHash, result, cancelled, cancelling, queue, registry, overdue>>
history    == <<stale, storedAt, late, vanished>>
reqVars    == <<rpc, tries, rjob, seen, history>>
workerVars == <<wpc, wjob, wok>>
vars == <<lock, rqVars, stored, reqVars, dirty, workerVars, sweep, crashes>>

Over       == {"finished", "failed", "expired"}
Statuses   == {"none", "queued", "started"} \cup Over
RequestPCs == {"loop", "watched", "fetch", "status", "drop", "enqueue", "exec",
               "done", "cached", "refused",
               "told"}  \* a page that JobPolling follows to its end
HorseAlive == {"popped", "running", "ran", "unlocked", "stored", "raised"}
WorkerPCs  == HorseAlive \cup {"idle", "dead"}
SweepPCs   == {"idle", "get", "started", "queued", "delete"}
MaybeJob   == Jobs \cup {NoJob}

\* A sweep that is not running: KEYS has not been read yet.
NoSweep == [pc |-> "idle", keys |-> {}, todo |-> {},
            locks |-> [h \in Hashes |-> NoJob], ids |-> {}]

Queued == ToSet(queue)
Held(j) == \E w \in Workers : wjob[w] = j

\* Nobody will run the job or is running it: it is not in the queue and no
\* worker holds it (it is over, was cancelled in the queue, or was lost).
Abandoned(j) == status[j] # "none" /\ j \notin Queued /\ ~Held(j)

TypeOK ==
    /\ lock \in [Hashes -> MaybeJob]
    /\ status \in [Jobs -> Statuses]
    /\ jobHash \in [Jobs -> Hashes \cup {NoHash}]
    /\ result \in [Jobs -> {"none", "data", "error"}]
    /\ cancelled \in SUBSET Jobs
    /\ cancelling \in SUBSET Jobs
    /\ queue \in Seq(Jobs)
    /\ registry \in SUBSET Jobs
    /\ overdue \in SUBSET Jobs
    /\ stored \in SUBSET Jobs
    /\ rpc \in [Requests -> RequestPCs]
    /\ tries \in [Requests -> 0..MaxTries]
    /\ rjob \in [Requests -> MaybeJob]
    /\ seen \in [Requests -> MaybeJob]
    /\ dirty \in SUBSET Requests
    /\ stale \in [Requests -> SUBSET Jobs]
    /\ storedAt \in [Requests -> SUBSET Jobs]
    /\ late \in SUBSET Jobs
    /\ vanished \in [Requests -> SUBSET Jobs]
    /\ wpc \in [Workers -> WorkerPCs]
    /\ wjob \in [Workers -> MaybeJob]
    /\ wok \in [Workers -> BOOLEAN]
    /\ sweep \in [pc : SweepPCs, keys : SUBSET Hashes, todo : SUBSET Hashes,
                  locks : [Hashes -> MaybeJob], ids : SUBSET Jobs]
    /\ crashes \in 0..MaxCrashes

Init ==
    /\ lock = [h \in Hashes |-> NoJob]
    /\ status = [j \in Jobs |-> "none"]
    /\ jobHash = [j \in Jobs |-> NoHash]
    /\ result = [j \in Jobs |-> "none"]
    /\ cancelled = {} /\ cancelling = {}
    /\ queue = <<>>
    /\ registry = {} /\ overdue = {} /\ stored = {}
    /\ rpc = [r \in Requests |-> "loop"]
    /\ tries = [r \in Requests |-> 0]
    /\ rjob = [r \in Requests |-> NoJob]
    /\ seen = [r \in Requests |-> NoJob]
    /\ dirty = {}
    /\ stale = [r \in Requests |-> {}]
    /\ storedAt = [r \in Requests |-> {}] /\ late = {}
    /\ vanished = [r \in Requests |-> {}]
    /\ wpc = [w \in Workers |-> "idle"]
    /\ wjob = [w \in Workers |-> NoJob]
    /\ wok = [w \in Workers |-> FALSE]
    /\ sweep = NoSweep
    /\ crashes = 0

------------------------------------------------------------------------------
(***************************************************************************)
(* The lock keys.  A write to a key makes every open WATCH of it fail at   *)
(* EXEC, the writer's own included when it writes on another connection;   *)
(* DEL of a missing key writes nothing.                                    *)
(***************************************************************************)
LockKey(r) == HashOf[r]

Watching_AtExec(r) == rpc[r] = "exec"  \* mutant: WATCH comes after the GET
Watching(r) == rpc[r] \in {"watched", "fetch", "status", "drop", "enqueue", "exec"}
Watchers(h) == {r \in Requests : LockKey(r) = h /\ Watching(r)}

DeleteLock(h) ==
    /\ lock' = [lock EXCEPT ![h] = NoJob]
    /\ dirty' = IF lock[h] = NoJob THEN dirty ELSE dirty \cup Watchers(h)

\* The TTL of a lock (JOB_EXPIRY_TIME) ends.  In Redis 3 an expiry does not
\* disturb the WATCHes of the key.
LockExpires(h) ==
    /\ lock[h] # NoJob
    /\ lock' = [lock EXCEPT ![h] = NoJob]
    /\ UNCHANGED <<rqVars, stored, reqVars, dirty, workerVars, sweep, crashes>>

------------------------------------------------------------------------------
(***************************************************************************)
(* enqueue_query: at most MaxTries rounds of WATCH, GET, look the job up,  *)
(* drop an irrelevant lock, enqueue, then MULTI/SET/EXEC.                  *)
(***************************************************************************)
\* A finished, failed, expired or cancelled job no longer answers the query.  The
\* fetch tells if its hash is gone or marked, a second read what its status is.
LockIsIrrelevant(j) == status[j] \in Over \/ j \in cancelled

FetchSaysIrrelevant_NoMark(j) == status[j] = "expired"  \* mutant: cancelled jobs count
FetchSaysIrrelevant(j)  == status[j] = "expired" \/ j \in cancelled
StatusSaysIrrelevant(j) == status[j] \in {"finished", "failed"}

Watch_Unbounded(r) ==  \* mutant: try_count is not checked
    /\ rpc[r] = "loop"
    /\ tries' = [tries EXCEPT ![r] = @ + 1]
    /\ rpc' = [rpc EXCEPT ![r] = "watched"]
    /\ dirty' = dirty \ {r}
    /\ UNCHANGED <<lock, rqVars, stored, rjob, seen, history, workerVars, sweep, crashes>>

Watch(r) ==
    /\ rpc[r] = "loop" /\ tries[r] < MaxTries
    /\ tries' = [tries EXCEPT ![r] = @ + 1]
    /\ rpc' = [rpc EXCEPT ![r] = "watched"]
    /\ dirty' = dirty \ {r}
    /\ stale' = IF tries[r] = 0
                THEN [stale EXCEPT ![r] = {j \in Jobs : LockIsIrrelevant(j)}]
                ELSE stale
    /\ storedAt' = IF tries[r] = 0 THEN [storedAt EXCEPT ![r] = stored] ELSE storedAt
    /\ UNCHANGED <<lock, rqVars, stored, rjob, seen, late, vanished, workerVars, sweep,
                   crashes>>

\* With no lock the round creates a job, unless an earlier round already
\* did: then the call returns that job and no lock is set.
GetLock(r) ==
    /\ rpc[r] = "watched"
    /\ seen' = [seen EXCEPT ![r] = lock[LockKey(r)]]
    /\ rpc' = [rpc EXCEPT ![r] = IF lock[LockKey(r)] # NoJob THEN "fetch"
                                 ELSE IF rjob[r] = NoJob THEN "enqueue" ELSE "done"]
    /\ dirty' = IF rpc'[r] = "done" THEN dirty \ {r} ELSE dirty
    /\ UNCHANGED <<lock, rqVars, stored, tries, rjob, history, workerVars,
                   sweep, crashes>>

\* Job.fetch of the job the lock names: it raises NoSuchJobError if the hash has
\* expired, and it loads the meta, where is_cancelled looks later.  For a marked
\* job the status that is read next makes no difference.
FetchJob(r) ==
    /\ rpc[r] = "fetch"
    /\ \/ /\ FetchSaysIrrelevant(seen[r])
          /\ rpc' = [rpc EXCEPT ![r] = "drop"]
          /\ seen' = [seen EXCEPT ![r] = NoJob]
       \/ /\ ~FetchSaysIrrelevant(seen[r])
          /\ rpc' = [rpc EXCEPT ![r] = "status"]
          /\ UNCHANGED seen
    /\ UNCHANGED <<lock, rqVars, stored, tries, rjob, history, dirty, workerVars,
                   sweep, crashes>>

\* get_status reads the hash a second time.  If it has expired since the fetch the
\* status is None, which is neither finished nor failed, and the job is joined.
ReadStatus(r) ==
    /\ rpc[r] = "status"
    /\ \/ /\ StatusSaysIrrelevant(seen[r])
          /\ rpc' = [rpc EXCEPT ![r] = "drop"]
          /\ UNCHANGED <<rjob, dirty>>
       \/ /\ ~StatusSaysIrrelevant(seen[r])
          /\ rpc' = [rpc EXCEPT ![r] = "done"]
          /\ rjob' = [rjob EXCEPT ![r] = seen[r]]
          /\ dirty' = dirty \ {r}
    /\ seen' = [seen EXCEPT ![r] = NoJob]
    /\ UNCHANGED <<lock, rqVars, stored, tries, history, workerVars, sweep, crashes>>

\* The delete goes through another connection than the WATCH: if the lock is
\* still there it dirties the caller's own transaction.
DropLock(r) ==
    /\ rpc[r] = "drop"
    /\ DeleteLock(LockKey(r))
    /\ rjob' = [rjob EXCEPT ![r] = NoJob]
    /\ rpc' = [rpc EXCEPT ![r] = "enqueue"]
    /\ UNCHANGED <<rqVars, stored, tries, seen, history, workerVars, sweep, crashes>>

\* The job is pushed at once; only the SET of the lock waits for EXEC.
EnqueueJob(r) ==
    /\ rpc[r] = "enqueue"
    /\ \E j \in Jobs :
         /\ status[j] = "none"
         /\ status' = [status EXCEPT ![j] = "queued"]
         /\ jobHash' = [jobHash EXCEPT ![j] = HashOf[r]]
         /\ queue' = Append(queue, j)
         /\ rjob' = [rjob EXCEPT ![r] = j]
    /\ rpc' = [rpc EXCEPT ![r] = "exec"]
    /\ UNCHANGED <<lock, result, cancelled, cancelling, registry, overdue, stored,
                   tries, seen, history, dirty, workerVars, sweep, crashes>>

\* The horse of the job is past its unlock and not on its way out with an error.
Unlocked(j) == j \in stored \/ \E w \in Workers : wpc[w] = "unlocked" /\ wjob[w] = j

ExecSetLock(r) ==
    /\ rpc[r] = "exec" /\ r \notin dirty
    /\ lock' = [lock EXCEPT ![LockKey(r)] = rjob[r]]
    /\ dirty' = (dirty \cup Watchers(LockKey(r))) \ {r}
    /\ rpc' = [rpc EXCEPT ![r] = "done"]
    /\ late' = IF Unlocked(rjob[r]) THEN late \cup {rjob[r]} ELSE late
    /\ UNCHANGED <<rqVars, stored, tries, rjob, seen, stale, storedAt, vanished,
                   workerVars, sweep, crashes>>

ExecFails_DropsJob(r) ==  \* mutant: the next round begins without a job
    /\ rpc[r] = "exec" /\ r \in dirty
    /\ rpc' = [rpc EXCEPT ![r] = "loop"]
    /\ rjob' = [rjob EXCEPT ![r] = NoJob]
    /\ dirty' = dirty \ {r}
    /\ UNCHANGED <<lock, rqVars, stored, tries, seen, history, workerVars,
                   sweep, crashes>>

ExecFails_Refunds(r) ==  \* mutant: a lost round does not count as a try
    /\ rpc[r] = "exec" /\ r \in dirty
    /\ rpc' = [rpc EXCEPT ![r] = "loop"]
    /\ tries' = [tries EXCEPT ![r] = @ - 1]
    /\ dirty' = dirty \ {r}
    /\ UNCHANGED <<lock, rqVars, stored, rjob, seen, history, workerVars, sweep, crashes>>

\* WatchError: the job stays enqueued and stays the value of job.
ExecFails(r) ==
    /\ rpc[r] = "exec" /\ r \in dirty
    /\ rpc' = [rpc EXCEPT ![r] = "loop"]
    /\ dirty' = dirty \ {r}
    /\ UNCHANGED <<lock, rqVars, stored, tries, rjob, seen, history, workerVars,
                   sweep, crashes>>

\* The loop is used up: the call returns the job of its last round.
LeaveLoop(r) ==
    /\ rpc[r] = "loop" /\ tries[r] = MaxTries
    /\ rpc' = [rpc EXCEPT ![r] = "done"]
    /\ UNCHANGED <<lock, rqVars, stored, tries, rjob, seen, history, dirty,
                   workerVars, sweep, crashes>>

\* run_query may have an answer before it calls enqueue_query: it refuses (a
\* data source that is paused, parameters that are invalid or missing), or it
\* finds a result of the query, unless max_age is zero or the result too old.
AnswerAtOnce(r) ==
    /\ rpc[r] = "loop" /\ tries[r] = 0
    /\ \/ rpc' = [rpc EXCEPT ![r] = "refused"]
       \/ /\ \E j \in stored : jobHash[j] = HashOf[r]
          /\ rpc' = [rpc EXCEPT ![r] = "cached"]
    /\ UNCHANGED <<lock, rqVars, stored, tries, rjob, seen, history, dirty,
                   workerVars, sweep, crashes>>

RequestStep(r) ==
    \/ AnswerAtOnce(r) \/ Watch(r) \/ LeaveLoop(r) \/ GetLock(r) \/ FetchJob(r)
    \/ ReadStatus(r) \/ DropLock(r) \/ EnqueueJob(r) \/ ExecSetLock(r) \/ ExecFails(r)

------------------------------------------------------------------------------
(***************************************************************************)
(* An RQ worker and its work horse.  wpc is "popped" once the worker took  *)
(* a job off the queue; the horse is "running" the query, "ran" it, has    *)
(* "unlocked", has "stored" the result, or has "raised" out of the job     *)
(* function; "dead" is a horse its worker has not reaped yet.              *)
(***************************************************************************)
Dequeue_Peek(w) ==  \* mutant: the job stays in the queue
    /\ wpc[w] = "idle" /\ queue # <<>>
    /\ wpc' = [wpc EXCEPT ![w] = "popped"]
    /\ wjob' = [wjob EXCEPT ![w] = Head(queue)]
    /\ UNCHANGED <<lock, rqVars, stored, reqVars, dirty, wok, sweep, crashes>>

Dequeue(w) ==
    /\ wpc[w] = "idle" /\ queue # <<>>
    /\ wpc' = [wpc EXCEPT ![w] = "popped"]
    /\ wjob' = [wjob EXCEPT ![w] = Head(queue)]
    /\ queue' = Tail(queue)
    /\ UNCHANGED <<lock, status, jobHash, result, cancelled, cancelling, registry,
                   overdue, stored, reqVars, dirty, wok, sweep, crashes>>

StartJob(w) ==
    /\ wpc[w] = "popped"
    /\ wpc' = [wpc EXCEPT ![w] = "running"]
    /\ registry' = registry \cup {wjob[w]}
    /\ status' = [status EXCEPT ![wjob[w]] = "started"]
    /\ UNCHANGED <<lock, jobHash, result, cancelled, cancelling, queue, overdue,
                   stored, reqVars, dirty, wjob, wok, sweep, crashes>>

\* A step of the horse that touches nothing but its own worker.
HorseMoves(w, pc, ok) ==
    /\ wpc' = [wpc EXCEPT ![w] = pc]
    /\ wok' = [wok EXCEPT ![w] = ok]
    /\ UNCHANGED <<lock, rqVars, stored, reqVars, dirty, wjob, sweep, crashes>>

\* run_query returns data or an error, or raises: run() turns it into one.
QueryEnds(w) == wpc[w] = "running" /\ \E ok \in BOOLEAN : HorseMoves(w, "ran", ok)

Unlock_IfFailed(w) ==  \* mutant: the lock stays until the result expires
    /\ wpc[w] = "ran"
    /\ \/ ~wok[w] /\ DeleteLock(jobHash[wjob[w]])
       \/ wok[w] /\ UNCHANGED <<lock, dirty>>
    /\ wpc' = [wpc EXCEPT ![w] = "unlocked"]
    /\ UNCHANGED <<rqVars, stored, reqVars, wjob, wok, sweep, crashes>>

Unlock(w) ==
    /\ wpc[w] = "ran"
    /\ DeleteLock(jobHash[wjob[w]])
    /\ wpc' = [wpc EXCEPT ![w] = "unlocked"]
    /\ UNCHANGED <<rqVars, stored, reqVars, wjob, wok, sweep, crashes>>

\* store_result, update_latest_result and the commit.
StoreResult(w) ==
    /\ wpc[w] = "unlocked" /\ wok[w]
    /\ stored' = stored \cup {wjob[w]}
    /\ wpc' = [wpc EXCEPT ![w] = "stored"]
    /\ UNCHANGED <<lock, rqVars, reqVars, dirty, wjob, wok, sweep, crashes>>

\* The executor's constructor, the database or the alerts queue raises.
HorseRaises(w) ==
    /\ wpc[w] \in {"running", "unlocked", "stored"}
    /\ HorseMoves(w, "raised", FALSE)

\* SIGINT from the monitor of a cancelled job, or the alarm of the soft time
\* limit.  While the query runs it ends it with an error; later it escapes.
HorseInterrupted(w) ==
    /\ wjob[w] \in cancelled \cup overdue
    /\ \/ wpc[w] = "running" /\ HorseMoves(w, "ran", FALSE)
       \/ wpc[w] \in {"ran", "unlocked", "stored"} /\ HorseMoves(w, "raised", FALSE)

\* What RQ's last pipeline writes when worker w is done with its job.
LeaveJob(w, s) ==
    /\ status' = [status EXCEPT ![wjob[w]] = s]
    /\ registry' = registry \ {wjob[w]}
    /\ wpc' = [wpc EXCEPT ![w] = "idle"]
    /\ wjob' = [wjob EXCEPT ![w] = NoJob]
    /\ wok' = [wok EXCEPT ![w] = FALSE]
    /\ UNCHANGED <<lock, jobHash, cancelled, cancelling, queue, overdue, stored,
                   reqVars, dirty, sweep, crashes>>

\* handle_job_success saves what the job function returned: the id of the
\* result, or the QueryExecutionError that execute_query does not raise.
ReturnFromJob(w) ==
    /\ LeaveJob(w, "finished")
    /\ result' = [result EXCEPT ![wjob[w]] = IF wok[w] THEN "data" ELSE "error"]

FinishJob_Early(w) ==  \* mutant: the id is returned before the commit
    wpc[w] \in {"unlocked", "stored"} /\ ReturnFromJob(w)

FinishJob(w) ==
    /\ \/ wpc[w] = "stored"
       \/ wpc[w] = "unlocked" /\ ~wok[w]
    /\ ReturnFromJob(w)

FailJob(w) ==
    /\ wpc[w] = "raised"
    /\ LeaveJob(w, "failed")
    /\ UNCHANGED result

------------------------------------------------------------------------------
(***************************************************************************)
(* Time limits, crashes and RQ's own housekeeping.                         *)
(***************************************************************************)
TimeLimitPasses(j) ==
    /\ TimeLimited
    /\ status[j] = "started" /\ j \notin overdue
    /\ overdue' = overdue \cup {j}
    /\ UNCHANGED <<lock, status, jobHash, result, cancelled, cancelling, queue,
                   registry, stored, reqVars, dirty, workerVars, sweep, crashes>>

HorseDies(w) == wpc[w] \in HorseAlive /\ HorseMoves(w, "dead", FALSE)

\* soft_limit_exceeded and enforce_hard_limit: past the limit and the grace
\* period the worker kills a horse that did not stop by itself.
HardLimitKill_IfCancelled(w) ==  \* mutant: the monitor only watches cancelled jobs
    wjob[w] \in overdue \cap cancelled /\ HorseDies(w)

HardLimitKill(w) == wjob[w] \in overdue /\ HorseDies(w)

HorseCrashes(w) ==
    /\ crashes < MaxCrashes /\ wpc[w] \in HorseAlive
    /\ wpc' = [wpc EXCEPT ![w] = "dead"]
    /\ wok' = [wok EXCEPT ![w] = FALSE]
    /\ crashes' = crashes + 1
    /\ UNCHANGED <<lock, rqVars, stored, reqVars, dirty, wjob, sweep>>

\* monitor_work_horse after waitpid: a job that is not over becomes failed.
ReapHorse(w) ==
    /\ wpc[w] = "dead"
    /\ UNCHANGED result
    /\ \/ status[wjob[w]] \in Over /\ LeaveJob(w, status[wjob[w]])
       \/ status[wjob[w]] \notin Over /\ LeaveJob(w, "failed")

\* The worker itself is killed, with its horse, and a new one starts.
WorkerCrashes_Requeue(w) ==  \* mutant: the job goes back to its queue
    /\ crashes < MaxCrashes /\ wpc[w] # "idle"
    /\ crashes' = crashes + 1
    /\ wpc' = [wpc EXCEPT ![w] = "idle"]
    /\ wjob' = [wjob EXCEPT ![w] = NoJob]
    /\ wok' = [wok EXCEPT ![w] = FALSE]
    /\ queue' = Append(queue, wjob[w])
    /\ UNCHANGED <<lock, status, jobHash, result, cancelled, cancelling, registry,
                   overdue, stored, reqVars, dirty, sweep>>

WorkerCrashes(w) ==
    /\ crashes < MaxCrashes /\ wpc[w] # "idle"
    /\ crashes' = crashes + 1
    /\ wpc' = [wpc EXCEPT ![w] = "idle"]
    /\ wjob' = [wjob EXCEPT ![w] = NoJob]
    /\ wok' = [wok EXCEPT ![w] = FALSE]
    /\ UNCHANGED <<lock, rqVars, stored, reqVars, dirty, sweep>>

\* StartedJobRegistry.cleanup: entries whose time has passed become failed.
CleanupRegistry_NoStatus ==  \* mutant: the entry goes, the status stays
    registry' = registry \ overdue /\ UNCHANGED status

CleanupRegistry ==
    /\ status' = [j \in Jobs |-> IF j \in registry \cap overdue
                                 THEN "failed" ELSE status[j]]
    /\ registry' = registry \ overdue

\* A worker's clean_registries.
RegistryMaintenance ==
    /\ registry \cap overdue # {}
    /\ CleanupRegistry
    /\ UNCHANGED <<lock, jobHash, result, cancelled, cancelling, queue, overdue,
                   stored, reqVars, dirty, workerVars, sweep, crashes>>

\* result_ttl or failure_ttl ends: the job's hash disappears.
JobExpires(j) ==
    /\ status[j] \in {"finished", "failed"} /\ ~Held(j)
    /\ status' = [status EXCEPT ![j] = "expired"]
    /\ vanished' = [r \in Requests |-> IF rpc[r] = "status" /\ seen[r] = j
                                      THEN vanished[r] \cup {j} ELSE vanished[r]]
    /\ UNCHANGED <<lock, jobHash, result, cancelled, cancelling, queue, registry,
                   overdue, stored, rpc, tries, rjob, seen, stale, storedAt, late, dirty,
                   workerVars, sweep, crashes>>

------------------------------------------------------------------------------
(***************************************************************************)
(* JobResource.delete: CancellableJob.cancel saves the mark in the job's   *)
(* meta, and then removes the job from its queue.                          *)
(***************************************************************************)
CancelMark(j) ==
    /\ status[j] \notin {"none", "expired"}
    /\ j \notin cancelled /\ Cardinality(cancelled) < MaxCancels
    /\ cancelled' = cancelled \cup {j}
    /\ cancelling' = cancelling \cup {j}
    /\ UNCHANGED <<lock, status, jobHash, result, queue, registry, overdue, stored,
                   reqVars, dirty, workerVars, sweep, crashes>>

CancelRemove_MarkOnly(j) ==  \* mutant: only the mark is saved
    /\ j \in cancelling
    /\ cancelling' = cancelling \ {j}
    /\ UNCHANGED <<lock, status, jobHash, result, cancelled, queue, registry, overdue,
                   stored, reqVars, dirty, workerVars, sweep, crashes>>

CancelRemove(j) ==
    /\ j \in cancelling
    /\ cancelling' = cancelling \ {j}
    /\ \/ \E i \in DOMAIN queue : queue[i] = j /\ queue' = RemoveAt(queue, i)
       \/ j \notin Queued /\ UNCHANGED queue
    /\ UNCHANGED <<lock, status, jobHash, result, cancelled, registry, overdue,
                   stored, reqVars, dirty, workerVars, sweep, crashes>>

------------------------------------------------------------------------------
(***************************************************************************)
(* remove_ghost_locks: KEYS, a GET per key, the started job ids, the       *)
(* queued job ids, then a DEL of each lock whose job is in neither list.   *)
(***************************************************************************)
SweepUnchanged == UNCHANGED <<jobHash, result, cancelled, cancelling, queue, overdue,
                              stored, reqVars, workerVars, crashes>>

SweepKeys ==
    /\ sweep.pc = "idle"
    /\ LET keys == {h \in Hashes : lock[h] # NoJob}
       IN  /\ keys # {}
           /\ sweep' = [NoSweep EXCEPT !.pc = "get", !.keys = keys, !.todo = keys]
    /\ UNCHANGED <<lock, status, registry, dirty>> /\ SweepUnchanged

SweepGet ==
    /\ sweep.pc = "get"
    /\ \E h \in sweep.todo :
         sweep' = [sweep EXCEPT !.locks[h] = lock[h], !.todo = @ \ {h},
                                !.pc = IF sweep.todo = {h} THEN "started" ELSE "get"]
    /\ UNCHANGED <<lock, status, registry, dirty>> /\ SweepUnchanged

\* get_job_ids of the registry cleans it up first.
SweepStarted ==
    /\ sweep.pc = "started"
    /\ CleanupRegistry
    /\ sweep' = [sweep EXCEPT !.ids = registry', !.pc = "queued"]
    /\ UNCHANGED <<lock, dirty>> /\ SweepUnchanged

SweepQueued_AnyExisting ==  \* mutant: every job hash that exists keeps its lock
    /\ sweep.pc = "queued"
    /\ LET ids    == {j \in Jobs : status[j] \notin {"none", "expired"}}
           ghosts == {h \in sweep.keys : sweep.locks[h] \notin ids}
       IN  sweep' = IF ghosts = {} THEN NoSweep
                    ELSE [NoSweep EXCEPT !.pc = "delete", !.todo = ghosts]
    /\ UNCHANGED <<lock, status, registry, dirty>> /\ SweepUnchanged

\* A key whose GET found nothing is a ghost too: None is in no list.
SweepQueued ==
    /\ sweep.pc = "queued"
    /\ LET ids    == sweep.ids \cup Queued
           ghosts == {h \in sweep.keys : sweep.locks[h] \notin ids}
       IN  sweep' = IF ghosts = {} THEN NoSweep
                    ELSE [NoSweep EXCEPT !.pc = "delete", !.todo = ghosts]
    /\ UNCHANGED <<lock, status, registry, dirty>> /\ SweepUnchanged

SweepDelete ==
    /\ sweep.pc = "delete"
    /\ \E h \in sweep.todo :
         /\ DeleteLock(h)
         /\ sweep' = IF sweep.todo = {h} THEN NoSweep
                     ELSE [sweep EXCEPT !.todo = @ \ {h}]
    /\ UNCHANGED <<status, registry>> /\ SweepUnchanged

Sweep == SweepKeys \/ SweepGet \/ SweepStarted \/ SweepQueued \/ SweepDelete

------------------------------------------------------------------------------
WorkerStep(w) ==
    \/ Dequeue(w) \/ StartJob(w) \/ QueryEnds(w) \/ Unlock(w) \/ StoreResult(w)
    \/ HorseRaises(w) \/ HorseInterrupted(w) \/ FinishJob(w) \/ FailJob(w)
    \/ HardLimitKill(w) \/ HorseCrashes(w) \/ ReapHorse(w) \/ WorkerCrashes(w)

JobStep(j) == TimeLimitPasses(j) \/ JobExpires(j) \/ CancelMark(j) \/ CancelRemove(j)

Next ==
    \/ \E r \in Requests : RequestStep(r)
    \/ \E w \in Workers : WorkerStep(w)
    \/ \E j \in Jobs : JobStep(j)
    \/ \E h \in Hashes : LockExpires(h)
    \/ RegistryMaintenance
    \/ Sweep

Spec == Init /\ [][Next]_vars

\* What keeps happening: processes that were scheduled go on, time passes,
\* the hard limit is enforced, and the sweep is scheduled every minute.
\* Nothing makes a query end by itself, and no TTL is waited for.
Fairness ==
    /\ \A r \in Requests : WF_vars(RequestStep(r))
    /\ \A w \in Workers :
         /\ WF_vars(Dequeue(w)) /\ WF_vars(StartJob(w)) /\ WF_vars(Unlock(w))
         /\ WF_vars(StoreResult(w)) /\ WF_vars(FinishJob(w)) /\ WF_vars(FailJob(w))
         /\ WF_vars(HardLimitKill(w)) /\ WF_vars(ReapHorse(w))
    /\ \A j \in Jobs : WF_vars(TimeLimitPasses(j)) /\ WF_vars(CancelRemove(j))
    /\ WF_vars(RegistryMaintenance)
    /\ WF_vars(Sweep)

FairSpec == Spec /\ Fairness

------------------------------------------------------------------------------
(***************************************************************************)
(* Properties.                                                             *)
(***************************************************************************)
\* enqueue_query always returns a job, and a job of the query asked for.
AnswersOwnQuery ==
    \A r \in Requests : rpc[r] = "done" => /\ rjob[r] \in Jobs
                                           /\ jobHash[rjob[r]] = HashOf[r]

\* A call of enqueue_query does not answer with a job that was already over or
\* cancelled when the call began, whatever locks it finds on the way.  The exception
\* are jobs whose hash expired just between the call's two reads of it
\* (execution.py:51-53): the second one finds no status, and the job is joined.
FreshAnswer ==
    \A r \in Requests :
        rpc[r] = "done" /\ rjob[r] \in stale[r] => rjob[r] \in vanished[r]

\* A lock is only set where none is: of the requests that found no lock, or dropped
\* the one they found, one sets its own, and the others lose their transactions.
LocksNotOverwritten ==
    [][\A h \in Hashes : lock[h] = NoJob \/ lock'[h] \in {lock[h], NoJob}]_vars

\* The round trips that a call has left, at most, in this round and the next ones.
TripsOfRound == [loop |-> 0, exec |-> 1, enqueue |-> 2, drop |-> 3, status |-> 4,
                 fetch |-> 5, watched |-> 6]
RoundTripsLeft(r) ==
    IF rpc[r] \in DOMAIN TripsOfRound
    THEN 7 * (MaxTries - tries[r]) + TripsOfRound[rpc[r]] ELSE -1

\* A call of enqueue_query comes to its end by its own steps, however many locks
\* other processes set, delete and let expire under its transactions.
CallsAreBounded ==
    [][\A r \in Requests : \/ UNCHANGED <<rpc[r], tries[r]>>
                            \/ RoundTripsLeft(r)' < RoundTripsLeft(r)]_vars

\* A request is not answered with a job whose result was committed before the
\* request began: the execution unlocks the query before it commits, so that
\* whoever still finds the lock has come before the commit.  The exception are
\* jobs that were run so fast that the request that had enqueued them set their
\* lock after that.
JoinedResultIsNew ==
    \A r \in Requests :
        rpc[r] = "done" /\ rjob[r] \in storedAt[r] => rjob[r] \in late

\* A job is run at most once at a time: it is in one place of the queue or
\* with one worker, and never comes back to the queue.
OneRunner ==
    /\ \A i, k \in DOMAIN queue : queue[i] = queue[k] => i = k
    /\ \A w \in Workers : wpc[w] # "idle" => wjob[w] \notin Queued
    /\ \A v, w \in Workers : wpc[v] # "idle" /\ wjob[v] = wjob[w] => v = w

\* A client that is given the id of a query result can load it: the job's
\* return value is an id only after the result is committed.
ResultIsStored == \A j \in Jobs : result[j] = "data" => j \in stored

\* Once cancel() has returned, the job will not be popped.
CancelledNotQueued == (cancelled \ cancelling) \cap Queued = {}

\* A lock that names a job nobody runs or will run does not stay: the sweep
\* removes it, or a request or a worker replaces or deletes it.
StaleLockCleared ==
    \A h \in Hashes, j \in Jobs :
        (lock[h] = j /\ Abandoned(j)) ~> (lock[h] # j)

\* Every enqueued job leaves the queue and its worker, although a query may
\* hang, a horse may die, and a worker may die with its job.
EveryJobSettles ==
    \A j \in Jobs : (status[j] # "none") ~> Abandoned(j)

\* No job stays "started" for ever for the clients that poll it.
EveryStartedJobEnds ==
    \A j \in Jobs : (status[j] = "started") ~> (status[j] \in Over)

==============================================================================
