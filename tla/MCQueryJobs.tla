----------------------------- MODULE MCQueryJobs -----------------------------
(***************************************************************************)
(* Small instances of QueryJobs for TLC.                                   *)
(***************************************************************************)
EXTENDS QueryJobsRefinement, TLC

CONSTANTS r1, r2, r3, j1, j2, j3, w1, w2, h1, h2

\* Every request asks for the same query.
SameQuery == [r \in Requests |-> h1]
\* The requests are interchangeable because they ask for the same query.
Symmetric == Permutations(Jobs) \cup Permutations(Workers) \cup Permutations(Requests)

\* Bound: of three jobs none is cancelled, of two jobs one may be.
CancelsAmongTwo == cancelled # {} => \E j \in Jobs : status[j] = "none"

------------------------------------------------------------------------------
\* The requests come one after the other, no lock runs into its TTL, no
\* process dies and no sweep runs.
NotBegun(r) == rpc[r] = "loop" /\ tries[r] = 0
Ended(r) == rpc[r] \in {"done", "cached", "refused"}
SerialNext ==
    \/ \E r \in Requests : /\ \A q \in Requests \ {r} : Ended(q) \/ NotBegun(q)
                           /\ RequestStep(r)
    \/ \E w \in Workers : WorkerStep(w)
    \/ \E j \in Jobs : JobStep(j)
SerialSpec == Init /\ [][SerialNext]_vars

\* The job has not run its query yet: it is queued or its horse still has
\* the query to run.
WillAnswer(j) ==
    j \in Queued \/ \E w \in Workers : wjob[w] = j /\ wpc[w] \in {"popped", "running"}

\* While a job that was not cancelled waits for a query or runs it, enqueueing
\* the same query again does not create another job: three calls create one
\* (test_multiple_enqueue_of_same_query).
OneLiveJobPerQuery ==
    \A i, j \in Jobs \ cancelled :
        (WillAnswer(i) /\ WillAnswer(j) /\ jobHash[i] = jobHash[j]) => i = j

\* remove_ghost_locks deletes only locks whose job is gone: it is neither in
\* the queue nor with a worker.
OnlyGhostsRemoved ==
    sweep.pc = "delete" =>
        \A h \in sweep.todo : lock[h] = NoJob \/ Abandoned(lock[h])
==============================================================================
