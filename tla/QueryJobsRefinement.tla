------------------------- MODULE QueryJobsRefinement -------------------------
(***************************************************************************)
(* QueryJobs implements JobLifecycle: enqueue_query, the RQ queue, the     *)
(* workers with their crashes and the cancellations, seen from one job.    *)
(***************************************************************************)
EXTENDS QueryJobs

\* NoJob stands for "no worker" too.
ASSUME NoWorkerAssumption == NoJob \notin Workers

Phase == [j \in Jobs |-> IF status[j] = "none" THEN "new"
                         ELSE IF j \in Queued THEN "waiting"
                         ELSE IF Held(j) THEN "taken" ELSE "over"]

Holder == [j \in Jobs |-> IF Held(j) THEN CHOOSE w \in Workers : wjob[w] = j
                          ELSE NoJob]

Lifecycle == INSTANCE JobLifecycle
                 WITH NoWorker <- NoJob, phase <- Phase, holder <- Holder,
                      outcome <- result

\* Every job enqueue_query creates is handed to at most one worker, once; a
\* crashed worker's job is not run again, and a job's return value is
\* written once, by the worker that had it.
ImplementsLifecycle == Lifecycle!Spec
==============================================================================
