------------------------------ MODULE JobPolling ------------------------------
(***************************************************************************)
(* The clients of QueryJobs: a page that was given a job by enqueue_query  *)
(* asks api/jobs/<id> again and again, and stops when the answer is a      *)
(* result id or an error.                                                  *)
(***************************************************************************)
EXTENDS QueryJobsRefinement

\* serialize_job: the mark of a cancelled job comes before its status, and a
\* QueryExecutionError that the job returned is an error of a finished job.  A
\* job that has expired cannot be fetched, and if it expires after the fetch its
\* status is none of serialize_job's STATUSES: the page gets an error either way.
IsError_NoMark(j) ==  \* mutant: the status alone decides
    status[j] \in {"failed", "expired"} \/ result[j] = "error"

IsError_Pending(j) ==  \* mutant: what cannot be fetched is still pending
    j \in cancelled \/ status[j] = "failed" \/ result[j] = "error"

IsError(j) ==
    j \in cancelled \/ status[j] \in {"failed", "expired"} \/ result[j] = "error"

\* What api/jobs/<id> says of the job ends a page's polling.
Answered(j) == IsError(j) \/ result[j] = "data"

\* refreshStatus: a request that was given a job becomes a page that polls, until
\* it is told an error or a result id.  Any other answer is followed by another
\* request.
Poll(r) ==
    /\ rpc[r] = "done"
    /\ Answered(rjob[r])
    /\ rpc' = [rpc EXCEPT ![r] = "told"]
    /\ UNCHANGED <<lock, rqVars, stored, tries, rjob, seen, history, dirty, workerVars,
                   sweep, crashes>>

PollingNext == Next \/ \E r \in Requests : Poll(r)

\* Pages that are open go on asking.
PollingSpec ==
    /\ Init /\ [][PollingNext]_vars
    /\ Fairness
    /\ \A r \in Requests : WF_vars(Poll(r))

\* An answer is never taken back: a job that was said to have failed, to be
\* cancelled or to have a result does not look pending to whoever asks again,
\* although a worker may go on with it and RQ may drop it.
NoAnswerTakenBack == [][\A j \in Jobs : Answered(j) => Answered(j)']_vars

\* A worker died with a job it had popped and not started yet.
Lost(j) == Abandoned(j) /\ status[j] = "queued" /\ j \notin cancelled

\* A page does not poll for ever, although its job may be cancelled in the
\* queue, expire before the next request, hang, or die with its horse; only a
\* job that was lost between the queue and its start keeps it waiting.
EveryPollEnds ==
    \A r \in Requests :
        (rpc[r] = "done") ~> \/ rpc[r] = "told"
                             \/ \E j \in Jobs : rjob[r] = j /\ Lost(j)
==============================================================================
