---------------------------- MODULE JobLifecycle -----------------------------
(***************************************************************************)
(* What the job queue promises to the code that enqueues a job and polls   *)
(* it, with no queue, registry, horse or lock: a job is submitted once,    *)
(* handed to one worker or withdrawn before that, and is never handed out  *)
(* again, whatever happened to that worker.  Its outcome is written once,  *)
(* by the worker that held it.                                             *)
(***************************************************************************)
CONSTANTS
    Jobs,
    Workers,
    NoWorker   \* the holder of a job no worker has

VARIABLES
    phase,    \* [Jobs -> "new", "waiting", "taken" or "over"]
    holder,   \* [Jobs -> the worker that has it, or NoWorker]
    outcome   \* [Jobs -> "none", "data" or "error"]

vars == <<phase, holder, outcome>>

TypeOK ==
    /\ phase \in [Jobs -> {"new", "waiting", "taken", "over"}]
    /\ holder \in [Jobs -> Workers \cup {NoWorker}]
    /\ outcome \in [Jobs -> {"none", "data", "error"}]

Init ==
    /\ phase = [j \in Jobs |-> "new"]
    /\ holder = [j \in Jobs |-> NoWorker]
    /\ outcome = [j \in Jobs |-> "none"]

Move(j, from, to) == phase[j] = from /\ phase' = [phase EXCEPT ![j] = to]

Submit(j) == Move(j, "new", "waiting") /\ UNCHANGED <<holder, outcome>>

Withdraw(j) == Move(j, "waiting", "over") /\ UNCHANGED <<holder, outcome>>

\* A worker takes a job only when it has none.
Take(w, j) ==
    /\ Move(j, "waiting", "taken")
    /\ \A i \in Jobs : holder[i] # w
    /\ holder' = [holder EXCEPT ![j] = w]
    /\ UNCHANGED outcome

\* The worker reports a result, an error, or nothing (it failed or died).
LetGo(j) ==
    /\ Move(j, "taken", "over")
    /\ holder' = [holder EXCEPT ![j] = NoWorker]
    /\ \E o \in {"none", "data", "error"} : outcome' = [outcome EXCEPT ![j] = o]

Next == \E j \in Jobs : \/ Submit(j) \/ Withdraw(j) \/ LetGo(j)
                        \/ \E w \in Workers : Take(w, j)

Spec == Init /\ [][Next]_vars
==============================================================================
