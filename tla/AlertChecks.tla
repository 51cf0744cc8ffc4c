------------------------------ MODULE AlertChecks ------------------------------
(***************************************************************************)
(* The alerts of saved queries, composed with QueryResults: an execution   *)
(* that has committed its result enqueues check_alerts_for_query for each  *)
(* query it updated, and workers of the default queue evaluate the alert   *)
(* of the query against its latest result.                                 *)
(*                                                                         *)
(* Each query has one alert: check_alerts_for_query treats the alerts of a *)
(* query one by one, each with a commit of its own.                        *)
(***************************************************************************)
EXTENDS QueryResults, Sequences

CONSTANTS
    Checkers,    \* workers that run check_alerts_for_query
    NoQuery,     \* the checker is idle
    Rearms,      \* do the alerts have a rearm time?
    MaxDeaths    \* bound: horses that die after their commit or in a check

ASSUME NoQueryAssumption == NoQuery \notin Queries
ASSUME AlertsAssumption  == Rearms \in BOOLEAN /\ MaxDeaths \in Nat

VARIABLES
    outcome,  \* [Executions -> state]: what the alert's condition makes of it
    toCheck,  \* [Executions -> set of queries]: checks still to be enqueued
    checks,   \* the queue of checks, each with the execution that asked for it
    state,    \* [Queries -> state]: alerts.state
    cpc,      \* [Checkers -> ...]: where the checker is
    check,    \* [Checkers -> check or NoCheck]: the job it runs
    cresult,  \* [Checkers -> result]: the query's latest result, as it was read
    cstate,   \* [Checkers -> state]: the alert's state, as it was read
    heard,    \* [Queries -> state]: the state subscribers were told last
    since,    \* history: [Queries -> [Executions -> pointers it had since the execution]]
    lost,     \* history: queries whose result was replaced without a check
    overtaken, \* history: checkers whose view another check has made out of date
    doubtful, \* history: queries whose last check was overtaken
    missed,   \* history: queries with a change that subscribers may not have heard of
    deaths    \* horses that died

checkerVars == <<cpc, check, cresult, cstate, overtaken>>
alertVars == <<outcome, toCheck, checks, state, checkerVars, heard, since, lost,
               doubtful, missed, deaths>>
vars == <<resultVars, alertVars>>

States  == {"unknown", "ok", "triggered"}
NoCheck == [query |-> NoQuery, by |-> NoResult]

AlertsTypeOK ==
    /\ TypeOK
    /\ outcome \in [Executions -> States]
    /\ toCheck \in [Executions -> SUBSET Queries]
    /\ checks \in Seq([query : Queries, by : Executions])
    /\ state \in [Queries -> States]
    /\ cpc \in [Checkers -> {"idle", "popped", "loaded", "read", "committed"}]
    /\ check \in [Checkers -> [query : Queries, by : Executions] \cup {NoCheck}]
    /\ cresult \in [Checkers -> MaybeResult]
    /\ cstate \in [Checkers -> States]
    /\ heard \in [Queries -> States]
    /\ since \in [Queries -> [Executions -> SUBSET MaybeResult]]
    /\ lost \in SUBSET Queries
    /\ overtaken \in SUBSET Checkers
    /\ doubtful \in SUBSET Queries
    /\ missed \in SUBSET Queries
    /\ deaths \in 0..MaxDeaths

Init ==
    /\ ResultsInit
    /\ outcome = [x \in Executions |-> "unknown"]
    /\ toCheck = [x \in Executions |-> {}]
    /\ checks = <<>>
    /\ state = [q \in Queries |-> "unknown"]
    /\ cpc = [c \in Checkers |-> "idle"]
    /\ check = [c \in Checkers |-> NoCheck]
    /\ cresult = [c \in Checkers |-> NoResult]
    /\ cstate = [c \in Checkers |-> "unknown"]
    /\ heard = [q \in Queries |-> "unknown"]
    /\ since = [q \in Queries |-> [x \in Executions |-> {}]]
    /\ lost = {} /\ overtaken = {} /\ doubtful = {} /\ missed = {}
    /\ deaths = 0

------------------------------------------------------------------------------
(***************************************************************************)
(* The execution.  Its checks are enqueued one by one after the commit;    *)
(* what a horse that dies has not enqueued yet is never checked.           *)
(***************************************************************************)
Run(x) ==
    /\ RunQuery(x)
    /\ \E s \in States : outcome' = [outcome EXCEPT ![x] = s]
    /\ UNCHANGED <<toCheck, checks, state, checkerVars, heard, since, lost, doubtful,
                   missed, deaths>>

\* History: queries Q are pointed at r, by execution r itself or by a save.
Repointed(Q, r) ==
    since' = [q \in Queries |-> [x \in Executions |->
                IF q \in Q /\ (x = r \/ since[q][x] # {}) THEN since[q][x] \cup {r}
                                                          ELSE since[q][x]]]

\* The ids that update_latest_result returns come from a second SELECT, which
\* misses a query that was edited since the first.
Commit(x) ==
    /\ CommitResult(x)
    /\ toCheck' = [toCheck EXCEPT ![x] = QueriesOf(xtext[x])]
    /\ lost' = lost \cup (touched[x] \ QueriesOf(xtext[x]))
    /\ Repointed(touched[x], x)
    /\ UNCHANGED <<outcome, checks, state, checkerVars, heard, doubtful, missed, deaths>>

\* check_alerts_for_query.delay(query_id)
Delay(x, q) ==
    /\ checks' = Append(checks, [query |-> q, by |-> x])
    /\ UNCHANGED <<resultVars, outcome, state, checkerVars, heard, since, lost, doubtful,
                   missed, deaths>>

DelayCheck_BeforeCommit(x) ==  \* mutant: the checks are enqueued before the commit
    \E q \in touched[x] \ toCheck[x] :
        /\ xpc[x] = "selected"
        /\ toCheck' = [toCheck EXCEPT ![x] = @ \cup {q}]
        /\ Delay(x, q)

DelayCheck(x) ==
    \E q \in toCheck[x] :
        /\ toCheck' = [toCheck EXCEPT ![x] = @ \ {q}]
        /\ Delay(x, q)

HorseDies(x) ==
    /\ toCheck[x] # {} /\ deaths < MaxDeaths
    /\ deaths' = deaths + 1
    /\ lost' = lost \cup toCheck[x]
    /\ toCheck' = [toCheck EXCEPT ![x] = {}]
    /\ UNCHANGED <<resultVars, outcome, checks, state, checkerVars, heard, since,
                   doubtful, missed>>

------------------------------------------------------------------------------
(***************************************************************************)
(* check_alerts_for_query.  It loads the query (with the id of its latest  *)
(* result), then the alert, evaluates, commits a new state, and notifies   *)
(* the subscribers.  The workers of the queue do that side by side.        *)
(***************************************************************************)
\* The worker takes a check off the queue.
PopCheck(c) ==
    /\ cpc[c] = "idle" /\ checks # <<>>
    /\ checks' = Tail(checks)
    /\ check' = [check EXCEPT ![c] = Head(checks)]
    /\ cpc' = [cpc EXCEPT ![c] = "popped"]
    /\ UNCHANGED <<resultVars, outcome, toCheck, state, cresult, cstate, overtaken,
                   heard, since, lost, doubtful, missed, deaths>>

LoadQuery(c) ==
    /\ cpc[c] = "popped"
    /\ cresult' = [cresult EXCEPT ![c] = latest[check[c].query]]
    /\ cpc' = [cpc EXCEPT ![c] = "loaded"]
    /\ UNCHANGED <<resultVars, outcome, toCheck, checks, state, check, cstate, overtaken,
                   heard, since, lost, doubtful, missed, deaths>>

CheckerRests(c) ==
    /\ cpc' = [cpc EXCEPT ![c] = "idle"]
    /\ check' = [check EXCEPT ![c] = NoCheck]
    /\ cresult' = [cresult EXCEPT ![c] = NoResult]
    /\ cstate' = [cstate EXCEPT ![c] = "unknown"]

\* evaluate() raises when the result was cleaned up in the meantime.
LoadAlert(c) ==
    /\ cpc[c] = "loaded"
    /\ \/ /\ cresult[c] \in rows
          /\ cstate' = [cstate EXCEPT ![c] = state[check[c].query]]
          /\ cpc' = [cpc EXCEPT ![c] = "read"]
          /\ UNCHANGED <<check, cresult, overtaken>>
       \/ /\ cresult[c] \notin rows
          /\ CheckerRests(c) /\ overtaken' = overtaken \ {c}
    /\ UNCHANGED <<resultVars, outcome, toCheck, checks, state, heard, since, lost,
                   doubtful, missed, deaths>>

\* should_notify: the state changed, or the alert is still triggered and its
\* rearm time has passed.
ShouldNotify(was, now, rearmed) ==
    now # was \/ (was = "triggered" /\ rearmed)

StoreState_IfTriggered(q, was, now) ==  \* mutant: only a trigger is saved
    state' = IF now = "triggered" THEN [state EXCEPT ![q] = now] ELSE state

StoreState(q, was, now) ==
    state' = IF now # was THEN [state EXCEPT ![q] = now] ELSE state

\* History: c changes the state that another check of the query has read or
\* stored, or ends while another one still holds a result that was replaced.
Overtaken(c) ==
    LET q == check[c].query
    IN  {d \in Checkers \ {c} :
            /\ check[d].query = q
            /\ \/ cpc[d] \in {"read", "committed"} /\ state'[q] # state[q]
               \/ cpc[d] \in {"loaded", "read"} /\ cresult[d] # latest[q]}

CommitState(c) ==
    /\ cpc[c] = "read"
    /\ LET q   == check[c].query
           was == cstate[c]
           now == outcome[cresult[c]]
       IN  /\ \E rearmed \in {FALSE, Rearms} :
                 \/ /\ ShouldNotify(was, now, rearmed)
                    /\ StoreState(q, was, now)
                    /\ cpc' = [cpc EXCEPT ![c] = "committed"]
                    /\ overtaken' = overtaken \cup Overtaken(c)
                    /\ UNCHANGED <<check, cresult, cstate>>
                 \/ /\ ~ShouldNotify(was, now, rearmed)
                    /\ UNCHANGED state
                    /\ CheckerRests(c)
                    /\ overtaken' = (overtaken \cup Overtaken(c)) \ {c}
           /\ doubtful' = IF c \in overtaken THEN doubtful \cup {q} ELSE doubtful \ {q}
    /\ UNCHANGED <<resultVars, outcome, toCheck, checks, heard, since, lost, missed, deaths>>

\* Nobody is told that an unknown state turned out to be ok.
Skips_Unknown(was, now) == was = "unknown"  \* mutant: nor what else it turned out to be
Skips(was, now) == was = "unknown" /\ now = "ok"

\* After the commit the subscribers are told, unless the alert is muted.
Notify(c) ==
    /\ cpc[c] = "committed"
    /\ LET q   == check[c].query
           was == cstate[c]
           now == outcome[cresult[c]]
       IN  \/ /\ Skips(was, now)
              /\ missed' = IF c \in overtaken THEN missed \cup {q} ELSE missed
              /\ UNCHANGED heard
           \/ /\ ~Skips(was, now)
              /\ missed' = missed \cup {q}
              /\ UNCHANGED heard
           \/ /\ ~Skips(was, now)
              /\ missed' = IF c \in overtaken THEN missed \cup {q} ELSE missed \ {q}
              /\ heard' = [heard EXCEPT ![q] = now]
    /\ CheckerRests(c) /\ overtaken' = overtaken \ {c}
    /\ UNCHANGED <<resultVars, outcome, toCheck, checks, state, since, lost, doubtful, deaths>>

\* The horse of the check dies or runs into its timeout: nothing repeats the check,
\* nor the notification, whose change is committed.
CheckerDies(c) ==
    /\ cpc[c] # "idle" /\ deaths < MaxDeaths
    /\ deaths' = deaths + 1
    /\ IF cpc[c] = "committed"
       THEN missed' = missed \cup {check[c].query} /\ UNCHANGED lost
       ELSE lost' = lost \cup {check[c].query} /\ UNCHANGED missed
    /\ CheckerRests(c) /\ overtaken' = overtaken \ {c}
    /\ UNCHANGED <<resultVars, outcome, toCheck, checks, state, heard, since, doubtful>>

------------------------------------------------------------------------------
ExecutionStep(x) == Run(x) \/ Commit(x) \/ DelayCheck(x) \/ HorseDies(x)

CheckStep(c) ==
    \/ PopCheck(c) \/ LoadQuery(c) \/ LoadAlert(c) \/ CommitState(c)
    \/ Notify(c) \/ CheckerDies(c)

\* A save writes the pointer of the page, and nobody asks for a check.
Save(q) ==
    /\ SavePage(q)
    /\ IF latest'[q] = latest[q] THEN UNCHANGED <<since, lost>>
       ELSE lost' = lost \cup {q} /\ Repointed({q}, latest'[q])
    /\ UNCHANGED <<outcome, toCheck, checks, state, checkerVars, heard, doubtful, missed,
                   deaths>>

OtherResultsStep ==
    /\ \/ \E x \in Executions : SelectQueries(x) \/ AbortExecution(x)
       \/ OtherUserStep
       \/ CleanupStep
    /\ UNCHANGED alertVars

Next ==
    \/ \E x \in Executions : ExecutionStep(x)
    \/ \E c \in Checkers : CheckStep(c)
    \/ \E q \in Queries : Save(q)
    \/ OtherResultsStep

Spec == Init /\ [][Next]_vars

------------------------------------------------------------------------------
(***************************************************************************)
(* Properties.                                                             *)
(***************************************************************************)
\* "Make sure that alert sees the latest query result": a check of a query
\* evaluates the result of the execution that updated the query and asked for
\* it, or one that the query was pointed at later, never an earlier one.
CheckSeesItsResult ==
    \A c \in Checkers :
        cpc[c] \notin {"idle", "popped"} /\ check[c].query \in touched[check[c].by] =>
            cresult[c] \in since[check[c].query][check[c].by]

\* No check of the query is queued, running or still to be enqueued, and none
\* was lost.
Quiet(q) ==
    /\ q \notin lost
    /\ \A x \in Executions : q \notin toCheck[x]
    /\ \A i \in DOMAIN checks : checks[i].query # q
    /\ \A c \in Checkers : check[c].query # q

\* Once its checks are done, an alert is in the state that the latest result
\* of its query puts it in, however its checks ran side by side.  It is not, if a
\* save of the query's page has replaced the result, or if the check that ended
\* last was overtaken: another one had changed the state that it had read, or had
\* ended before it with a newer result.
AlertsSettle ==
    \A q \in Queries :
        Quiet(q) /\ q \notin doubtful /\ (\E x \in Executions : latest[q] \in since[q][x])
            => state[q] = outcome[latest[q]]

\* When no notification is outstanding, the state that subscribers were told last
\* is the state of the alert, or they know it to be unknown and it is ok.  They
\* missed a change if it was muted, if the horse died between the commit and the
\* notification, or if they were told of it when another check had changed it.
SubscribersKnow ==
    \A q \in Queries :
        q \notin missed /\ (\A c \in Checkers : check[c].query = q => cpc[c] # "committed")
            => heard[q] = state[q] \/ (heard[q] = "unknown" /\ state[q] = "ok")

==============================================================================
