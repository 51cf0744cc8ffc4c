---------------------------- MODULE ScheduledQueries ----------------------------
(***************************************************************************)
(* Scheduled queries from the schedule column to schedule_failures: the    *)
(* periodic jobs refresh_queries and empty_schedules, the executions of    *)
(* the queries by the workers, the pages that execute and reschedule them, *)
(* and the failure reports.                                                *)
(*                                                                         *)
(* Queries are numbered by their ids.  Time is not counted here            *)
(* (ScheduleTimes does that): elapsed holds the queries for which          *)
(* should_schedule_next is true of the start noted last.  A periodic job   *)
(* reads rows into its session and never refreshes them, so that what it   *)
(* writes may be based on what it read long ago.                           *)
(***************************************************************************)
EXTENDS Naturals, FiniteSets

CONSTANTS
    Queries,       \* the ids of the scheduled queries
    TemplateOf,    \* TemplateOf[q]: the query hash of its template
    TextOf,        \* TextOf[q]: the query hash of the text that is executed
    Unapplicable,  \* queries whose parameters have invalid default values
    Ending,        \* queries whose schedules have an end
    FirstSchedules,\* the schedules a query may begin with
    NewSchedules,  \* the schedules users set
    Executions,    \* the executions that can be queued or under way at once
    Refreshers,    \* the runs of refresh_queries that may overlap
    NoQuery,       \* no query
    MaxReports,    \* MAX_FAILURE_REPORTS_PER_QUERY
    MaxEdits,      \* bound: schedules that are set or removed
    ByHand         \* queries that people execute too

\* A schedule: absent, without an end or with an end to come, with an end that
\* has passed, or with an end that cannot be parsed, and then disabled.
Schedules == {"none", "open", "past", "faulty", "disabled"}

ASSUME QueriesAssumption ==
    /\ Queries \subseteq Nat /\ IsFiniteSet(Queries)
    /\ DOMAIN TemplateOf = Queries /\ DOMAIN TextOf = Queries
    /\ Unapplicable \subseteq Queries /\ Ending \subseteq Queries /\ NoQuery \notin Queries
ASSUME RefreshersAssumption == IsFiniteSet(Refreshers)
ASSUME SchedulesAssumption == /\ FirstSchedules \subseteq Schedules
                              /\ NewSchedules \subseteq {"open", "past", "faulty"}
ASSUME BoundsAssumption    == /\ MaxReports \in Nat \ {0} /\ MaxEdits \in Nat
                              /\ ByHand \subseteq Queries

VARIABLES
    schedule,  \* [Queries -> Schedules]
    failures,  \* [Queries -> Nat]: schedule_failures, up to MaxReports
    elapsed,   \* queries whose next iteration has come, by sq:executed_at
    paused,    \* is the data source paused?
    exec,      \* [Executions -> ...]: the jobs
    locks,     \* queued and running executions whose job their text's lock holds
    refresh,   \* [Refreshers -> ...]: the runs of refresh_queries
    emptying,  \* the run of empty_schedules: the queries it has selected
    edits,     \* number of edits of schedules
    removed,   \* history: queries whose schedule a user removed last
    unseen,    \* started since the last look at sq:executed_at
    loose,     \* history: queries with a job without its lock since the interval passed
    starts     \* history: scheduled starts since the interval passed, of those not loose

rows     == <<schedule, failures, paused>>
history  == <<edits, removed>>
jobs     == <<exec, locks, loose, starts>>
vars == <<rows, elapsed, jobs, refresh, emptying, history, unseen>>

Free      == [pc |-> "free", query |-> NoQuery, scheduled |-> FALSE, loaded |-> 0]
NoRefresh == [pc |-> "idle", open |-> {}, faulty |-> {}, outdated |-> {},
              loaded |-> [q \in Unapplicable |-> 0]]

ExecutionStates == [pc : {"free", "queued", "running", "failed", "succeeded"},
                    query : Queries \cup {NoQuery}, scheduled : BOOLEAN,
                    loaded : 0..MaxReports]

Refreshes == [pc : {"idle", "selected", "looking", "enqueueing"},
              open : SUBSET Queries, faulty : SUBSET Queries, outdated : SUBSET Queries,
              loaded : [Unapplicable -> 0..MaxReports]]

TypeOK ==
    /\ schedule \in [Queries -> Schedules]
    /\ failures \in [Queries -> 0..MaxReports]
    /\ elapsed \subseteq Queries /\ unseen \subseteq Queries
    /\ paused \in BOOLEAN
    /\ exec \in [Executions -> ExecutionStates]
    /\ locks \subseteq Executions /\ loose \subseteq Queries
    /\ refresh \in [Refreshers -> Refreshes]
    /\ emptying \subseteq Queries
    /\ edits \in 0..MaxEdits /\ removed \subseteq Queries
    /\ starts \in [Queries -> Nat]

Init ==
    /\ schedule \in [Queries -> FirstSchedules]
    /\ failures = [q \in Queries |-> 0]
    /\ elapsed = {} /\ unseen = {}
    /\ paused = FALSE
    /\ exec = [x \in Executions |-> Free]
    /\ locks = {} /\ loose = {}
    /\ refresh = [r \in Refreshers |-> NoRefresh] /\ emptying = {}
    /\ edits = 0 /\ removed = {}
    /\ starts = [q \in Queries |-> 0]

------------------------------------------------------------------------------
(***************************************************************************)
(* Users and time.                                                         *)
(***************************************************************************)
SetSchedule(q, s) ==
    /\ edits < MaxEdits /\ edits' = edits + 1
    /\ schedule' = [schedule EXCEPT ![q] = s]
    /\ removed' = removed \ {q}
    /\ UNCHANGED <<failures, paused, elapsed, jobs, refresh, emptying, unseen>>

\* The schedule dialog, or archiving the query.
RemoveSchedule(q) ==
    /\ edits < MaxEdits /\ edits' = edits + 1
    /\ schedule' = [schedule EXCEPT ![q] = "none"]
    /\ removed' = removed \cup {q}
    /\ UNCHANGED <<failures, paused, elapsed, jobs, refresh, emptying, unseen>>

PauseOrResume ==
    /\ edits < MaxEdits /\ edits' = edits + 1
    /\ paused' = ~paused
    /\ UNCHANGED <<schedule, failures, elapsed, jobs, refresh, emptying, removed,
                   unseen>>

EndPasses(q) ==
    /\ q \in Ending /\ schedule[q] = "open"
    /\ schedule' = [schedule EXCEPT ![q] = "past"]
    /\ UNCHANGED <<failures, paused, elapsed, jobs, refresh, emptying, history,
                   unseen>>

Live == {x \in Executions : exec[x].pc \in {"queued", "running"}}

\* The queries whose text has a job that is not its lock's.
Unguarded == {q \in Queries : \E x \in Live \ locks : TextOf[exec[x].query] = TextOf[q]}

\* History: jobs have been enqueued, or have lost their lock.
NoteLoose ==
    /\ loose' = loose \cup Unguarded'
    /\ starts' = [q \in Queries |-> IF q \in loose' THEN 0 ELSE starts[q]]

\* The shortest interval is a minute, and refresh_queries runs every half.
IntervalPasses(q) ==
    /\ q \notin elapsed \cup unseen
    /\ elapsed' = elapsed \cup {q}
    /\ starts' = [starts EXCEPT ![q] = 0]
    /\ loose' = IF q \in Unguarded THEN loose ELSE loose \ {q}
    /\ UNCHANGED <<rows, exec, locks, refresh, emptying, history, unseen>>

------------------------------------------------------------------------------
(***************************************************************************)
(* Executions.  enqueue_query returns the job that the lock of the text    *)
(* holds; what is not locked is not found.  Each of its tries enqueues a   *)
(* job, and then sets the lock if it has not changed meanwhile: jobs of    *)
(* tries before the last one, and that of the last one too, may stay       *)
(* without a lock (QueryJobs has the round trips of a call, which is one   *)
(* step here).                                                             *)
(***************************************************************************)
Locked(t) == \E x \in locks : TextOf[exec[x].query] = t

Enqueue(q, scheduled) ==
    \/ Locked(TextOf[q]) /\ UNCHANGED jobs
    \/ /\ ~Locked(TextOf[q])
       /\ \E J \in SUBSET {x \in Executions : exec[x].pc = "free"} :
            /\ J # {}
            /\ exec' = [x \in Executions |->
                          IF x \in J THEN [pc |-> "queued", query |-> q,
                                         scheduled |-> scheduled, loaded |-> 0]
                          ELSE exec[x]]
            /\ \/ UNCHANGED locks
               \/ \E x \in J : locks' = locks \cup {x}
            /\ NoteLoose

\* The sweep of ghost locks finds the lock of a job that was popped a moment ago, a
\* request finds its job cancelled, or the lock is older than its time to live.
LoseLock(x) ==
    /\ x \in locks
    /\ locks' = locks \ {x}
    /\ UNCHANGED <<rows, elapsed, exec, refresh, emptying, history, unseen>>
    /\ NoteLoose

ExecuteByHand(q) ==
    /\ q \in ByHand /\ ~paused /\ ~Locked(TextOf[q])
    /\ Enqueue(q, FALSE)
    /\ UNCHANGED <<rows, elapsed, refresh, emptying, history, unseen>>

\* QueryExecutor's constructor loads the query and notes the start.
Start_NotNoted(x) ==  \* mutant: sq:executed_at is not updated
    LET q == exec[x].query IN
    /\ exec[x].pc = "queued"
    /\ exec' = [exec EXCEPT ![x] = [@ EXCEPT !.pc = "running", !.loaded = failures[q]]]
    /\ \/ exec[x].scheduled /\ starts' = [starts EXCEPT ![q] = IF q \in loose THEN @ ELSE @ + 1]
       \/ ~exec[x].scheduled /\ UNCHANGED starts
    /\ UNCHANGED <<rows, elapsed, locks, loose, unseen, refresh, emptying, history>>

Start(x) ==
    LET q == exec[x].query IN
    /\ exec[x].pc = "queued"
    /\ exec' = [exec EXCEPT ![x] = [@ EXCEPT !.pc = "running", !.loaded = failures[q]]]
    /\ \/ /\ exec[x].scheduled
          /\ elapsed' = elapsed \ {q}
          /\ unseen' = unseen \cup {q}
          /\ starts' = [starts EXCEPT ![q] = IF q \in loose THEN @ ELSE @ + 1]
       \/ ~exec[x].scheduled /\ UNCHANGED <<elapsed, unseen, starts>>
    /\ UNCHANGED <<rows, locks, loose, refresh, emptying, history>>

\* The query ends, with data or with an error, and the lock is deleted, whatever
\* job it holds.
RunEnds(x) ==
    /\ exec[x].pc = "running"
    /\ \E pc \in {"failed", "succeeded"} : exec' = [exec EXCEPT ![x].pc = pc]
    /\ locks' = {y \in locks : TextOf[exec[y].query] # TextOf[exec[x].query]}
    /\ UNCHANGED <<rows, elapsed, loose, refresh, emptying, history, unseen, starts>>

IsFirst(q, S) == q \in S /\ \A p \in S : q <= p

\* track_failure counts from the number of failures that was loaded with the
\* query.  The backoff grows with it: it may put off the next iteration, by more
\* than the time between two looks, and in the end it does.
Backoff(q) ==
    \/ failures'[q] < MaxReports /\ UNCHANGED <<elapsed, unseen>>
    \/ elapsed' = elapsed \ {q} /\ unseen' = unseen \cup {q}

TrackFailure_Stuck(q, loaded) ==  \* mutant: the count is not increased
    failures' = [failures EXCEPT ![q] = loaded] /\ Backoff(q)

TrackFailure_NoBackoff(q, loaded) ==  \* mutant: the next iteration is not put off
    /\ failures' = [failures EXCEPT ![q] = IF loaded < MaxReports THEN loaded + 1
                                           ELSE MaxReports]
    /\ UNCHANGED <<elapsed, unseen>>

TrackFailure(q, loaded) ==
    /\ failures' = [failures EXCEPT ![q] = IF loaded < MaxReports THEN loaded + 1
                                           ELSE MaxReports]
    /\ Backoff(q)

Fail(x) ==
    /\ exec[x].pc = "failed"
    /\ exec' = [exec EXCEPT ![x] = Free]
    /\ \/ exec[x].scheduled /\ TrackFailure(exec[x].query, exec[x].loaded)
       \/ ~exec[x].scheduled /\ UNCHANGED <<failures, elapsed, unseen>>
    /\ UNCHANGED <<schedule, paused, locks, loose, refresh, emptying, history, starts>>

\* A success by hand resets the count too.
Succeed_KeepsCount(x) ==  \* mutant: only the first failure is forgotten
    /\ exec[x].pc = "succeeded"
    /\ exec' = [exec EXCEPT ![x] = Free]
    /\ failures' = IF exec[x].loaded = 1
                   THEN [failures EXCEPT ![exec[x].query] = 0] ELSE failures
    /\ UNCHANGED <<schedule, paused, elapsed, locks, loose, refresh, emptying, history,
                   unseen, starts>>

Succeed(x) ==
    /\ exec[x].pc = "succeeded"
    /\ exec' = [exec EXCEPT ![x] = Free]
    /\ failures' = IF exec[x].loaded > 0
                   THEN [failures EXCEPT ![exec[x].query] = 0] ELSE failures
    /\ UNCHANGED <<schedule, paused, elapsed, locks, loose, refresh, emptying, history,
                   unseen, starts>>

------------------------------------------------------------------------------
(***************************************************************************)
(* refresh_queries.                                                        *)
(***************************************************************************)
\* outdated_queries selects the rows that have a schedule.
SelectScheduled(r) ==
    /\ refresh[r].pc = "idle"
    /\ refresh' = [refresh EXCEPT ![r] =
                    [pc |-> "selected",
                     open |-> {q \in Queries : schedule[q] = "open"},
                     faulty |-> {q \in Queries : schedule[q] = "faulty"},
                     outdated |-> {},
                     loaded |-> [q \in Unapplicable |-> failures[q]]]]
    /\ UNCHANGED <<rows, elapsed, jobs, emptying, history, unseen>>

\* Of the queries with the same template, the one with the highest id is kept.
LastOfTemplate(due) ==
    {q \in due : \A p \in due : TemplateOf[p] = TemplateOf[q] => p <= q}

\* scheduled_queries_executions.refresh(), and the queries it makes outdated.
LookAtExecutions(r) ==
    /\ refresh[r].pc = "selected"
    /\ refresh' = [refresh EXCEPT ![r].pc = "looking", ![r].open = {},
                       ![r].outdated = LastOfTemplate(refresh[r].open \cap elapsed)]
    /\ unseen' = {}
    /\ UNCHANGED <<rows, elapsed, jobs, emptying, history>>

\* The end of a schedule cannot be parsed: the schedule is written back, as it
\* was selected and disabled.
DisableFaulty_KeepsFlag(r) ==  \* mutant: written back without the flag
    /\ refresh[r].pc = "looking"
    /\ \/ /\ refresh[r].faulty = {}
          /\ refresh' = [refresh EXCEPT ![r].pc = "enqueueing"]
          /\ UNCHANGED schedule
       \/ \E q \in refresh[r].faulty :
            /\ IsFirst(q, refresh[r].faulty)
            /\ refresh' = [refresh EXCEPT ![r].faulty = @ \ {q}]
            /\ schedule' = [schedule EXCEPT ![q] = "faulty"]
    /\ UNCHANGED <<failures, paused, elapsed, jobs, emptying, history, unseen>>

DisableFaulty(r) ==
    /\ refresh[r].pc = "looking"
    /\ \/ /\ refresh[r].faulty = {}
          /\ refresh' = [refresh EXCEPT ![r].pc = "enqueueing"]
          /\ UNCHANGED schedule
       \/ \E q \in refresh[r].faulty :
            /\ IsFirst(q, refresh[r].faulty)
            /\ refresh' = [refresh EXCEPT ![r].faulty = @ \ {q}]
            /\ schedule' = [schedule EXCEPT ![q] = "disabled"]
    /\ UNCHANGED <<failures, paused, elapsed, jobs, emptying, history, unseen>>

\* One turn of the loop: the query is skipped, fails for its parameters, or
\* is enqueued.  The loop goes on to the next after what a query raises, which only
\* invalid parameters do here: anything else would be neither tracked nor enqueued.
EnqueueOutdated(r) ==
    /\ refresh[r].pc = "enqueueing"
    /\ \E q \in refresh[r].outdated :
         /\ IsFirst(q, refresh[r].outdated)
         /\ refresh' = [refresh EXCEPT ![r].outdated = @ \ {q}]
         /\ \/ paused /\ UNCHANGED <<failures, elapsed, unseen, jobs>>
            \/ /\ ~paused /\ q \in Unapplicable
               /\ TrackFailure(q, refresh[r].loaded[q])
               /\ UNCHANGED jobs
            \/ /\ ~paused /\ q \notin Unapplicable
               /\ Enqueue(q, TRUE)
               /\ UNCHANGED <<failures, elapsed, unseen>>
    /\ UNCHANGED <<schedule, paused, emptying, history>>

RefreshEnds(r) ==
    /\ refresh[r].pc = "enqueueing" /\ refresh[r].outdated = {}
    /\ refresh' = [refresh EXCEPT ![r] = NoRefresh]
    /\ UNCHANGED <<rows, elapsed, jobs, emptying, history, unseen>>

RefreshStep(r) ==
    \/ SelectScheduled(r) \/ LookAtExecutions(r) \/ DisableFaulty(r)
    \/ EnqueueOutdated(r) \/ RefreshEnds(r)

------------------------------------------------------------------------------
(***************************************************************************)
(* empty_schedules.                                                        *)
(***************************************************************************)
\* past_scheduled_queries parses the end of every schedule, of the disabled
\* ones too, and nothing catches what that raises.
SelectPast ==
    /\ emptying = {}
    /\ \A q \in Queries : schedule[q] \notin {"faulty", "disabled"}
    /\ emptying' = {q \in Queries : schedule[q] = "past"}
    /\ UNCHANGED <<rows, elapsed, jobs, refresh, history, unseen>>

EmptySchedules_NoCommit ==  \* mutant: the session is never committed
    /\ emptying # {}
    /\ emptying' = {}
    /\ UNCHANGED <<rows, elapsed, jobs, refresh, history, unseen>>

EmptySchedules ==
    /\ emptying # {}
    /\ emptying' = {}
    /\ schedule' = [q \in Queries |-> IF q \in emptying THEN "none" ELSE schedule[q]]
    /\ UNCHANGED <<failures, paused, elapsed, jobs, refresh, history, unseen>>

------------------------------------------------------------------------------
UserStep(q) == \/ \E s \in NewSchedules : SetSchedule(q, s)
               \/ RemoveSchedule(q) \/ ExecuteByHand(q)

ExecutionStep(x) == Start(x) \/ RunEnds(x) \/ Fail(x) \/ Succeed(x)

Next ==
    \/ \E q \in Queries : UserStep(q) \/ EndPasses(q) \/ IntervalPasses(q)
    \/ \E x \in Executions : ExecutionStep(x) \/ LoseLock(x)
    \/ PauseOrResume
    \/ \E r \in Refreshers : RefreshStep(r)
    \/ SelectPast \/ EmptySchedules

Spec == Init /\ [][Next]_vars

\* The periodic jobs are scheduled for ever, and workers go on; executions
\* end, by the time limit of scheduled queries if need be.
Fairness ==
    /\ \A r \in Refreshers : WF_vars(RefreshStep(r))
    /\ WF_vars(SelectPast) /\ WF_vars(EmptySchedules)
    /\ \A x \in Executions : WF_vars(ExecutionStep(x))

FairSpec == Spec /\ Fairness

------------------------------------------------------------------------------
(***************************************************************************)
(* Properties.                                                             *)
(***************************************************************************)
\* A query whose interval has passed is executed while its schedule is in
\* force, or one with a higher id and the same template is: neither a schedule that
\* cannot be read nor a query whose parameters are invalid keeps it from that.
DueQueriesRun ==
    \A q \in Queries \ Unapplicable :
        (schedule[q] = "open" /\ q \in elapsed)
            ~> \/ schedule[q] # "open" \/ q \notin elapsed \/ paused
               \/ \E x \in Executions :
                    /\ exec[x].pc = "running" /\ exec[x].query >= q
                    /\ TemplateOf[exec[x].query] = TemplateOf[q]

\* The end of a schedule removes it, unless there is a schedule whose end
\* cannot be read.
PastSchedulesGo ==
    \A q \in Queries :
        schedule[q] = "past" ~> \/ schedule[q] # "past"
                                \/ \E p \in Queries : schedule[p] \in {"faulty", "disabled"}

\* A schedule that its owner removed may be written back by outdated_queries, but
\* disabled: the query is not selected again, and at most a run that had selected
\* it before enqueues it once more.
RemovedStaysQuiet == \A q \in removed : schedule[q] \in {"none", "disabled"}

\* Each run of refresh_queries that looked at the starts before the last job of the
\* query began may enqueue one job more, and none but those: in no interval is a
\* query started more often, while the jobs of its text have their lock.
ExtraStartsAreBounded ==
    \A q \in Queries \ loose : starts[q] <= 1 + Cardinality(Refreshers)

\* A failure of query q is tracked, and reported if the count is below the limit.
Fails(q)   == \/ \E x \in Executions :
                    exec[x].query = q /\ exec[x].scheduled /\ Fail(x)
              \/ (\E r \in Refreshers : EnqueueOutdated(r)) /\ failures'[q] > failures[q]
Reports(q) == Fails(q) /\ failures'[q] < MaxReports
Resets(q)  == failures[q] > 0 /\ failures'[q] = 0
Starts(q)  == \E x \in Executions : exec[x].query = q /\ exec[x].scheduled /\ Start(x)

\* Once a query fails no more, its count of failures becomes and stays zero,
\* although a failure that was under way may count from an old number.
FailureCountSettles ==
    \A q \in Queries \ Unapplicable :
        ([]<><<Starts(q)>>_vars /\ <>[][~Fails(q)]_vars) => <>[](failures[q] = 0)

\* A query that does nothing but fail is not reported for ever, although
\* executions that overlap may lose counts.
ReportingStops ==
    \A q \in Queries : []<><<Reports(q)>>_vars => []<><<Resets(q)>>_vars

==============================================================================
