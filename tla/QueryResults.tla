----------------------------- MODULE QueryResults -----------------------------
(***************************************************************************)
(* The tables queries and query_results: executions store their result and *)
(* point every saved query of the same text at it, users edit and fork     *)
(* queries meanwhile, and cleanup_query_results deletes results that have  *)
(* become old and that no query points at.  The page of a query keeps a    *)
(* copy of its text and pointer, and sends both with every save.           *)
(*                                                                         *)
(* PostgreSQL runs at READ COMMITTED: a statement sees what is committed   *)
(* when it starts, and what a transaction writes is visible from its       *)
(* commit on.  A result has the name of the execution that produced it; a  *)
(* member of Texts stands for a (query_hash, data source) pair.            *)
(***************************************************************************)
EXTENDS Naturals, FiniteSets

CONSTANTS
    Queries,       \* ids of saved queries, those of future forks included
    Saved,         \* the queries that exist at first
    Texts,         \* query hashes
    NoText,        \* the hash of a query that was not created yet
    Executions,    \* runs of QueryExecutor, and the results they store
    Stored,        \* [the old results that no query has at first -> Texts]
    NoResult,      \* latest_query_data_id is null
    CleanupCount,  \* QUERY_RESULTS_CLEANUP_COUNT (100 in the code)
    MaxEdits       \* bound: texts typed into pages

ASSUME SavedAssumption    == Saved \subseteq Queries
ASSUME NoTextAssumption   == NoText \notin Texts
ASSUME NoResultAssumption == NoResult \notin Executions
ASSUME StoredAssumption   == /\ DOMAIN Stored \subseteq Executions
                             /\ \A x \in DOMAIN Stored : Stored[x] \in Texts
ASSUME LimitsAssumption   == CleanupCount \in Nat \ {0} /\ MaxEdits \in Nat

VARIABLES
    text,     \* [Queries -> Texts or NoText]: queries.query_hash
    latest,   \* [Queries -> result or NoResult]: queries.latest_query_data_id
    rows,     \* results that are committed in query_results
    old,      \* results retrieved more than QUERY_RESULTS_CLEANUP_MAX_AGE ago
    xpc,      \* [Executions -> ...]: where the execution is
    xtext,    \* [Executions -> Texts or NoText]: the hash it executes
    touched,  \* [Executions -> set of queries]: update_latest_result's SELECT
    fork,     \* [Queries -> ...]: the copy a fork has read and not committed
    doomed,   \* results the running DELETE of cleanup_query_results selected
    page,     \* [Queries -> ...]: the copy of the query in its editor's browser
    hadTexts, \* history: every hash the query, its page, or the query it copies had
    edits     \* texts typed

resultVars == <<text, latest, rows, old, xpc, xtext, touched, fork, doomed,
                page, hadTexts, edits>>

ExecutionPCs == {"idle", "ran", "selected", "committed", "aborted"}
MaybeResult  == Executions \cup {NoResult}
NoFork       == [of |-> NoText, latest |-> NoResult, had |-> {}]
NoPage       == [of |-> NoText, latest |-> NoResult]

TypeOK ==
    /\ text \in [Queries -> Texts \cup {NoText}]
    /\ latest \in [Queries -> MaybeResult]
    /\ rows \in SUBSET Executions
    /\ old \in SUBSET rows
    /\ xpc \in [Executions -> ExecutionPCs]
    /\ xtext \in [Executions -> Texts \cup {NoText}]
    /\ touched \in [Executions -> SUBSET Queries]
    /\ fork \in [Queries -> [of : Texts \cup {NoText}, latest : MaybeResult,
                          had : SUBSET Texts]]
    /\ doomed \in SUBSET Executions
    /\ page \in [Queries -> [of : Texts \cup {NoText}, latest : MaybeResult]]
    /\ hadTexts \in [Queries -> SUBSET Texts]
    /\ edits \in 0..MaxEdits

ResultsInit ==
    /\ text \in [Queries -> Texts \cup {NoText}]
    /\ \A q \in Queries : q \in Saved <=> text[q] # NoText
    /\ latest = [q \in Queries |-> NoResult]
    /\ rows = DOMAIN Stored /\ old = DOMAIN Stored
    /\ xpc = [x \in Executions |-> IF x \in DOMAIN Stored THEN "committed" ELSE "idle"]
    /\ xtext = [x \in Executions |-> IF x \in DOMAIN Stored THEN Stored[x] ELSE NoText]
    /\ touched = [x \in Executions |-> {}]
    /\ fork = [q \in Queries |-> NoFork]
    /\ doomed = {}
    /\ page = [q \in Queries |-> NoPage]
    /\ hadTexts = [q \in Queries |-> {text[q]} \ {NoText}]
    /\ edits = 0

------------------------------------------------------------------------------
(***************************************************************************)
(* QueryExecutor.run after the query runner has returned data.             *)
(***************************************************************************)
RunQuery(x) ==
    /\ xpc[x] = "idle"
    /\ \E t \in Texts : xtext' = [xtext EXCEPT ![x] = t]
    /\ xpc' = [xpc EXCEPT ![x] = "ran"]
    /\ UNCHANGED <<text, latest, rows, old, touched, fork, doomed, page, hadTexts, edits>>

\* update_latest_result: the queries whose result this is.
QueriesOf_Any(t) == {q \in Queries : text[q] # NoText}  \* mutant: no filter on the hash
QueriesOf(t) == {q \in Queries : text[q] = t}

\* store_result and the SELECT of update_latest_result, which flushes the
\* INSERT of the result.
SelectQueries(x) ==
    /\ xpc[x] = "ran"
    /\ touched' = [touched EXCEPT ![x] = QueriesOf(xtext[x])]
    /\ xpc' = [xpc EXCEPT ![x] = "selected"]
    /\ UNCHANGED <<text, latest, rows, old, xtext, fork, doomed, page, hadTexts, edits>>

\* The second iteration over the SELECT flushes an UPDATE per selected query,
\* which sets only the pointer, whatever has become of the query's text, and
\* locks the row; nobody sees it before the commit, so that both are one step.
CommitResult(x) ==
    /\ xpc[x] = "selected"
    /\ rows' = rows \cup {x}
    /\ latest' = [q \in Queries |-> IF q \in touched[x] THEN x ELSE latest[q]]
    /\ xpc' = [xpc EXCEPT ![x] = "committed"]
    /\ UNCHANGED <<text, old, xtext, touched, fork, doomed, page, hadTexts, edits>>

\* An error, an interrupt or the death of the horse rolls everything back.
AbortExecution(x) ==
    /\ xpc[x] \in {"ran", "selected"}
    /\ xpc' = [xpc EXCEPT ![x] = "aborted"]
    /\ UNCHANGED <<text, latest, rows, old, xtext, touched, fork, doomed, page, hadTexts, edits>>

------------------------------------------------------------------------------
(***************************************************************************)
(* Users.  A save of the page recomputes the hash, and writes the pointer  *)
(* that the page has: the one it was opened with, or the result of the     *)
(* text it had when that was executed.  A fork copies the row as it was    *)
(* read.                                                                   *)
(***************************************************************************)
OpenPage(q) ==
    /\ text[q] # NoText
    /\ page' = [page EXCEPT ![q] = [of |-> text[q], latest |-> latest[q]]]
    /\ UNCHANGED <<text, latest, rows, old, xpc, xtext, touched, fork, doomed, hadTexts, edits>>

TypeText(q, t) ==
    /\ page[q].of \notin {NoText, t} /\ edits < MaxEdits
    /\ edits' = edits + 1
    /\ page' = [page EXCEPT ![q].of = t]
    /\ hadTexts' = [hadTexts EXCEPT ![q] = @ \cup {t}]
    /\ UNCHANGED <<text, latest, rows, old, xpc, xtext, touched, fork, doomed>>

\* The page keeps the id of a result it has fetched if it is of the page's text.
ShowResult(q, x) ==
    /\ page[q].of # NoText /\ page[q].of = xtext[x] /\ x \in rows
    /\ page' = [page EXCEPT ![q].latest = x]
    /\ UNCHANGED <<text, latest, rows, old, xpc, xtext, touched, fork, doomed, hadTexts, edits>>

\* The foreign key refuses the save if the page's result has been deleted.
SavePage(q) ==
    /\ page[q].of # NoText
    /\ page[q].latest \in rows \cup {NoResult}
    /\ text' = [text EXCEPT ![q] = page[q].of]
    /\ latest' = [latest EXCEPT ![q] = page[q].latest]
    /\ UNCHANGED <<rows, old, xpc, xtext, touched, fork, doomed, page, hadTexts, edits>>

ForkRead(p, q) ==
    /\ text[p] = NoText /\ fork[p] = NoFork
    /\ text[q] # NoText
    /\ fork' = [fork EXCEPT ![p] = [of |-> text[q], latest |-> latest[q],
                                       had |-> hadTexts[q]]]
    /\ UNCHANGED <<text, latest, rows, old, xpc, xtext, touched, doomed, page, hadTexts, edits>>

ForkInsert(p) ==
    /\ text' = [text EXCEPT ![p] = fork[p].of]
    /\ latest' = [latest EXCEPT ![p] = fork[p].latest]
    /\ hadTexts' = [hadTexts EXCEPT ![p] = fork[p].had]

ForkCommit_NoForeignKey(p) ==  \* mutant: latest_query_data_id is a plain column
    /\ fork[p] # NoFork
    /\ fork' = [fork EXCEPT ![p] = NoFork]
    /\ ForkInsert(p)
    /\ UNCHANGED <<rows, old, xpc, xtext, touched, doomed, page, edits>>

\* The foreign key of latest_query_data_id refuses a result that is gone.
ForkCommit(p) ==
    /\ fork[p] # NoFork
    /\ fork' = [fork EXCEPT ![p] = NoFork]
    /\ \/ fork[p].latest \in rows \cup {NoResult} /\ ForkInsert(p)
       \/ fork[p].latest \notin rows \cup {NoResult} /\ UNCHANGED <<text, latest, hadTexts>>
    /\ UNCHANGED <<rows, old, xpc, xtext, touched, doomed, page, edits>>

------------------------------------------------------------------------------
(***************************************************************************)
(* cleanup_query_results: one DELETE whose subquery picks at most          *)
(* CleanupCount unused results, in no particular order.  A fork that       *)
(* commits while it runs makes its foreign key check fail, and then the    *)
(* whole statement, until the job runs again.                              *)
(***************************************************************************)
ResultAges(x) ==
    /\ x \in rows \ old
    /\ old' = old \cup {x}
    /\ UNCHANGED <<text, latest, rows, xpc, xtext, touched, fork, doomed, page, hadTexts, edits>>

InUse(x) == \E q \in Queries : latest[q] = x

Unused_InnerJoin == {}  \* mutant: the join with queries is an inner one
Unused == {x \in old : ~InUse(x)}

CleanupSelect ==
    /\ doomed = {} /\ Unused # {}
    /\ \E S \in SUBSET Unused :
         /\ IF Cardinality(Unused) <= CleanupCount THEN S = Unused
            ELSE Cardinality(S) = CleanupCount
         /\ doomed' = S
    /\ UNCHANGED <<text, latest, rows, old, xpc, xtext, touched, fork, page, hadTexts, edits>>

CleanupDelete ==
    /\ doomed # {} /\ doomed' = {}
    /\ \/ (\A x \in doomed : ~InUse(x)) /\ rows' = rows \ doomed /\ old' = old \ doomed
       \/ (\E x \in doomed : InUse(x)) /\ UNCHANGED <<rows, old>>
    /\ UNCHANGED <<text, latest, xpc, xtext, touched, fork, page, hadTexts, edits>>

------------------------------------------------------------------------------
OtherUserStep ==
    \/ \E q \in Queries : OpenPage(q)
    \/ \E q \in Queries, t \in Texts : TypeText(q, t)
    \/ \E q \in Queries, x \in Executions : ShowResult(q, x)
    \/ \E p, q \in Queries : ForkRead(p, q)
    \/ \E p \in Queries : ForkCommit(p)

UserStep == OtherUserStep \/ \E q \in Queries : SavePage(q)

CleanupStep ==
    \/ \E x \in Executions : ResultAges(x)
    \/ CleanupSelect
    \/ CleanupDelete

ResultsNext ==
    \/ \E x \in Executions :
         RunQuery(x) \/ SelectQueries(x) \/ CommitResult(x) \/ AbortExecution(x)
    \/ UserStep
    \/ CleanupStep

ResultsSpec == ResultsInit /\ [][ResultsNext]_resultVars

------------------------------------------------------------------------------
(***************************************************************************)
(* Properties.                                                             *)
(***************************************************************************)
\* The latest result of a query is a result of a text that the query, its page,
\* or the query it was forked from has had: not always of its present text, for
\* an execution of the old text may still commit after a save, a page may have
\* shown the result of a text that was changed again before the save, and a fork
\* copies the pointer.
LatestWasItsOwn ==
    \A q \in Queries : latest[q] \in Executions => xtext[latest[q]] \in hadTexts[q]

\* The latest result of a query exists: deleting unused results races with
\* forks that have read the pointer and with executions that move it.
LatestExists == \A q \in Queries : latest[q] \in rows \cup {NoResult}

\* A query points at a result that no query had.
TakesUp == \E x \in rows : ~InUse(x) /\ InUse(x)'

\* A result that no query points at any more is deleted in the end, although each
\* run deletes few, and a run deletes nothing at all if a query takes up one of
\* its results meanwhile: unless that goes on for ever.
UnusedResultsGo ==
    <>[][~TakesUp]_resultVars =>
        \A x \in Executions : x \in old /\ ~InUse(x) ~> x \notin rows \/ InUse(x)

==============================================================================
