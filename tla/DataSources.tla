------------------------------ MODULE DataSources ------------------------------
(***************************************************************************)
(* The deletion of a data source, a transaction of several statements,     *)
(* beside the executions, saves, forks and clean-ups of QueryResults.      *)
(*                                                                         *)
(* A statement waits for the row locks of other transactions: the UPDATE   *)
(* of the data source's queries locks them, the INSERT of a result holds   *)
(* a share lock on its data source until its commit, so that a result and  *)
(* a deletion may wait for each other; PostgreSQL then ends one of them.   *)
(* Foreign keys are never deferred: a statement that breaks one ends its   *)
(* transaction.                                                            *)
(***************************************************************************)
EXTENDS QueryResults

CONSTANTS
    Ours,   \* the Texts that run on the data source which may be deleted
    Orphan  \* the hash of a query that has no data source any more

ASSUME SourcesAssumption == /\ Ours \subseteq Texts /\ Orphan \in Texts \ Ours
                            /\ \A x \in DOMAIN Stored : Stored[x] # Orphan

VARIABLES
    source,    \* "present" or "deleted"
    deletion,  \* progress of DataSource.delete: [pc, queries, results]
    workbench  \* are there workbench_query_results of the data source?

sourceVars == <<source, deletion, workbench>>
dsVars == <<resultVars, sourceVars>>

NoDeletion == [pc |-> "idle", queries |-> {}, results |-> {}]

SourcesTypeOK ==
    /\ TypeOK
    /\ source \in {"present", "deleted"}
    /\ deletion \in [pc : {"idle", "cleared", "emptied"},
                     queries : SUBSET Queries, results : SUBSET Executions]
    /\ workbench \in BOOLEAN

DataSourcesInit ==
    /\ ResultsInit
    /\ \A q \in Queries : text[q] # Orphan
    /\ source = "present" /\ deletion = NoDeletion
    /\ workbench = FALSE

\* The foreign keys to data_sources accept the hash.
HasSource(t) == t \in Ours => source = "present"
SameSource(t, u) == (t \in Ours) = (u \in Ours) /\ Orphan \notin {t, u}

\* The UPDATE of a query, or the key to a result, does not have to wait.
QueryFree(q)  == q \notin deletion.queries
ResultFree(x) == x \notin deletion.results

------------------------------------------------------------------------------
(***************************************************************************)
(* The steps of QueryResults, with what the data source adds to them.      *)
(***************************************************************************)
ExecutionStep(x) ==
    \/ RunQuery(x) /\ HasSource(xtext'[x]) /\ xtext'[x] # Orphan
    \/ SelectQueries(x) /\ HasSource(xtext[x])
    \/ CommitResult(x) /\ \A q \in touched[x] : QueryFree(q)
    \/ AbortExecution(x)

PageStep(q) ==
    \/ OpenPage(q)
    \/ \E t \in Texts : TypeText(q, t) /\ SameSource(page[q].of, t)
    \/ \E x \in Executions : ShowResult(q, x)
    \/ SavePage(q) /\ HasSource(page[q].of) /\ QueryFree(q) /\ ResultFree(page[q].latest)

\* The page's user picks another data source: saved at once, with no result.
MoveQuery(q, t) ==
    /\ text[q] # NoText /\ QueryFree(q) /\ edits < MaxEdits
    /\ t # Orphan /\ ~SameSource(text[q], t) /\ HasSource(t)
    /\ edits' = edits + 1
    /\ text' = [text EXCEPT ![q] = t]
    /\ latest' = [latest EXCEPT ![q] = NoResult]
    /\ page' = [page EXCEPT ![q] = [of |-> t, latest |-> NoResult]]
    /\ hadTexts' = [hadTexts EXCEPT ![q] = @ \cup {t}]
    /\ UNCHANGED <<rows, old, xpc, xtext, touched, fork, doomed>>

ForkStep(p) ==
    \/ \E q \in Queries : ForkRead(p, q)
    \/ ForkCommit(p) /\ HasSource(fork[p].of) /\ ResultFree(fork[p].latest)
    \/ /\ fork[p] # NoFork /\ ~HasSource(fork[p].of)
       /\ fork' = [fork EXCEPT ![p] = NoFork]
       /\ UNCHANGED <<text, latest, rows, old, xpc, xtext, touched, doomed, page, hadTexts, edits>>

ResultStep ==
    \/ \E x \in Executions : ExecutionStep(x) \/ ResultAges(x)
    \/ \E q \in Queries : PageStep(q) \/ ForkStep(q)
    \/ \E q \in Queries, t \in Texts : MoveQuery(q, t)
    \/ CleanupSelect
    \/ CleanupDelete /\ \A x \in doomed : ResultFree(x)

\* A BI-tool workbench stores a result of the data source; no job deletes those.
StoreWorkbenchResult ==
    /\ source = "present" /\ ~workbench /\ workbench' = TRUE
    /\ UNCHANGED <<resultVars, source, deletion>>

------------------------------------------------------------------------------
(***************************************************************************)
(* DataSource.delete.  Nothing of it is visible before its commit.         *)
(***************************************************************************)
QueriesOfSource == {q \in Queries : text[q] \in Ours}
ResultsOfSource == {x \in rows : xtext[x] \in Ours}

\* UPDATE queries SET data_source_id = NULL, latest_query_data_id = NULL
DeleteClearsQueries ==
    /\ source = "present" /\ deletion = NoDeletion
    /\ deletion' = [deletion EXCEPT !.pc = "cleared", !.queries = QueriesOfSource]
    /\ UNCHANGED <<resultVars, source, workbench>>

\* Another query, which is not one of the data source any more or has become
\* one since, shows a result of it.
Pinned == \E q \in Queries \ deletion.queries : latest[q] \in ResultsOfSource

\* DELETE FROM query_results
DeleteEmptiesResults ==
    /\ deletion.pc = "cleared" /\ ~Pinned
    /\ deletion' = [deletion EXCEPT !.pc = "emptied", !.results = ResultsOfSource]
    /\ UNCHANGED <<resultVars, source, workbench>>

Leftovers_Cascade == FALSE  \* mutant: ON DELETE SET NULL on the column of results
\* Flushing session.delete sets data_source_id of the children that it finds to
\* NULL, which the column accepts of a query, and refuses of results.
Leftovers == ResultsOfSource \ deletion.results # {} \/ workbench

\* session.delete(self) and the commit, once no result of the data source is
\* about to be committed.
DeleteCommits ==
    /\ deletion.pc = "emptied" /\ ~Leftovers
    /\ \A x \in Executions : xtext[x] \in Ours => xpc[x] # "selected"
    /\ LET orphans == deletion.queries \cup QueriesOfSource
       IN  /\ text' = [q \in Queries |-> IF q \in orphans THEN Orphan ELSE text[q]]
           /\ latest' = [q \in Queries |->
                           IF q \in deletion.queries THEN NoResult ELSE latest[q]]
           /\ hadTexts' = [q \in Queries |-> IF q \in orphans THEN hadTexts[q] \cup {Orphan}
                                             ELSE hadTexts[q]]
    /\ rows' = rows \ deletion.results /\ old' = old \ deletion.results
    /\ source' = "deleted" /\ deletion' = NoDeletion
    /\ UNCHANGED <<xpc, xtext, touched, fork, doomed, page, edits, workbench>>

\* The deletion is rolled back: it was refused, has lost a deadlock, or its
\* server process has died.
DeleteAborts ==
    /\ deletion # NoDeletion /\ deletion' = NoDeletion
    /\ UNCHANGED <<resultVars, source, workbench>>

DataSourcesNext ==
    \/ ResultStep /\ UNCHANGED sourceVars
    \/ StoreWorkbenchResult
    \/ DeleteClearsQueries \/ DeleteEmptiesResults \/ DeleteCommits
    \/ DeleteAborts

DataSourcesSpec == DataSourcesInit /\ [][DataSourcesNext]_dsVars

\* cleanup_query_results is scheduled every five minutes, and its DELETE is served
\* in turn when the deletions that it waits for release their locks.  A deletion
\* ends, one way or the other, with the request that made it.
FairDataSourcesSpec ==
    /\ DataSourcesSpec
    /\ WF_dsVars(CleanupSelect /\ UNCHANGED sourceVars)
    /\ SF_dsVars(CleanupDelete /\ (\A x \in doomed : ResultFree(x)) /\ UNCHANGED sourceVars)
    /\ WF_dsVars(DeleteCommits \/ DeleteAborts)

------------------------------------------------------------------------------
(***************************************************************************)
(* Properties.                                                             *)
(***************************************************************************)
\* "test_deletes_child_models": once a data source is deleted there is no result
\* of it, no query on it, and no query that shows a result of it, although
\* executions, forks and moves go on between the statements of the deletion.
DeletedLeavesNothing ==
    source = "deleted" =>
        /\ ResultsOfSource = {} /\ QueriesOfSource = {}
        /\ \A q \in Queries : latest[q] \in Executions => xtext[latest[q]] \notin Ours

==============================================================================
