-------------------------- MODULE DataSourcesProofs --------------------------
(***************************************************************************)
(* For any number of queries, texts, executions and edits: a data source   *)
(* that was deleted leaves no result and no query behind, and the queries  *)
(* that stay point at results that exist.                                  *)
(***************************************************************************)
EXTENDS DataSources, QueryResultsProofs

USE NoTextAssumption, NoResultAssumption, StoredAssumption, LimitsAssumption,
    SourcesAssumption

\* Results are those of executions that have committed, whose hash stays.
RowsInv == \A x \in rows : xpc[x] = "committed"

\* What the deletion has done and not committed.  The results that it has deleted
\* are still there for the others, who wait for it before they point at one; a
\* pointer at one is left only in the queries whose pointer it has cleared.
DeletionInv ==
    /\ deletion.results \subseteq ResultsOfSource
    /\ deletion.pc # "emptied" => deletion.results = {}
    /\ \A q \in Queries \ deletion.queries : latest[q] \notin deletion.results

\* Once the data source is deleted, nobody is about to bring a result or a query
\* of it back.
DeletedInv ==
    source = "deleted" =>
        /\ ResultsOfSource = {} /\ QueriesOfSource = {}
        /\ \A x \in Executions : xpc[x] = "selected" => xtext[x] \notin Ours

DInv == SourcesTypeOK /\ RowsInv /\ LatestExists /\ DeletionInv /\ DeletedInv

LEMMA DeletionInit == DataSourcesInit => DInv
<1> SUFFICES ASSUME DataSourcesInit PROVE DInv
  OBVIOUS
<1>1. IInv
  BY InitInv DEF DataSourcesInit
<1>2. SourcesTypeOK
  BY <1>1 DEF IInv, SourcesTypeOK, DataSourcesInit, NoDeletion
<1>3. RowsInv /\ LatestExists
  BY <1>1 DEF IInv, RowsInv, DataSourcesInit, ResultsInit
<1>4. DeletionInv /\ DeletedInv
  BY DEF DeletionInv, DeletedInv, DataSourcesInit, ResultsInit, NoDeletion
<1> QED BY <1>2, <1>3, <1>4 DEF DInv

------------------------------------------------------------------------------
\* A step of the tables is one of QueryResults, a query that moves to another
\* data source, or a fork whose data source is gone.
ForkRefused(p) ==
    /\ fork[p] # NoFork /\ fork' = [fork EXCEPT ![p] = NoFork]
    /\ UNCHANGED <<text, latest, rows, old, xpc, xtext, touched, doomed, page, hadTexts, edits>>

LEMMA ResultStepTypes == TypeOK /\ ResultStep => TypeOK'
<1> SUFFICES ASSUME TypeOK, ResultStep PROVE TypeOK'
  OBVIOUS
<1>1. \/ ResultsNext
      \/ \E q \in Queries, t \in Texts : MoveQuery(q, t)
      \/ \E p \in Queries : ForkRefused(p)
  BY DEF ResultStep, ExecutionStep, PageStep, ForkStep, ResultsNext, UserStep, OtherUserStep,
         CleanupStep, ForkRefused
<1>2. ASSUME NEW q \in Queries, NEW t \in Texts, MoveQuery(q, t) PROVE TypeOK'
  BY <1>2 DEF MoveQuery, TypeOK, MaybeResult
<1>3. ASSUME NEW p \in Queries, ForkRefused(p) PROVE TypeOK'
  BY <1>3 DEF ForkRefused, TypeOK, NoFork, MaybeResult
<1> QED BY <1>1, <1>2, <1>3, TypePreserved

\* What a step of the tables does to pointers, results and hashes.
Effects ==
    /\ \A x \in Executions : xpc[x] = "committed" =>
         xpc'[x] = "committed" /\ xtext'[x] = xtext[x]
    /\ \A x \in rows' \ rows :
         xpc[x] = "selected" /\ xpc'[x] = "committed" /\ xtext'[x] = xtext[x]
    /\ deletion.results \subseteq rows'
    /\ \A q \in Queries : \/ latest'[q] = latest[q] /\ latest[q] \in rows' \cup {NoResult}
                          \/ latest'[q] \in (rows' \ deletion.results) \cup {NoResult}
    /\ \A q \in Queries : text'[q] = text[q] \/ HasSource(text'[q])
    /\ \A x \in Executions : xpc'[x] = "selected" =>
         /\ xtext'[x] = xtext[x]
         /\ xpc[x] = "selected" \/ HasSource(xtext[x])

LEMMA StepEffects == DInv /\ ResultStep => Effects
<1> SUFFICES ASSUME DInv, ResultStep PROVE Effects
  OBVIOUS
<1> USE DEF DInv, SourcesTypeOK, TypeOK, RowsInv, LatestExists, Effects
<1>0. deletion.results \subseteq rows
  BY DEF DeletionInv, ResultsOfSource
<1>1. ASSUME UNCHANGED <<text, latest, rows, xpc, xtext>> PROVE Effects
  BY <1>0, <1>1
<1>2. ASSUME NEW x \in Executions, RunQuery(x) PROVE Effects
  BY <1>0, <1>2 DEF RunQuery
<1>3. ASSUME NEW x \in Executions, SelectQueries(x), HasSource(xtext[x]) PROVE Effects
  BY <1>0, <1>3 DEF SelectQueries
<1>4. ASSUME NEW x \in Executions, CommitResult(x) PROVE Effects
  <2>1. x \notin deletion.results
    BY <1>0, <1>4 DEF CommitResult
  <2> QED BY <1>0, <1>4, <2>1 DEF CommitResult
<1>5. ASSUME NEW x \in Executions, AbortExecution(x) PROVE Effects
  BY <1>0, <1>5 DEF AbortExecution
<1>6. ASSUME NEW q \in Queries, SavePage(q), HasSource(page[q].of), ResultFree(page[q].latest)
      PROVE  Effects
  BY <1>0, <1>6 DEF SavePage, ResultFree
<1>7. ASSUME NEW q \in Queries, NEW t \in Texts, MoveQuery(q, t) PROVE Effects
  BY <1>0, <1>7 DEF MoveQuery
<1>8. ASSUME NEW p \in Queries, ForkCommit(p), HasSource(fork[p].of), ResultFree(fork[p].latest)
      PROVE  Effects
  BY <1>0, <1>8 DEF ForkCommit, ForkInsert, ResultFree
<1>9. ASSUME CleanupDelete, \A x \in doomed : ResultFree(x) PROVE Effects
  BY <1>0, <1>9 DEF CleanupDelete, InUse, ResultFree
<1>10. ASSUME NEW q \in Queries, OpenPage(q) \/ (\E t \in Texts : TypeText(q, t))
              \/ (\E x \in Executions : ShowResult(q, x)) \/ (\E p \in Queries : ForkRead(q, p))
              \/ ForkRefused(q)
       PROVE  Effects
  BY <1>1, <1>10 DEF OpenPage, TypeText, ShowResult, ForkRead, ForkRefused
<1>11. ASSUME (\E x \in Executions : ResultAges(x)) \/ CleanupSelect PROVE Effects
  BY <1>1, <1>11 DEF ResultAges, CleanupSelect
<1> QED
  BY <1>2, <1>3, <1>4, <1>5, <1>6, <1>7, <1>8, <1>9, <1>10, <1>11
  DEF ResultStep, ExecutionStep, PageStep, ForkStep, ForkRefused

LEMMA ResultStepKeeps == DInv /\ ResultStep /\ UNCHANGED sourceVars => DInv'
<1> SUFFICES ASSUME DInv, ResultStep, UNCHANGED sourceVars PROVE DInv'
  OBVIOUS
<1>1. Effects /\ TypeOK'
  BY StepEffects, ResultStepTypes DEF DInv, SourcesTypeOK
<1> USE <1>1 DEF DInv, SourcesTypeOK, sourceVars, Effects
<1>2. SourcesTypeOK'
  OBVIOUS
<1>3. RowsInv' /\ LatestExists'
  BY DEF RowsInv, LatestExists, TypeOK
<1>4. ResultsOfSource \cap rows' \subseteq ResultsOfSource'
  BY DEF ResultsOfSource, RowsInv, TypeOK
<1>5. DeletionInv'
  BY <1>4 DEF DeletionInv
<1>6. DeletedInv'
  <2> SUFFICES ASSUME source = "deleted" PROVE /\ ResultsOfSource' = {} /\ QueriesOfSource' = {}
                 /\ \A x \in Executions : xpc'[x] = "selected" => xtext'[x] \notin Ours
    BY DEF DeletedInv
  <2>1. ResultsOfSource' = {}
    BY DEF DeletedInv, ResultsOfSource, RowsInv, TypeOK
  <2>2. QueriesOfSource' = {}
    BY DEF DeletedInv, QueriesOfSource, HasSource
  <2>3. \A x \in Executions : xpc'[x] = "selected" => xtext'[x] \notin Ours
    BY DEF DeletedInv, HasSource
  <2> QED BY <2>1, <2>2, <2>3
<1> QED BY <1>2, <1>3, <1>5, <1>6

LEMMA DeletionInductive == DInv /\ [DataSourcesNext]_dsVars => DInv'
<1> SUFFICES ASSUME DInv, [DataSourcesNext]_dsVars PROVE DInv'
  OBVIOUS
<1> USE DEF DInv, SourcesTypeOK
<1>1. ASSUME UNCHANGED <<resultVars, source>>, deletion' = NoDeletion, workbench' \in BOOLEAN
      PROVE  DInv'
  BY <1>1 DEF resultVars, TypeOK, RowsInv, LatestExists, DeletionInv, DeletedInv, NoDeletion,
              ResultsOfSource, QueriesOfSource
<1>2. CASE UNCHANGED dsVars
  BY <1>2 DEF dsVars, sourceVars, resultVars, TypeOK, RowsInv, LatestExists, DeletionInv,
              DeletedInv, ResultsOfSource, QueriesOfSource
<1>3. CASE StoreWorkbenchResult
  BY <1>3 DEF StoreWorkbenchResult, resultVars, TypeOK, RowsInv, LatestExists, DeletionInv,
              DeletedInv, ResultsOfSource, QueriesOfSource
<1>4. CASE DeleteClearsQueries
  BY <1>4 DEF DeleteClearsQueries, NoDeletion, resultVars, TypeOK, RowsInv, LatestExists,
              DeletionInv, DeletedInv, ResultsOfSource, QueriesOfSource
<1>5. CASE DeleteEmptiesResults
  <2>1. ResultsOfSource' = ResultsOfSource /\ QueriesOfSource' = QueriesOfSource
        /\ ResultsOfSource \in SUBSET Executions
    BY <1>5 DEF DeleteEmptiesResults, resultVars, ResultsOfSource, QueriesOfSource, TypeOK
  <2>2. UNCHANGED <<resultVars, source, workbench>>
        /\ deletion' = [deletion EXCEPT !.pc = "emptied", !.results = ResultsOfSource]
    BY <1>5 DEF DeleteEmptiesResults
  <2>3. SourcesTypeOK' /\ RowsInv' /\ LatestExists' /\ DeletedInv'
    BY <2>1, <2>2 DEF resultVars, TypeOK, RowsInv, LatestExists, DeletedInv
  <2>4. DeletionInv'
    BY <1>5, <2>1, <2>2 DEF DeleteEmptiesResults, Pinned, DeletionInv, resultVars
  <2> QED BY <2>3, <2>4
<1>6. CASE DeleteCommits
  <2> DEFINE orphans == deletion.queries \cup QueriesOfSource
  <2>1. /\ text' = [q \in Queries |-> IF q \in orphans THEN Orphan ELSE text[q]]
        /\ latest' = [q \in Queries |-> IF q \in deletion.queries THEN NoResult ELSE latest[q]]
        /\ rows' = rows \ deletion.results /\ old' = old \ deletion.results
        /\ source' = "deleted" /\ deletion' = NoDeletion
        /\ ResultsOfSource \subseteq deletion.results
        /\ \A x \in Executions : xtext[x] \in Ours => xpc[x] # "selected"
        /\ UNCHANGED <<xpc, xtext, touched, fork, doomed, page, edits, workbench>>
    BY <1>6 DEF DeleteCommits, Leftovers
  <2>2. TypeOK'
    <3>1. hadTexts' \in [Queries -> SUBSET Texts]
      BY <1>6 DEF DeleteCommits, TypeOK
    <3> QED BY <2>1, <3>1 DEF TypeOK, MaybeResult
  <2>3. SourcesTypeOK' /\ RowsInv'
    BY <2>1, <2>2 DEF NoDeletion, RowsInv
  <2>4. LatestExists'
    BY <2>1 DEF LatestExists, DeletionInv
  <2>5. DeletionInv'
    BY <2>1 DEF DeletionInv, NoDeletion
  <2>6. DeletedInv'
    <3>1. ResultsOfSource' = {}
      BY <2>1 DEF ResultsOfSource
    <3>2. QueriesOfSource' = {}
      BY <2>1 DEF QueriesOfSource
    <3> QED BY <2>1, <3>1, <3>2 DEF DeletedInv
  <2> QED BY <2>3, <2>4, <2>5, <2>6
<1>7. CASE DeleteAborts
  BY <1>1, <1>7 DEF DeleteAborts
<1>8. CASE ResultStep /\ UNCHANGED sourceVars
  BY <1>8, ResultStepKeeps
<1> QED BY <1>2, <1>3, <1>4, <1>5, <1>6, <1>7, <1>8 DEF DataSourcesNext

\* The invariant of the deletion and the steps beside it.
THEOREM DeletionInvariant == DataSourcesSpec => []DInv
  BY DeletionInit, DeletionInductive, PTL DEF DataSourcesSpec

\* Once a data source is deleted no result of it, no query on it and no query that
\* shows a result of it is left, whatever executions, saves, forks and moves do
\* between the statements of DataSource.delete.
THEOREM DeletedLeavesNothingAlways == DataSourcesSpec => []DeletedLeavesNothing
<1>1. DInv => DeletedLeavesNothing
  BY DEF DInv, DeletedInv, DeletedLeavesNothing, LatestExists, ResultsOfSource
<1> QED BY <1>1, DeletionInvariant, PTL

\* A query's latest result exists, also beside deletions of data sources.
THEOREM LatestExistsBesideDeletions == DataSourcesSpec => []LatestExists
<1>1. DInv => LatestExists
  BY DEF DInv
<1> QED BY <1>1, DeletionInvariant, PTL
==============================================================================
