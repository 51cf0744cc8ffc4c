-------------------------- MODULE QueryResultsProofs --------------------------
(***************************************************************************)
(* For any number of queries, texts, executions and edits: the pointers of *)
(* queries to their latest results stay sound while executions, edits,     *)
(* forks and the clean-up run at the same time.                            *)
(***************************************************************************)
EXTENDS QueryResults, TLAPS

\* What the two properties rest on.  A result some query or page points at, or a
\* fork has read, is committed, so that its text does not change any more; the
\* queries an execution has selected had its text when it selected them.
PointersInv ==
    /\ \A q \in Queries : latest[q] \in Executions =>
           /\ xpc[latest[q]] = "committed"
           /\ xtext[latest[q]] \in hadTexts[q]
    /\ \A p \in Queries : fork[p].latest \in Executions =>
           /\ xpc[fork[p].latest] = "committed"
           /\ xtext[fork[p].latest] \in fork[p].had
    /\ \A q \in Queries : page[q].latest \in Executions =>
           /\ xpc[page[q].latest] = "committed"
           /\ xtext[page[q].latest] \in hadTexts[q]
    /\ \A x \in rows : xpc[x] = "committed"
    /\ \A x \in Executions : \A q \in touched[x] : xtext[x] \in hadTexts[q]

\* A query is created once: what an execution has selected exists, what a fork
\* is about to create does not.
CreatedInv ==
    /\ \A q \in Queries : text[q] \in Texts => text[q] \in hadTexts[q]
    /\ \A x \in Executions : IF xpc[x] = "idle" THEN touched[x] = {}
                                               ELSE xtext[x] \in Texts
    /\ \A x \in Executions : \A q \in touched[x] : text[q] # NoText
    /\ \A q \in Queries : IF page[q].of = NoText THEN page[q].latest = NoResult
                         ELSE text[q] # NoText /\ page[q].of \in hadTexts[q]
    /\ \A p \in Queries : fork[p] # NoFork => text[p] = NoText /\ fork[p].of \in fork[p].had
                                                /\ fork[p].of \in Texts

IInv == TypeOK /\ LatestExists /\ PointersInv /\ CreatedInv

USE SavedAssumption, NoTextAssumption, NoResultAssumption, StoredAssumption, LimitsAssumption

LEMMA InitInv == ResultsInit => IInv
<1> SUFFICES ASSUME ResultsInit PROVE IInv
  OBVIOUS
<1> USE DEF ResultsInit
<1>1. TypeOK
  BY DEF TypeOK, ExecutionPCs, MaybeResult, NoFork, NoPage
<1>2. LatestExists /\ PointersInv /\ CreatedInv
  BY DEF LatestExists, PointersInv, CreatedInv, NoFork, NoPage
<1> QED BY <1>1, <1>2 DEF IInv

\* Every step keeps the types.
LEMMA TypePreserved == TypeOK /\ [ResultsNext]_resultVars => TypeOK'
<1> SUFFICES ASSUME TypeOK, [ResultsNext]_resultVars PROVE TypeOK'
  OBVIOUS
<1> USE DEF TypeOK, ExecutionPCs, MaybeResult, NoFork
<1>1. CASE UNCHANGED resultVars
  BY <1>1 DEF resultVars
<1>2. ASSUME NEW x \in Executions, RunQuery(x) PROVE TypeOK'
  BY <1>2 DEF RunQuery
<1>3. ASSUME NEW x \in Executions, SelectQueries(x) PROVE TypeOK'
  BY <1>3 DEF SelectQueries, QueriesOf
<1>4. ASSUME NEW x \in Executions, CommitResult(x) PROVE TypeOK'
  <2>1. latest' \in [Queries -> MaybeResult]
    BY <1>4 DEF CommitResult
  <2> QED BY <1>4, <2>1 DEF CommitResult
<1>5. ASSUME NEW x \in Executions, AbortExecution(x) PROVE TypeOK'
  BY <1>5 DEF AbortExecution
<1>6. ASSUME NEW q \in Queries, NEW t \in Texts, TypeText(q, t) PROVE TypeOK'
  BY <1>6 DEF TypeText
<1>6a. ASSUME NEW q \in Queries, OpenPage(q) PROVE TypeOK'
  BY <1>6a DEF OpenPage
<1>6b. ASSUME NEW q \in Queries, NEW x \in Executions, ShowResult(q, x) PROVE TypeOK'
  BY <1>6b DEF ShowResult
<1>6c. ASSUME NEW q \in Queries, SavePage(q) PROVE TypeOK'
  BY <1>6c DEF SavePage
<1>7. ASSUME NEW p \in Queries, NEW q \in Queries, ForkRead(p, q) PROVE TypeOK'
  BY <1>7 DEF ForkRead
<1>8. ASSUME NEW p \in Queries, ForkCommit(p) PROVE TypeOK'
  <2>1. text' \in [Queries -> Texts \cup {NoText}] /\ latest' \in [Queries -> MaybeResult]
        /\ hadTexts' \in [Queries -> SUBSET Texts]
    <3>1. CASE ForkInsert(p)
      BY <3>1 DEF ForkInsert
    <3>2. CASE UNCHANGED <<text, latest, hadTexts>>
      BY <3>2
    <3> QED BY <1>8, <3>1, <3>2 DEF ForkCommit
  <2>2. fork' = [fork EXCEPT ![p] = NoFork] /\ UNCHANGED <<rows, old, xpc, xtext, touched,
                                                        doomed, page, edits>>
    BY <1>8 DEF ForkCommit
  <2> QED BY <2>1, <2>2
<1>9. ASSUME NEW x \in Executions, ResultAges(x) PROVE TypeOK'
  BY <1>9 DEF ResultAges
<1>10. CASE CleanupSelect
  BY <1>10 DEF CleanupSelect, Unused
<1>11. CASE CleanupDelete
  BY <1>11 DEF CleanupDelete
<1> QED
  BY <1>1, <1>2, <1>3, <1>4, <1>5, <1>6, <1>6a, <1>6b, <1>6c, <1>7, <1>8, <1>9, <1>10, <1>11
  DEF ResultsNext, UserStep, OtherUserStep, CleanupStep

LEMMA CreatedPreserved == IInv /\ [ResultsNext]_resultVars => CreatedInv'
<1> SUFFICES ASSUME IInv, [ResultsNext]_resultVars PROVE CreatedInv'
  OBVIOUS
<1> USE DEF IInv, TypeOK, CreatedInv
<1>1. CASE UNCHANGED resultVars
  BY <1>1 DEF resultVars
<1>2. ASSUME NEW x \in Executions, RunQuery(x) PROVE CreatedInv'
  BY <1>2 DEF RunQuery
<1>3. ASSUME NEW x \in Executions, SelectQueries(x) PROVE CreatedInv'
  BY <1>3 DEF SelectQueries, QueriesOf
<1>4. ASSUME NEW x \in Executions, CommitResult(x) PROVE CreatedInv'
  BY <1>4 DEF CommitResult
<1>5. ASSUME NEW x \in Executions, AbortExecution(x) PROVE CreatedInv'
  BY <1>5 DEF AbortExecution
<1>6. ASSUME NEW q \in Queries, NEW t \in Texts, TypeText(q, t) PROVE CreatedInv'
  BY <1>6 DEF TypeText
<1>6a. ASSUME NEW q \in Queries, OpenPage(q) PROVE CreatedInv'
  BY <1>6a DEF OpenPage
<1>6b. ASSUME NEW q \in Queries, NEW x \in Executions, ShowResult(q, x) PROVE CreatedInv'
  BY <1>6b DEF ShowResult
<1>6c. ASSUME NEW q \in Queries, SavePage(q) PROVE CreatedInv'
  BY <1>6c DEF SavePage
<1>7. ASSUME NEW p \in Queries, NEW q \in Queries, ForkRead(p, q) PROVE CreatedInv'
  <2>1. text[p] = NoText /\ text[q] \in Texts /\ text[q] \in hadTexts[q]
    BY <1>7 DEF ForkRead
  <2>2. \A r \in Queries : fork'[r] # fork[r] =>
          r = p /\ fork'[r].of = text[q] /\ fork'[r].had = hadTexts[q]
    BY <1>7 DEF ForkRead
  <2>3. UNCHANGED <<text, hadTexts, xpc, xtext, touched, page>>
    BY <1>7 DEF ForkRead
  <2> QED BY <2>1, <2>2, <2>3
<1>8. ASSUME NEW p \in Queries, ForkCommit(p) PROVE CreatedInv'
  <2>1. UNCHANGED <<xpc, xtext, touched, page>> /\ fork' = [fork EXCEPT ![p] = NoFork]
    BY <1>8 DEF ForkCommit
  <2>2. \A r \in Queries : fork'[r] # NoFork => fork'[r] = fork[r] /\ r # p
    BY <2>1
  <2>3. CASE ForkInsert(p)
    <3>1. /\ text' = [text EXCEPT ![p] = fork[p].of]
          /\ hadTexts' = [hadTexts EXCEPT ![p] = fork[p].had]
          /\ latest' = [latest EXCEPT ![p] = fork[p].latest]
      BY <2>3 DEF ForkInsert
    <3>2. /\ text[p] = NoText /\ fork[p].of \in Texts /\ fork[p].of \in fork[p].had
          /\ fork[p].had \in SUBSET Texts
      BY <1>8 DEF ForkCommit
    <3>3. page[p].of = NoText /\ \A x \in Executions : p \notin touched[x]
      BY <3>2
    <3> QED BY <2>1, <2>2, <3>1, <3>2, <3>3
  <2>4. CASE UNCHANGED <<text, latest, hadTexts>>
    BY <2>1, <2>2, <2>4
  <2> QED BY <1>8, <2>3, <2>4 DEF ForkCommit
<1>9. ASSUME NEW x \in Executions, ResultAges(x) PROVE CreatedInv'
  BY <1>9 DEF ResultAges
<1>10. CASE CleanupSelect
  BY <1>10 DEF CleanupSelect
<1>11. CASE CleanupDelete
  BY <1>11 DEF CleanupDelete
<1> QED
  BY <1>1, <1>2, <1>3, <1>4, <1>5, <1>6, <1>6a, <1>6b, <1>6c, <1>7, <1>8, <1>9, <1>10, <1>11
  DEF ResultsNext, UserStep, OtherUserStep, CleanupStep

LEMMA PointersPreserved == IInv /\ [ResultsNext]_resultVars => PointersInv'
<1> SUFFICES ASSUME IInv, [ResultsNext]_resultVars PROVE PointersInv'
  OBVIOUS
<1> USE DEF IInv, TypeOK, PointersInv, MaybeResult
<1>1. CASE UNCHANGED resultVars
  BY <1>1 DEF resultVars
<1>2. ASSUME NEW x \in Executions, RunQuery(x) PROVE PointersInv'
  BY <1>2 DEF RunQuery, CreatedInv
<1>3. ASSUME NEW x \in Executions, SelectQueries(x) PROVE PointersInv'
  BY <1>3 DEF SelectQueries, QueriesOf, CreatedInv
<1>4. ASSUME NEW x \in Executions, CommitResult(x) PROVE PointersInv'
  BY <1>4 DEF CommitResult
<1>5. ASSUME NEW x \in Executions, AbortExecution(x) PROVE PointersInv'
  BY <1>5 DEF AbortExecution
<1>6. ASSUME NEW q \in Queries, NEW t \in Texts, TypeText(q, t) PROVE PointersInv'
  BY <1>6 DEF TypeText
<1>6a. ASSUME NEW q \in Queries, OpenPage(q) PROVE PointersInv'
  BY <1>6a DEF OpenPage
<1>6b. ASSUME NEW q \in Queries, NEW x \in Executions, ShowResult(q, x) PROVE PointersInv'
  BY <1>6b DEF ShowResult, CreatedInv
<1>6c. ASSUME NEW q \in Queries, SavePage(q) PROVE PointersInv'
  BY <1>6c DEF SavePage
<1>7. ASSUME NEW p \in Queries, NEW q \in Queries, ForkRead(p, q) PROVE PointersInv'
  BY <1>7 DEF ForkRead
<1>8. ASSUME NEW p \in Queries, ForkCommit(p) PROVE PointersInv'
  <2> USE <1>8 DEF ForkCommit
  <2>1. UNCHANGED <<xpc, xtext, touched>> /\ fork[p].had \in SUBSET Texts
    OBVIOUS
  <2>2. \A r \in Queries : fork'[r].latest \in Executions => fork'[r] = fork[r]
    BY DEF NoFork
  <2>3. CASE ForkInsert(p)
    <3>1. latest' = [latest EXCEPT ![p] = fork[p].latest]
          /\ hadTexts' = [hadTexts EXCEPT ![p] = fork[p].had]
      BY <2>3 DEF ForkInsert
    <3>2. \A x \in Executions : p \notin touched[x]
      BY DEF CreatedInv
    <3>3. page[p].latest = NoResult /\ page' = page /\ rows' = rows
      BY DEF CreatedInv
    <3> QED BY <2>1, <2>2, <3>1, <3>2, <3>3
  <2>4. CASE UNCHANGED <<text, latest, hadTexts>>
    BY <2>1, <2>2, <2>4
  <2> QED BY <2>3, <2>4
<1>9. ASSUME NEW x \in Executions, ResultAges(x) PROVE PointersInv'
  BY <1>9 DEF ResultAges
<1>10. CASE CleanupSelect
  BY <1>10 DEF CleanupSelect
<1>11. CASE CleanupDelete
  BY <1>11 DEF CleanupDelete
<1> QED
  BY <1>1, <1>2, <1>3, <1>4, <1>5, <1>6, <1>6a, <1>6b, <1>6c, <1>7, <1>8, <1>9, <1>10, <1>11
  DEF ResultsNext, UserStep, OtherUserStep, CleanupStep

\* Only CommitResult, SavePage and ForkCommit move a pointer, only CleanupDelete deletes.
LEMMA ExistsPreserved == IInv /\ [ResultsNext]_resultVars => LatestExists'
<1> SUFFICES ASSUME IInv, [ResultsNext]_resultVars PROVE LatestExists'
  OBVIOUS
<1> USE DEF IInv, TypeOK, LatestExists
<1>1. CASE UNCHANGED <<latest, rows>>
  BY <1>1
<1>2. ASSUME NEW x \in Executions, CommitResult(x) PROVE LatestExists'
  BY <1>2 DEF CommitResult
<1>3. ASSUME NEW p \in Queries, ForkCommit(p) PROVE LatestExists'
  BY <1>3 DEF ForkCommit, ForkInsert
<1>4. CASE CleanupDelete
  BY <1>4 DEF CleanupDelete, InUse
<1>5. ASSUME NEW q \in Queries, SavePage(q) PROVE LatestExists'
  BY <1>5 DEF SavePage
<1> QED
  BY <1>1, <1>2, <1>3, <1>4, <1>5
  DEF ResultsNext, UserStep, OtherUserStep, CleanupStep, resultVars, RunQuery, SelectQueries,
      AbortExecution, TypeText, OpenPage, ShowResult, ForkRead, ResultAges, CleanupSelect

LEMMA Inductive == IInv /\ [ResultsNext]_resultVars => IInv'
  BY TypePreserved, CreatedPreserved, PointersPreserved, ExistsPreserved DEF IInv

THEOREM Invariant == ResultsSpec => []IInv
  BY InitInv, Inductive, PTL DEF ResultsSpec

\* The tables keep their types.
THEOREM TypeCorrect == ResultsSpec => []TypeOK
<1>1. IInv => TypeOK
  BY DEF IInv
<1> QED BY <1>1, Invariant, PTL

\* A query's latest result exists: cleanup_query_results deletes no result
\* that a query or a fork in flight still shows.
THEOREM LatestExistsAlways == ResultsSpec => []LatestExists
<1>1. IInv => LatestExists
  BY DEF IInv
<1> QED BY <1>1, Invariant, PTL

\* A query's latest result is one of a text it, its page, or the query it was
\* forked from, has had.
THEOREM LatestWasItsOwnAlways == ResultsSpec => []LatestWasItsOwn
<1>1. IInv => LatestWasItsOwn
  BY DEF IInv, PointersInv, LatestWasItsOwn
<1> QED BY <1>1, Invariant, PTL

==============================================================================
