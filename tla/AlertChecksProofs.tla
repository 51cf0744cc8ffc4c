--------------------------- MODULE AlertChecksProofs ---------------------------
(***************************************************************************)
(* For any number of queries, texts, executions, edits and workers that    *)
(* check alerts side by side: the tables that alerts are composed with are *)
(* those of QueryResults, so that what is proved there holds here; what a  *)
(* check evaluates, the state it leaves the alert in, and what subscribers *)
(* know of it are what alerts promise.                                     *)
(***************************************************************************)
EXTENDS AlertChecks, QueryResultsProofs, SequenceTheorems

USE NoQueryAssumption, AlertsAssumption

\* Each step of the composition is a step of the tables, or none.
LEMMA StepsOfResults == [Next]_vars => [ResultsNext]_resultVars
<1> SUFFICES ASSUME [Next]_vars PROVE [ResultsNext]_resultVars
  OBVIOUS
<1>1. CASE UNCHANGED vars
  BY <1>1 DEF vars
<1>2. ASSUME NEW x \in Executions, ExecutionStep(x) PROVE [ResultsNext]_resultVars
  BY <1>2 DEF ExecutionStep, Run, Commit, DelayCheck, Delay, HorseDies, ResultsNext
<1>3. ASSUME NEW c \in Checkers, CheckStep(c) PROVE [ResultsNext]_resultVars
  BY <1>3 DEF CheckStep, PopCheck, LoadQuery, LoadAlert, CommitState, Notify, CheckerDies
<1>4. ASSUME NEW q \in Queries, Save(q) PROVE [ResultsNext]_resultVars
  BY <1>4 DEF Save, ResultsNext, UserStep
<1>5. CASE OtherResultsStep
  BY <1>5 DEF OtherResultsStep, ResultsNext, UserStep
<1> QED BY <1>1, <1>2, <1>3, <1>4, <1>5 DEF Next

\* Alerts leave the tables what they are without them.
THEOREM AlertsKeepResults == Spec => ResultsSpec
<1>1. Init => ResultsInit
  BY DEF Init
<1> QED BY <1>1, StepsOfResults, PTL DEF Spec, ResultsSpec

\* The latest result of a query is one of a text it, its page, or the query it was
\* forked from, has had, whatever is checked meanwhile.
THEOREM LatestWasItsOwnWithAlerts == Spec => []LatestWasItsOwn
  BY AlertsKeepResults, LatestWasItsOwnAlways, PTL

------------------------------------------------------------------------------
Check == [query : Queries, by : Executions]

\* Only executions that have committed ask for checks, and a checker that is not
\* idle has one of them; what it reads is a result that is committed.
ChecksInv ==
    /\ \A x \in Executions : toCheck[x] # {} => xpc[x] = "committed"
    /\ \A i \in DOMAIN checks : xpc[checks[i].by] = "committed"
    /\ \A c \in Checkers : IF cpc[c] = "idle" THEN check[c] = NoCheck
                           ELSE check[c] \in Check /\ xpc[check[c].by] = "committed"
    /\ \A c \in Checkers : cpc[c] \in {"read", "committed"} => cresult[c] \in Executions
    /\ \A c \in Checkers : cpc[c] \notin {"idle", "popped"} /\ cresult[c] \in Executions
                              => xpc[cresult[c]] = "committed"

\* The pointers a query has had since an execution include its present one.
SinceInv ==
    /\ \A x \in Executions : xpc[x] = "committed" =>
           \A q \in touched[x] : latest[q] \in since[q][x]
    /\ CheckSeesItsResult

AlertInv == AlertsTypeOK /\ IInv /\ ChecksInv /\ SinceInv

LEMMA AlertInit == Init => AlertInv
<1> SUFFICES ASSUME Init PROVE AlertInv
  OBVIOUS
<1>1. IInv
  BY InitInv DEF Init
<1>2. AlertsTypeOK
  BY <1>1 DEF Init, IInv, AlertsTypeOK, States, NoCheck, MaybeResult
<1>3. ChecksInv /\ SinceInv
  BY DEF Init, ResultsInit, ChecksInv, SinceInv, CheckSeesItsResult, NoCheck
<1> QED BY <1>1, <1>2, <1>3 DEF AlertInv

LEMMA SinceGrows ==
    ASSUME AlertsTypeOK, NEW Q \in SUBSET Queries, NEW r \in MaybeResult, Repointed(Q, r)
    PROVE  /\ since' \in [Queries -> [Executions -> SUBSET MaybeResult]]
           /\ \A q \in Queries, x \in Executions :
                /\ since[q][x] \subseteq since'[q][x]
                /\ since'[q][x] \subseteq since[q][x] \cup {r}
                /\ q \in Q /\ (x = r \/ since[q][x] # {}) => r \in since'[q][x]
                /\ q \notin Q => since'[q][x] = since[q][x]
  BY DEF AlertsTypeOK, Repointed

LEMMA TypesPreserved == AlertInv /\ [Next]_vars => AlertsTypeOK'
<1> SUFFICES ASSUME AlertInv, [Next]_vars PROVE AlertsTypeOK'
  OBVIOUS
<1>0. TypeOK'
  BY StepsOfResults, TypePreserved DEF AlertInv, AlertsTypeOK
<1> USE <1>0 DEF AlertInv, AlertsTypeOK, States, NoCheck, MaybeResult
<1>1. CASE UNCHANGED vars
  BY <1>1 DEF vars, alertVars, checkerVars
<1>2. ASSUME NEW x \in Executions, Run(x) PROVE AlertsTypeOK'
  BY <1>2 DEF Run, checkerVars
<1>3. ASSUME NEW x \in Executions, Commit(x) PROVE AlertsTypeOK'
  <2>1. touched[x] \in SUBSET Queries /\ QueriesOf(xtext[x]) \in SUBSET Queries
    BY DEF TypeOK, QueriesOf
  <2>2. since' \in [Queries -> [Executions -> SUBSET MaybeResult]]
    BY <1>3, <2>1, SinceGrows DEF Commit
  <2> QED BY <1>3, <2>1, <2>2 DEF Commit, checkerVars
<1>4. ASSUME NEW x \in Executions, DelayCheck(x) PROVE AlertsTypeOK'
  <2>1. PICK q \in toCheck[x] : toCheck' = [toCheck EXCEPT ![x] = @ \ {q}] /\ Delay(x, q)
    BY <1>4 DEF DelayCheck
  <2>2. [query |-> q, by |-> x] \in Check /\ checks \in Seq(Check)
    BY DEF Check
  <2>3. checks' \in Seq(Check)
    BY <2>1, <2>2 DEF Delay
  <2> QED BY <2>1, <2>3 DEF Delay, checkerVars, Check
<1>5. ASSUME NEW x \in Executions, HorseDies(x) PROVE AlertsTypeOK'
  BY <1>5 DEF HorseDies, checkerVars
<1>6. ASSUME NEW c \in Checkers, PopCheck(c) PROVE AlertsTypeOK'
  <2>1. Head(checks) \in Check /\ Tail(checks) \in Seq(Check)
    BY <1>6, HeadTailProperties, checks \in Seq(Check) DEF PopCheck, Check
  <2> QED BY <1>6, <2>1 DEF PopCheck, Check
<1>6a. ASSUME NEW c \in Checkers, LoadQuery(c) PROVE AlertsTypeOK'
  <2>1. latest[check[c].query] \in MaybeResult
    BY <1>6a DEF LoadQuery, ChecksInv, Check, TypeOK
  <2> QED BY <1>6a, <2>1 DEF LoadQuery
<1>7. ASSUME NEW c \in Checkers, LoadAlert(c) PROVE AlertsTypeOK'
  <2>1. state[check[c].query] \in States
    BY <1>7 DEF LoadAlert, ChecksInv, Check
  <2> QED BY <1>7, <2>1 DEF LoadAlert, CheckerRests
<1>8. ASSUME NEW c \in Checkers, CommitState(c) PROVE AlertsTypeOK'
  <2>1. check[c].query \in Queries /\ outcome[cresult[c]] \in States
    BY <1>8 DEF CommitState, ChecksInv, Check
  <2>2. state' \in [Queries -> States]
    BY <1>8, <2>1 DEF CommitState, StoreState
  <2>3. /\ cpc' \in [Checkers -> {"idle", "popped", "loaded", "read", "committed"}]
        /\ check' \in [Checkers -> [query : Queries, by : Executions] \cup {NoCheck}]
        /\ cresult' \in [Checkers -> MaybeResult] /\ cstate' \in [Checkers -> States]
    BY <1>8 DEF CommitState, CheckerRests
  <2>4. overtaken' \in SUBSET Checkers /\ doubtful' \in SUBSET Queries
    BY <1>8, <2>1 DEF CommitState, Overtaken
  <2>5. UNCHANGED <<outcome, toCheck, checks, heard, since, lost, missed, deaths>>
    BY <1>8 DEF CommitState
  <2> QED BY <2>2, <2>3, <2>4, <2>5
<1>8a. ASSUME NEW c \in Checkers, Notify(c) PROVE AlertsTypeOK'
  <2>1. check[c].query \in Queries /\ outcome[cresult[c]] \in States
    BY <1>8a DEF Notify, ChecksInv, Check
  <2>2. missed' \in SUBSET Queries /\ heard' \in [Queries -> States]
    BY <1>8a, <2>1 DEF Notify
  <2> QED BY <1>8a, <2>2 DEF Notify, CheckerRests
<1>8b. ASSUME NEW c \in Checkers, CheckerDies(c) PROVE AlertsTypeOK'
  <2>1. check[c].query \in Queries
    BY <1>8b DEF CheckerDies, ChecksInv, Check
  <2> QED BY <1>8b, <2>1 DEF CheckerDies, CheckerRests
<1>9. ASSUME NEW q \in Queries, Save(q) PROVE AlertsTypeOK'
  <2>1. latest'[q] \in MaybeResult
    BY DEF TypeOK
  <2>2. since' \in [Queries -> [Executions -> SUBSET MaybeResult]]
    BY <1>9, <2>1, SinceGrows DEF Save
  <2> QED BY <1>9, <2>2 DEF Save, checkerVars
<1>10. CASE OtherResultsStep
  BY <1>10 DEF OtherResultsStep, alertVars, checkerVars
<1> QED
  BY <1>1, <1>2, <1>3, <1>4, <1>5, <1>6, <1>6a, <1>7, <1>8, <1>8a, <1>8b, <1>9, <1>10
  DEF Next, ExecutionStep, CheckStep


\* What the steps of the tables leave alone.
LEMMA OtherStepsKeep ==
    ASSUME IInv, OtherResultsStep
    PROVE  /\ \A x \in Executions :
                /\ xpc'[x] = "committed" <=> xpc[x] = "committed"
                /\ xpc[x] = "committed" => touched'[x] = touched[x]
           /\ \A q \in Queries : latest'[q] = latest[q] \/ text[q] = NoText
           /\ \A q \in Queries : text'[q] = NoText => text[q] = NoText
<1> USE DEF IInv, TypeOK, ExecutionPCs
<1>1. ASSUME NEW x \in Executions, SelectQueries(x) \/ AbortExecution(x)
      PROVE  /\ UNCHANGED <<latest, text>>
             /\ \A y \in Executions :
                  /\ xpc'[y] = "committed" <=> xpc[y] = "committed"
                  /\ xpc[y] = "committed" => touched'[y] = touched[y]
  BY <1>1 DEF SelectQueries, AbortExecution
<1>2. ASSUME NEW p \in Queries, ForkCommit(p)
      PROVE  /\ UNCHANGED <<xpc, touched>>
             /\ \A q \in Queries : latest'[q] = latest[q] \/ text[q] = NoText
             /\ \A q \in Queries : text'[q] = NoText => text[q] = NoText
  BY <1>2 DEF ForkCommit, ForkInsert, CreatedInv
<1>3. ASSUME (\E q \in Queries : OpenPage(q)) \/ (\E q \in Queries, t \in Texts : TypeText(q, t))
             \/ (\E q \in Queries, x \in Executions : ShowResult(q, x))
             \/ (\E p, q \in Queries : ForkRead(p, q)) \/ CleanupStep
      PROVE  UNCHANGED <<xpc, touched, latest, text>>
  BY <1>3 DEF OpenPage, TypeText, ShowResult, ForkRead, CleanupStep, ResultAges, CleanupSelect,
              CleanupDelete
<1> QED BY <1>1, <1>2, <1>3 DEF OtherResultsStep, OtherUserStep

\* A save moves at most the pointer of its query, which exists.
LEMMA SaveMoves ==
    ASSUME IInv, AlertsTypeOK, NEW q \in Queries, Save(q)
    PROVE  /\ \A p \in Queries : p # q => latest'[p] = latest[p] /\ text'[p] = text[p]
           /\ text[q] # NoText /\ text'[q] # NoText
           /\ UNCHANGED <<xpc, touched, rows>>
           /\ \/ latest'[q] = latest[q] /\ UNCHANGED <<since, lost>>
              \/ Repointed({q}, latest'[q]) /\ lost' = lost \cup {q} /\ latest'[q] \in MaybeResult
  BY DEF IInv, TypeOK, CreatedInv, Save, SavePage

LEMMA ChecksTyped ==
    ASSUME AlertsTypeOK
    PROVE  /\ checks \in Seq(Check) /\ DOMAIN checks = 1..Len(checks)
           /\ \A i \in DOMAIN checks : checks[i] \in Check
<1>1. checks \in Seq(Check)
  BY DEF AlertsTypeOK, Check
<1> QED BY <1>1, LenProperties, ElementOfSeq

LEMMA ChecksPreserved == AlertInv /\ [Next]_vars => ChecksInv'
<1> SUFFICES ASSUME AlertInv, [Next]_vars PROVE ChecksInv'
  OBVIOUS
<1> USE DEF AlertInv, ChecksInv
<1>1. CASE UNCHANGED vars
  BY <1>1 DEF vars, resultVars, alertVars, checkerVars
<1>2. ASSUME NEW x \in Executions, Run(x) PROVE ChecksInv'
  <2>1. xpc[x] # "committed" /\ \A y \in Executions : y # x => xpc'[y] = xpc[y]
    BY <1>2 DEF Run, RunQuery, IInv, TypeOK
  <2>2. \A i \in DOMAIN checks : checks[i].by \in Executions
    BY ChecksTyped DEF Check
  <2> QED BY <1>2, <2>1, <2>2 DEF Run, checkerVars, Check
<1>3. ASSUME NEW x \in Executions, Commit(x) PROVE ChecksInv'
  <2>1. xpc' = [xpc EXCEPT ![x] = "committed"] /\ xpc \in [Executions -> ExecutionPCs]
    BY <1>3 DEF Commit, CommitResult, IInv, TypeOK
  <2>2. \A y \in Executions : y # x => toCheck'[y] = toCheck[y]
    BY <1>3 DEF Commit, AlertsTypeOK
  <2>3. \A i \in DOMAIN checks : checks[i].by \in Executions
    BY ChecksTyped DEF Check
  <2> QED BY <1>3, <2>1, <2>2, <2>3 DEF Commit, checkerVars, Check
<1>4. ASSUME NEW x \in Executions, DelayCheck(x) PROVE ChecksInv'
  <2>1. PICK q \in toCheck[x] : toCheck' = [toCheck EXCEPT ![x] = @ \ {q}] /\ Delay(x, q)
    BY <1>4 DEF DelayCheck
  <2>2. [query |-> q, by |-> x] \in Check /\ checks \in Seq(Check)
    BY <2>1 DEF Check, AlertsTypeOK
  <2>3. /\ checks' \in Seq(Check) /\ Len(checks') = Len(checks) + 1
        /\ \A i \in 1..Len(checks) : checks'[i] = checks[i]
        /\ checks'[Len(checks) + 1] = [query |-> q, by |-> x]
    BY <2>1, <2>2, AppendProperties DEF Delay
  <2>4. \A i \in DOMAIN checks' :
           \/ checks'[i] = [query |-> q, by |-> x]
           \/ i \in DOMAIN checks /\ checks'[i] = checks[i]
    BY <2>2, <2>3, LenProperties
  <2> QED BY <2>1, <2>4 DEF Delay, resultVars, checkerVars, AlertsTypeOK
<1>5. ASSUME NEW x \in Executions, HorseDies(x) PROVE ChecksInv'
  BY <1>5 DEF HorseDies, resultVars, checkerVars, AlertsTypeOK
<1>6. ASSUME NEW c \in Checkers, PopCheck(c) PROVE ChecksInv'
  <2>1. checks \in Seq(Check) /\ checks # <<>>
    BY <1>6 DEF PopCheck, AlertsTypeOK, Check
  <2>2. Head(checks) = checks[1] /\ 1 \in DOMAIN checks /\ Head(checks) \in Check
    BY <2>1, HeadTailProperties
  <2>3. \A i \in DOMAIN Tail(checks) : i + 1 \in DOMAIN checks /\ Tail(checks)[i] = checks[i + 1]
    BY <2>1, HeadTailProperties
  <2> QED BY <1>6, <2>2, <2>3 DEF PopCheck, resultVars, AlertsTypeOK
<1>6a. ASSUME NEW c \in Checkers, LoadQuery(c) PROVE ChecksInv'
  <2>1. check[c].query \in Queries
    BY <1>6a DEF LoadQuery, Check
  <2>2. latest[check[c].query] \in Executions => xpc[latest[check[c].query]] = "committed"
    BY <2>1 DEF IInv, PointersInv
  <2> QED BY <1>6a, <2>2 DEF LoadQuery, resultVars, AlertsTypeOK
<1>7. ASSUME NEW c \in Checkers, LoadAlert(c) PROVE ChecksInv'
  <2>1. UNCHANGED <<xpc, toCheck, checks>> /\ cpc[c] = "loaded" /\ rows \subseteq Executions
    BY <1>7 DEF LoadAlert, resultVars, IInv, TypeOK
  <2>2. CASE CheckerRests(c)
    BY <2>1, <2>2 DEF CheckerRests, AlertsTypeOK
  <2>3. CASE /\ cresult[c] \in rows /\ UNCHANGED <<check, cresult>>
             /\ cpc' = [cpc EXCEPT ![c] = "read"]
    BY <2>1, <2>3 DEF AlertsTypeOK
  <2> QED BY <1>7, <2>2, <2>3 DEF LoadAlert
<1>8. ASSUME NEW c \in Checkers, CommitState(c) PROVE ChecksInv'
  <2>1. UNCHANGED <<xpc, toCheck, checks>> /\ cpc[c] = "read"
    BY <1>8 DEF CommitState, resultVars
  <2>2. CASE CheckerRests(c)
    BY <2>1, <2>2 DEF CheckerRests, AlertsTypeOK
  <2>3. CASE cpc' = [cpc EXCEPT ![c] = "committed"] /\ UNCHANGED <<check, cresult>>
    BY <2>1, <2>3 DEF AlertsTypeOK
  <2> QED BY <1>8, <2>2, <2>3 DEF CommitState
<1>8a. ASSUME NEW c \in Checkers, Notify(c) \/ CheckerDies(c) PROVE ChecksInv'
  <2>1. UNCHANGED <<xpc, toCheck, checks>> /\ CheckerRests(c)
    BY <1>8a DEF Notify, CheckerDies, resultVars
  <2> QED BY <2>1 DEF CheckerRests, AlertsTypeOK
<1>9. ASSUME NEW q \in Queries, Save(q) PROVE ChecksInv'
  BY <1>9 DEF Save, SavePage, checkerVars
<1>10. CASE OtherResultsStep
  <2>1. \A i \in DOMAIN checks : checks[i].by \in Executions
    BY ChecksTyped DEF Check
  <2> QED BY <1>10, <2>1, OtherStepsKeep DEF OtherResultsStep, alertVars, checkerVars, Check
<1> QED
  BY <1>1, <1>2, <1>3, <1>4, <1>5, <1>6, <1>6a, <1>7, <1>8, <1>8a, <1>9, <1>10
  DEF Next, ExecutionStep, CheckStep

LEMMA SincePreserved == AlertInv /\ [Next]_vars => SinceInv'
<1> SUFFICES ASSUME AlertInv, [Next]_vars PROVE SinceInv'
  OBVIOUS
<1> USE DEF AlertInv, SinceInv, CheckSeesItsResult
\* What is asked of an execution that has committed stays true while its queries
\* keep their pointers, and the history grows with those that move.
<1>0. ASSUME \A x \in Executions : /\ xpc'[x] = "committed" => xpc[x] = "committed"
                                   /\ xpc[x] = "committed" => touched'[x] = touched[x],
             \A q \in Queries : (latest'[q] = latest[q] /\ since'[q] = since[q])
                               \/ (since'[q] = since[q] /\ text[q] = NoText)
      PROVE  /\ \A x \in Executions : xpc'[x] = "committed" =>
                  \A q \in touched'[x] : latest'[q] \in since'[q][x]
             /\ UNCHANGED checkerVars => CheckSeesItsResult'
  <2>1. \A x \in Executions : \A q \in touched[x] : text[q] # NoText /\ q \in Queries
    BY DEF IInv, CreatedInv, TypeOK
  <2>2. \A q \in Queries : since'[q] = since[q]
    BY <1>0
  <2>3. ASSUME NEW x \in Executions, xpc'[x] = "committed", NEW q \in touched'[x]
        PROVE  latest'[q] \in since'[q][x]
    BY <1>0, <2>1, <2>3
  <2>4. ASSUME UNCHANGED checkerVars PROVE CheckSeesItsResult'
    BY <1>0, <2>2, <2>4 DEF checkerVars, ChecksInv, Check
  <2> QED BY <2>3, <2>4
<1>1. CASE UNCHANGED vars
  BY <1>1 DEF vars, resultVars, alertVars, checkerVars
<1>2. ASSUME NEW x \in Executions, Run(x) PROVE SinceInv'
  <2>1. \A y \in Executions : xpc'[y] = "committed" => xpc[y] = "committed"
    BY <1>2 DEF Run, RunQuery, IInv, TypeOK
  <2> QED BY <1>2, <1>0, <2>1 DEF Run, RunQuery
<1>3. ASSUME NEW x \in Executions, Commit(x) PROVE SinceInv'
  <2>1. touched[x] \in SUBSET Queries /\ x \in MaybeResult
    BY DEF IInv, TypeOK, MaybeResult
  <2>2. Repointed(touched[x], x) /\ touched' = touched /\ xpc[x] = "selected"
        /\ xpc' = [xpc EXCEPT ![x] = "committed"] /\ UNCHANGED checkerVars
        /\ latest' = [q \in Queries |-> IF q \in touched[x] THEN x ELSE latest[q]]
    BY <1>3 DEF Commit, CommitResult
  <2>3. ASSUME NEW y \in Executions, xpc'[y] = "committed", NEW q \in touched[y]
        PROVE  latest'[q] \in since'[q][y]
    <3>1. q \in Queries
      BY DEF IInv, TypeOK
    <3>2. CASE q \in touched[x]
      <4>1. y = x \/ latest[q] \in since[q][y]
        BY <2>2, <2>3 DEF IInv, TypeOK
      <4> QED BY <2>1, <2>2, <3>1, <3>2, <4>1, SinceGrows
    <3>3. CASE q \notin touched[x]
      <4>1. xpc[y] = "committed"
        BY <2>2, <2>3, <3>3 DEF IInv, TypeOK
      <4> QED BY <2>1, <2>2, <3>1, <3>3, <4>1, SinceGrows
    <3> QED BY <3>2, <3>3
  <2>4. CheckSeesItsResult'
    BY <2>1, <2>2, SinceGrows DEF checkerVars, ChecksInv, Check
  <2> QED BY <2>2, <2>3, <2>4
<1>4. ASSUME NEW x \in Executions, DelayCheck(x) PROVE SinceInv'
  BY <1>4 DEF DelayCheck, Delay, resultVars, checkerVars
<1>5. ASSUME NEW x \in Executions, HorseDies(x) PROVE SinceInv'
  BY <1>5 DEF HorseDies, resultVars, checkerVars
<1>6. ASSUME NEW c \in Checkers, LoadQuery(c) PROVE SinceInv'
  <2>1. check[c].query \in touched[check[c].by]
          => latest[check[c].query] \in since[check[c].query][check[c].by]
    BY <1>6 DEF LoadQuery, ChecksInv, Check
  <2> QED BY <1>6, <2>1 DEF LoadQuery, resultVars, AlertsTypeOK
<1>7. ASSUME NEW c \in Checkers,
             \/ PopCheck(c) \/ LoadAlert(c) \/ CommitState(c) \/ Notify(c) \/ CheckerDies(c)
      PROVE  SinceInv'
  <2>1. UNCHANGED <<latest, touched, xpc, since>>
    BY <1>7 DEF PopCheck, LoadAlert, CommitState, Notify, CheckerDies, resultVars
  <2>2. \A d \in Checkers : cpc'[d] \notin {"idle", "popped"} =>
           cpc[d] \notin {"idle", "popped"} /\ check'[d] = check[d] /\ cresult'[d] = cresult[d]
    <3>1. CASE PopCheck(c)
      BY <3>1 DEF PopCheck, AlertsTypeOK
    <3>2. CASE CheckerRests(c)
      BY <3>2 DEF CheckerRests, AlertsTypeOK
    <3>3. CASE LoadAlert(c) /\ ~CheckerRests(c)
      BY <3>3 DEF LoadAlert, AlertsTypeOK
    <3>4. CASE CommitState(c) /\ ~CheckerRests(c)
      BY <3>4 DEF CommitState, AlertsTypeOK
    <3> QED BY <1>7, <3>1, <3>2, <3>3, <3>4 DEF Notify, CheckerDies
  <2> QED BY <2>1, <2>2
<1>9. ASSUME NEW q \in Queries, Save(q) PROVE SinceInv'
  <2>1. /\ \A p \in Queries : p # q => latest'[p] = latest[p]
        /\ UNCHANGED <<xpc, touched, checkerVars>>
    BY <1>9, SaveMoves DEF Save
  <2>2. CASE latest'[q] = latest[q] /\ UNCHANGED since
    BY <1>0, <2>1, <2>2
  <2>3. CASE Repointed({q}, latest'[q]) /\ latest'[q] \in MaybeResult
    <3>0. \A p \in Queries, y \in Executions :
             /\ since[p][y] \subseteq since'[p][y]
             /\ p = q /\ since[p][y] # {} => latest'[q] \in since'[p][y]
             /\ p # q => since'[p][y] = since[p][y]
      <4>1. {q} \in SUBSET Queries /\ AlertsTypeOK
        OBVIOUS
      <4>2. \A p \in Queries, y \in Executions :
              /\ since[p][y] \subseteq since'[p][y]
              /\ p \in {q} /\ since[p][y] # {} => latest'[q] \in since'[p][y]
              /\ p \notin {q} => since'[p][y] = since[p][y]
        BY <2>3, <4>1 DEF Repointed, AlertsTypeOK
      <4> QED BY <4>2
    <3>1. ASSUME NEW y \in Executions, xpc[y] = "committed", NEW p \in touched[y]
          PROVE  latest'[p] \in since'[p][y]
      <4>0. touched \in [Executions -> SUBSET Queries]
        BY DEF IInv, TypeOK
      <4>1. p \in Queries /\ latest[p] \in since[p][y]
        BY <3>1, <4>0
      <4>2. CASE p = q
        BY <3>0, <4>1, <4>2
      <4>3. CASE p # q
        BY <2>1, <3>0, <4>1, <4>3
      <4> QED BY <4>2, <4>3
    <3>2. CheckSeesItsResult'
      BY <2>1, <3>0 DEF checkerVars, ChecksInv, Check
    <3> QED BY <2>1, <3>1, <3>2
  <2> QED BY <1>9, <2>2, <2>3, SaveMoves
<1>10. CASE OtherResultsStep
  <2>1. UNCHANGED <<since, checkerVars>>
    BY <1>10 DEF OtherResultsStep, alertVars
  <2> QED BY <1>10, <1>0, <2>1, OtherStepsKeep
<1> QED
  BY <1>1, <1>2, <1>3, <1>4, <1>5, <1>6, <1>7, <1>9, <1>10
  DEF Next, ExecutionStep, CheckStep

LEMMA AlertInductive == AlertInv /\ [Next]_vars => AlertInv'
<1>1. AlertInv /\ [Next]_vars => IInv'
  BY StepsOfResults, Inductive DEF AlertInv
<1> QED BY <1>1, TypesPreserved, ChecksPreserved, SincePreserved DEF AlertInv

THEOREM AlertInvariant == Spec => []AlertInv
  BY AlertInit, AlertInductive, PTL DEF Spec

\* Whatever is saved, cleaned up or executed between the commit of an execution
\* and the check it asked for: the check evaluates its result, or a later one.
THEOREM CheckSeesItsResultAlways == Spec => []CheckSeesItsResult
<1>1. AlertInv => CheckSeesItsResult
  BY DEF AlertInv, SinceInv
<1> QED BY <1>1, AlertInvariant, PTL

------------------------------------------------------------------------------
(***************************************************************************)
(* The state that the checks leave an alert in.  A check is "asked" for as *)
(* long as it is still to be enqueued, in the queue, or has not read the   *)
(* query's pointer; whoever moves a pointer asks for one, or counts the    *)
(* query as lost.                                                          *)
(***************************************************************************)
Asked(q) == \/ \E x \in Executions : q \in toCheck[x]
            \/ \E i \in DOMAIN checks : checks[i].query = q
            \/ \E c \in Checkers : cpc[c] = "popped" /\ check[c].query = q

\* The query's latest result is one that an execution has pointed it at, and no
\* check of that is asked for or lost: it has been made, or is being made.
Due(q) == q \notin lost /\ ~Asked(q) /\ \E x \in Executions : latest[q] \in since[q][x]

\* Only queries that exist have been pointed at anything since an execution, and
\* at no result only by a save.
HistoryInv ==
    \A q \in Queries, x \in Executions :
        /\ text[q] = NoText => since[q][x] = {}
        /\ NoResult \in since[q][x] => q \in lost

\* The checks of q that have read its pointer and not stored a state.
Evaluating(q) == {c \in Checkers : cpc[c] \in {"loaded", "read"} /\ check[c].query = q}

\* A check that is not overtaken has read the state its alert is in.  One of the
\* checks under way evaluates the latest result; or all of them are overtaken, and
\* the last one that ended stored what the latest result says, or is doubtful.
SettledInv ==
    /\ \A c \in Checkers : cpc[c] = "read" /\ c \notin overtaken
                               => cstate[c] = state[check[c].query]
    /\ \A q \in Queries : Due(q) =>
           \/ \E c \in Evaluating(q) : cresult[c] = latest[q]
           \/ /\ Evaluating(q) \subseteq overtaken
              /\ q \in doubtful \/ state[q] = outcome[latest[q]]

SettleInv == AlertInv /\ HistoryInv /\ SettledInv

LEMMA SettleInit == Init => SettleInv
<1> SUFFICES ASSUME Init PROVE SettleInv
  OBVIOUS
<1>1. HistoryInv /\ SettledInv
  BY DEF Init, HistoryInv, SettledInv, Due
<1> QED BY <1>1, AlertInit DEF SettleInv

LEMMA HistoryPreserved == AlertInv /\ HistoryInv /\ [Next]_vars => HistoryInv'
<1> SUFFICES ASSUME AlertInv, HistoryInv, [Next]_vars PROVE HistoryInv'
  OBVIOUS
<1> USE DEF AlertInv, HistoryInv
\* Most steps leave the history alone, and delete no query.
<1>0. ASSUME since' = since, lost \subseteq lost',
             \A q \in Queries : text'[q] = NoText => text[q] = NoText
      PROVE  HistoryInv'
  BY <1>0
<1>1. ASSUME NEW x \in Executions, Commit(x) PROVE HistoryInv'
  <2>1. /\ Repointed(touched[x], x) /\ touched[x] \in SUBSET Queries /\ x \in MaybeResult
        /\ x # NoResult /\ text' = text /\ lost \subseteq lost'
    BY <1>1, NoResultAssumption DEF Commit, CommitResult, IInv, TypeOK, MaybeResult
  <2>2. \A q \in touched[x] : text[q] # NoText
    BY DEF IInv, CreatedInv
  <2>3. \A q \in Queries, y \in Executions :
           /\ since'[q][y] \subseteq since[q][y] \cup {x}
           /\ q \notin touched[x] => since'[q][y] = since[q][y]
    BY <2>1 DEF Repointed, AlertsTypeOK
  <2> QED BY <2>1, <2>2, <2>3
<1>2. ASSUME NEW q \in Queries, Save(q) PROVE HistoryInv'
  <2>1. CASE UNCHANGED <<since, lost>>
    BY <1>0, <1>2, <2>1, SaveMoves
  <2>2. CASE Repointed({q}, latest'[q]) /\ lost' = lost \cup {q}
    <3>1. \A p \in Queries \ {q}, y \in Executions : since'[p][y] = since[p][y]
      BY <2>2 DEF Repointed, AlertsTypeOK
    <3> QED BY <1>2, <2>2, <3>1, SaveMoves
  <2> QED BY <1>2, <2>1, <2>2, SaveMoves
<1>3. CASE UNCHANGED vars
  BY <1>0, <1>3 DEF vars, resultVars, alertVars
<1>4. ASSUME NEW x \in Executions, Run(x) \/ DelayCheck(x) \/ HorseDies(x) PROVE HistoryInv'
  BY <1>0, <1>4 DEF Run, RunQuery, DelayCheck, Delay, HorseDies, resultVars
<1>5. ASSUME NEW c \in Checkers, CheckStep(c) PROVE HistoryInv'
  BY <1>0, <1>5 DEF CheckStep, PopCheck, LoadQuery, LoadAlert, CommitState, Notify,
                   CheckerDies, resultVars
<1>6. CASE OtherResultsStep
  BY <1>0, <1>6, OtherStepsKeep DEF OtherResultsStep, alertVars
<1> QED BY <1>1, <1>2, <1>3, <1>4, <1>5, <1>6 DEF Next, ExecutionStep

\* A step that makes no query due, moves no due pointer, and changes neither the
\* checkers nor the alerts leaves what is settled settled.
LEMMA SettledKept ==
    ASSUME AlertInv, SettledInv, UNCHANGED <<state, checkerVars, doubtful>>,
           \A q \in Queries : Due(q)' => /\ Due(q) /\ latest'[q] = latest[q]
                                        /\ outcome'[latest[q]] = outcome[latest[q]]
    PROVE  SettledInv'
<1>1. \A q : Evaluating(q)' = Evaluating(q)
  BY DEF Evaluating, checkerVars
<1>2. UNCHANGED <<cpc, check, cresult, cstate, overtaken>>
  BY DEF checkerVars
<1> QED BY <1>1, <1>2 DEF SettledInv

\* A check that ends before it stores a state, with a result that is not the
\* latest one, or with a query that is not due, leaves the others as they were.
LEMMA SettledRest ==
    ASSUME AlertInv, SettledInv, NEW c \in Checkers, CheckerRests(c), overtaken' = overtaken \ {c},
           UNCHANGED <<state, doubtful, latest, outcome>>,
           \A q \in Queries : Due(q)' =>
               Due(q) /\ (c \in Evaluating(q) => cresult[c] # latest[q])
    PROVE  SettledInv'
<1>1. \A d \in Checkers \ {c} : /\ cpc'[d] = cpc[d] /\ check'[d] = check[d]
                                /\ cresult'[d] = cresult[d] /\ cstate'[d] = cstate[d]
                                /\ d \in overtaken' <=> d \in overtaken
  BY DEF CheckerRests, AlertInv, AlertsTypeOK
<1>2. cpc'[c] = "idle"
  BY DEF CheckerRests, AlertInv, AlertsTypeOK
<1>3. \A q : Evaluating(q)' = Evaluating(q) \ {c}
  BY <1>1, <1>2 DEF Evaluating
<1>4. ASSUME NEW q \in Queries, Due(q)'
      PROVE  \/ \E d \in Evaluating(q)' : cresult'[d] = latest'[q]
             \/ /\ Evaluating(q)' \subseteq overtaken'
                /\ q \in doubtful' \/ state'[q] = outcome'[latest'[q]]
  <2>1. Due(q) /\ (c \in Evaluating(q) => cresult[c] # latest[q])
    BY <1>4
  <2>2. CASE \E d \in Evaluating(q) : cresult[d] = latest[q]
    <3>1. PICK d \in Evaluating(q) : cresult[d] = latest[q]
      BY <2>2
    <3>2. d # c /\ d \in Checkers
      BY <2>1, <3>1 DEF Evaluating
    <3> QED BY <1>1, <1>3, <3>1, <3>2
  <2>3. CASE /\ Evaluating(q) \subseteq overtaken
             /\ q \in doubtful \/ state[q] = outcome[latest[q]]
    BY <1>3, <2>3
  <2> QED BY <2>1, <2>2, <2>3 DEF SettledInv
<1>5. ASSUME NEW d \in Checkers, cpc'[d] = "read", d \notin overtaken'
      PROVE  cstate'[d] = state'[check'[d].query]
  BY <1>1, <1>2, <1>5 DEF SettledInv
<1> QED BY <1>4, <1>5 DEF SettledInv

LEMMA SettledPreserved == SettleInv /\ [Next]_vars => SettledInv'
<1> SUFFICES ASSUME SettleInv, [Next]_vars PROVE SettledInv'
  OBVIOUS
<1> USE DEF SettleInv, AlertInv
<1>0. \A c \in Checkers : IF cpc[c] = "idle" THEN check[c] = NoCheck
                          ELSE check[c].query \in Queries
  BY DEF ChecksInv, Check
<1>1. CASE UNCHANGED vars
  <2>1. \A q \in Queries : Due(q)' => Due(q)
    BY <1>1 DEF vars, alertVars, resultVars, checkerVars, Due, Asked
  <2>2. UNCHANGED <<latest, outcome, state, checkerVars, doubtful>>
    BY <1>1 DEF vars, resultVars, alertVars, checkerVars
  <2> QED BY <2>1, <2>2, SettledKept
<1>2. ASSUME NEW x \in Executions, Run(x) PROVE SettledInv'
  <2>1. \A q \in Queries : Due(q)' => Due(q) /\ latest'[q] = latest[q]
    BY <1>2 DEF Run, RunQuery, Due, Asked, checkerVars
  <2>2. \A q \in Queries : latest[q] # x
    BY <1>2 DEF Run, RunQuery, IInv, PointersInv
  <2>3. \A q \in Queries : Due(q) => latest[q] \in Executions
    BY DEF Due, HistoryInv, IInv, TypeOK, MaybeResult
  <2>4. \A q \in Queries : Due(q) => outcome'[latest[q]] = outcome[latest[q]]
    BY <1>2, <2>2, <2>3 DEF Run, AlertsTypeOK
  <2> QED BY <1>2, <2>1, <2>4, SettledKept DEF Run
<1>3. ASSUME NEW x \in Executions, Commit(x) PROVE SettledInv'
  <2>1. /\ Repointed(touched[x], x) /\ touched[x] \in SUBSET Queries /\ x \in MaybeResult
        /\ lost' = lost \cup (touched[x] \ QueriesOf(xtext[x]))
        /\ toCheck[x] = {} /\ toCheck' = [toCheck EXCEPT ![x] = QueriesOf(xtext[x])]
        /\ latest' = [q \in Queries |-> IF q \in touched[x] THEN x ELSE latest[q]]
        /\ UNCHANGED <<outcome, checks, state, checkerVars, doubtful>>
    BY <1>3 DEF Commit, CommitResult, IInv, TypeOK, MaybeResult, ChecksInv
  <2>2. ASSUME NEW q \in Queries, Due(q)' PROVE Due(q) /\ latest'[q] = latest[q]
    <3>1. q \notin touched[x]
      BY <2>1, <2>2 DEF Due, Asked, AlertsTypeOK, checkerVars
    <3>2. \A y \in Executions : since'[q][y] = since[q][y]
      BY <2>1, <3>1 DEF Repointed, AlertsTypeOK
    <3>3. Asked(q) => Asked(q)'
      BY <2>1 DEF Asked, AlertsTypeOK, checkerVars
    <3> QED BY <2>1, <2>2, <3>1, <3>2, <3>3 DEF Due
  <2> QED BY <2>1, <2>2, SettledKept
<1>4. ASSUME NEW x \in Executions, DelayCheck(x) PROVE SettledInv'
  <2>1. PICK q \in toCheck[x] : toCheck' = [toCheck EXCEPT ![x] = @ \ {q}] /\ Delay(x, q)
    BY <1>4 DEF DelayCheck
  <2>2. [query |-> q, by |-> x] \in Check /\ checks \in Seq(Check)
    BY <2>1 DEF Check, AlertsTypeOK
  <2>3. /\ Len(checks') = Len(checks) + 1 /\ DOMAIN checks' = 1..Len(checks')
        /\ \A i \in 1..Len(checks) : checks'[i] = checks[i]
        /\ checks'[Len(checks) + 1] = [query |-> q, by |-> x]
        /\ DOMAIN checks = 1..Len(checks) /\ Len(checks) \in Nat
    BY <2>1, <2>2, AppendProperties, LenProperties DEF Delay
  <2>4. \A p \in Queries : Asked(p) => Asked(p)'
    <3>1. (\E i \in DOMAIN checks' : checks'[i].query = q)
          /\ \A p \in Queries : (\E i \in DOMAIN checks : checks[i].query = p)
                                   => \E i \in DOMAIN checks' : checks'[i].query = p
      BY <2>3
    <3> QED BY <2>1, <3>1 DEF Asked, AlertsTypeOK, Delay, checkerVars
  <2>5. UNCHANGED <<latest, since, lost, outcome, state, checkerVars, doubtful>>
    BY <2>1 DEF Delay, resultVars
  <2>6. \A p \in Queries : Due(p)' => Due(p)
    BY <2>4, <2>5 DEF Due
  <2> QED BY <2>5, <2>6, SettledKept
<1>5. ASSUME NEW x \in Executions, HorseDies(x) PROVE SettledInv'
  <2>1. /\ UNCHANGED <<latest, since, checks, outcome, state, checkerVars, doubtful>>
        /\ lost' = lost \cup toCheck[x] /\ toCheck' = [toCheck EXCEPT ![x] = {}]
    BY <1>5 DEF HorseDies, resultVars
  <2>2. \A q \in Queries : Due(q)' => Due(q)
    BY <2>1 DEF Due, Asked, AlertsTypeOK, checkerVars
  <2> QED BY <2>1, <2>2, SettledKept
<1>6. ASSUME NEW c \in Checkers, PopCheck(c) PROVE SettledInv'
  <2>1. checks \in Seq(Check) /\ checks # <<>> /\ Head(checks) \in Check
    BY <1>6, HeadTailProperties DEF PopCheck, AlertsTypeOK, Check
  <2>2. /\ \A i \in DOMAIN Tail(checks) : Tail(checks)[i] = checks[i + 1]
        /\ \A i \in DOMAIN checks : i = 1 \/ (i - 1 \in DOMAIN Tail(checks) /\ i = (i - 1) + 1)
        /\ Head(checks) = checks[1]
    BY <2>1, HeadTailProperties, LenProperties
  <2>3. /\ checks' = Tail(checks) /\ cpc[c] = "idle" /\ cpc' = [cpc EXCEPT ![c] = "popped"]
        /\ check' = [check EXCEPT ![c] = Head(checks)]
        /\ UNCHANGED <<latest, since, lost, toCheck, outcome, state, cresult, cstate,
                       overtaken, doubtful>>
    BY <1>6 DEF PopCheck, resultVars
  <2>4. /\ \A d \in Checkers \ {c} : cpc'[d] = cpc[d] /\ check'[d] = check[d]
        /\ cpc'[c] = "popped" /\ check'[c] = Head(checks)
    BY <2>3 DEF AlertsTypeOK
  <2>5. ASSUME NEW q \in Queries, Asked(q) PROVE Asked(q)'
    <3>1. CASE \E x \in Executions : q \in toCheck[x]
      BY <2>3, <3>1 DEF Asked
    <3>2. ASSUME NEW i \in DOMAIN checks, checks[i].query = q PROVE Asked(q)'
      <4>1. CASE i = 1
        BY <2>2, <2>4, <3>2, <4>1 DEF Asked
      <4>2. CASE i # 1
        <5>1. i - 1 \in DOMAIN Tail(checks) /\ Tail(checks)[i - 1].query = q
          BY <2>2, <3>2, <4>2
        <5> QED BY <2>3, <5>1 DEF Asked
      <4> QED BY <4>1, <4>2
    <3>3. CASE \E d \in Checkers : cpc[d] = "popped" /\ check[d].query = q
      BY <2>3, <2>4, <3>3 DEF Asked
    <3> QED BY <2>5, <3>1, <3>2, <3>3 DEF Asked
  <2>6. \A q \in Queries : Due(q)' => Due(q)
    BY <2>3, <2>5 DEF Due
  <2>7. \A q : Evaluating(q)' = Evaluating(q)
    BY <2>3, <2>4 DEF Evaluating
  <2> QED BY <2>3, <2>4, <2>6, <2>7 DEF SettledInv
<1>6a. ASSUME NEW c \in Checkers, LoadQuery(c) PROVE SettledInv'
  <2> DEFINE p == check[c].query
  <2>1. /\ cpc[c] = "popped" /\ p \in Queries
        /\ UNCHANGED <<latest, since, lost, toCheck, checks, outcome, state, check, cstate,
                       overtaken, doubtful>>
    BY <1>0, <1>6a DEF LoadQuery, resultVars
  <2>2. /\ \A d \in Checkers \ {c} : cpc'[d] = cpc[d] /\ cresult'[d] = cresult[d]
        /\ cpc'[c] = "loaded" /\ cresult'[c] = latest[p]
    BY <1>6a DEF LoadQuery, AlertsTypeOK
  <2>3. ASSUME NEW q \in Queries, Due(q)', q # p
        PROVE  Due(q) /\ Evaluating(q)' = Evaluating(q) /\ c \notin Evaluating(q)
    BY <2>1, <2>2, <2>3 DEF Due, Asked, Evaluating
  <2>4. ASSUME NEW q \in Queries, Due(q)'
        PROVE  \/ \E d \in Evaluating(q)' : cresult'[d] = latest'[q]
               \/ /\ Evaluating(q)' \subseteq overtaken'
                  /\ q \in doubtful' \/ state'[q] = outcome'[latest'[q]]
    <3>1. CASE q = p
      BY <2>1, <2>2, <3>1 DEF Evaluating
    <3>2. CASE q # p
      <4>1. \A d \in Evaluating(q) : cresult'[d] = cresult[d]
        BY <2>2, <2>3, <2>4, <3>2 DEF Evaluating
      <4> QED BY <2>1, <2>3, <2>4, <3>2, <4>1 DEF SettledInv
    <3> QED BY <3>1, <3>2
  <2>5. ASSUME NEW d \in Checkers, cpc'[d] = "read", d \notin overtaken'
        PROVE  cstate'[d] = state'[check'[d].query]
    BY <2>1, <2>2, <2>5 DEF SettledInv
  <2> QED BY <2>4, <2>5 DEF SettledInv
<1>7. ASSUME NEW c \in Checkers, LoadAlert(c) PROVE SettledInv'
  <2>1. cpc[c] = "loaded" /\ check[c].query \in Queries
        /\ UNCHANGED <<latest, since, lost, toCheck, checks, outcome, state, doubtful>>
    BY <1>0, <1>7 DEF LoadAlert, resultVars
  <2>2. CASE /\ cstate' = [cstate EXCEPT ![c] = state[check[c].query]]
             /\ cpc' = [cpc EXCEPT ![c] = "read"] /\ UNCHANGED <<check, cresult, overtaken>>
    <3>1. /\ \A d \in Checkers \ {c} : cpc'[d] = cpc[d] /\ cstate'[d] = cstate[d]
          /\ cpc'[c] = "read" /\ cstate'[c] = state[check[c].query]
      BY <2>2 DEF AlertsTypeOK
    <3>2. \A q : Evaluating(q)' = Evaluating(q)
      BY <2>1, <2>2, <3>1 DEF Evaluating
    <3>3. \A q : Due(q)' => Due(q)
      BY <2>1, <2>2, <3>1 DEF Due, Asked
    <3> QED BY <2>1, <2>2, <3>1, <3>2, <3>3 DEF SettledInv
  <2>3. CASE cresult[c] \notin rows /\ CheckerRests(c) /\ overtaken' = overtaken \ {c}
    <3>1. \A q \in Queries : Due(q)' => Due(q)
      BY <2>1, <2>3 DEF Due, Asked, CheckerRests, AlertsTypeOK
    <3>2. \A q \in Queries : Due(q) => latest[q] \in rows
      BY DEF IInv, LatestExists, HistoryInv, Due
    <3> QED BY <2>1, <2>3, <3>1, <3>2, SettledRest
  <2> QED BY <1>7, <2>2, <2>3 DEF LoadAlert
<1>8. ASSUME NEW c \in Checkers, CommitState(c) PROVE SettledInv'
  <2> DEFINE p == check[c].query
             now == outcome[cresult[c]]
             Over == Overtaken(c)
  <2>1. /\ cpc[c] = "read" /\ p \in Queries
        /\ UNCHANGED <<latest, since, lost, toCheck, checks, outcome>>
    BY <1>0, <1>8 DEF CommitState, resultVars
  <2>2. /\ \A d \in Checkers \ {c} : /\ cpc'[d] = cpc[d] /\ check'[d] = check[d]
                                     /\ cresult'[d] = cresult[d] /\ cstate'[d] = cstate[d]
                                     /\ d \in overtaken' <=> d \in overtaken \cup Over
        /\ cpc'[c] \in {"idle", "committed"}
    <3>1. CASE CheckerRests(c) /\ overtaken' = (overtaken \cup Over) \ {c}
      BY <3>1 DEF CheckerRests, AlertsTypeOK
    <3>2. CASE /\ cpc' = [cpc EXCEPT ![c] = "committed"] /\ overtaken' = overtaken \cup Over
               /\ UNCHANGED <<check, cresult, cstate>>
      BY <3>2 DEF AlertsTypeOK
    <3> QED BY <1>8, <3>1, <3>2 DEF CommitState
  <2>3. /\ \A q \in Queries \ {p} : state'[q] = state[q]
        /\ c \notin overtaken => state'[p] = now
    <3>1. c \notin overtaken => cstate[c] = state[p]
      BY <2>1 DEF SettledInv
    <3>2. \/ StoreState(p, cstate[c], now)
          \/ cstate[c] = now /\ UNCHANGED state
      BY <1>8 DEF CommitState, ShouldNotify
    <3> QED BY <2>1, <3>1, <3>2 DEF StoreState, AlertsTypeOK
  <2>4. doubtful' = IF c \in overtaken THEN doubtful \cup {p} ELSE doubtful \ {p}
    BY <1>8 DEF CommitState
  <2>5. \A q \in Queries : Evaluating(q)' = Evaluating(q) \ {c}
    BY <2>1, <2>2 DEF Evaluating
  <2>6. \A q \in Queries : Due(q)' => Due(q)
    BY <2>1, <2>2 DEF Due, Asked
  <2>7. \A d \in Checkers : d \in Over <=>
           /\ d # c /\ check[d].query = p
           /\ \/ cpc[d] \in {"read", "committed"} /\ state'[p] # state[p]
              \/ cpc[d] \in {"loaded", "read"} /\ cresult[d] # latest[p]
    BY DEF Overtaken
  <2>8. ASSUME NEW d \in Checkers, cpc'[d] = "read", d \notin overtaken'
        PROVE  cstate'[d] = state'[check'[d].query]
    <3>1. d # c /\ cpc[d] = "read" /\ d \notin overtaken /\ d \notin Over
      BY <2>2, <2>8
    <3>2. state'[check[d].query] = state[check[d].query]
      BY <1>0, <2>3, <2>7, <3>1
    <3> QED BY <2>2, <3>1, <3>2 DEF SettledInv
  <2>9. ASSUME NEW q \in Queries, Due(q)'
        PROVE  \/ \E d \in Evaluating(q)' : cresult'[d] = latest'[q]
               \/ /\ Evaluating(q)' \subseteq overtaken'
                  /\ q \in doubtful' \/ state'[q] = outcome'[latest'[q]]
    <3>1. CASE \E d \in Evaluating(q) \ {c} : cresult[d] = latest[q]
      BY <2>1, <2>2, <2>5, <3>1 DEF Evaluating
    <3>2. CASE \A d \in Evaluating(q) \ {c} : cresult[d] # latest[q]
      <4>1. CASE q = p
        <5>1. Evaluating(q) \ {c} \subseteq Over
          BY <2>7, <3>2, <4>1 DEF Evaluating
        <5>2. Evaluating(q)' \subseteq overtaken'
          BY <2>2, <2>5, <5>1 DEF Evaluating
        <5>3. CASE c \in overtaken
          BY <2>4, <4>1, <5>2, <5>3
        <5>4. CASE c \notin overtaken
          <6>1. c \in Evaluating(q)
            BY <2>1, <4>1 DEF Evaluating
          <6>2. cresult[c] = latest[q]
            BY <2>6, <2>9, <3>2, <5>4, <6>1 DEF SettledInv
          <6> QED BY <2>1, <2>3, <4>1, <5>2, <5>4, <6>2
        <5> QED BY <5>3, <5>4
      <4>2. CASE q # p
        <5>1. c \notin Evaluating(q)
          BY <4>2 DEF Evaluating
        <5>2. /\ Evaluating(q) \subseteq overtaken
              /\ q \in doubtful \/ state[q] = outcome[latest[q]]
          BY <2>6, <2>9, <3>2, <5>1 DEF SettledInv
        <5>3. Evaluating(q)' \subseteq overtaken'
          BY <2>2, <2>5, <5>2 DEF Evaluating
        <5> QED BY <2>1, <2>3, <2>4, <4>2, <5>2, <5>3
      <4> QED BY <4>1, <4>2
    <3> QED BY <3>1, <3>2
  <2> QED BY <2>8, <2>9 DEF SettledInv
<1>8a. ASSUME NEW c \in Checkers, Notify(c) PROVE SettledInv'
  <2>1. /\ cpc[c] = "committed" /\ CheckerRests(c) /\ overtaken' = overtaken \ {c}
        /\ UNCHANGED <<latest, since, lost, toCheck, checks, outcome, state, doubtful>>
    BY <1>8a DEF Notify, resultVars
  <2>2. \A q \in Queries : Due(q)' => Due(q) /\ c \notin Evaluating(q)
    BY <2>1 DEF Due, Asked, Evaluating, CheckerRests, AlertsTypeOK
  <2> QED BY <2>1, <2>2, SettledRest
<1>8b. ASSUME NEW c \in Checkers, CheckerDies(c) PROVE SettledInv'
  <2>1. /\ CheckerRests(c) /\ overtaken' = overtaken \ {c} /\ lost \subseteq lost'
        /\ cpc[c] \notin {"idle", "committed"} => check[c].query \in lost'
        /\ UNCHANGED <<latest, since, toCheck, checks, outcome, state, doubtful>>
    BY <1>8b DEF CheckerDies, resultVars
  <2>2. \A d \in Checkers \ {c} : cpc'[d] = cpc[d] /\ check'[d] = check[d]
    BY <2>1 DEF CheckerRests, AlertsTypeOK
  <2>3. ASSUME NEW q \in Queries, Due(q)' PROVE Due(q) /\ c \notin Evaluating(q)
    <3>1. q \notin lost' /\ ~(cpc[c] \in {"popped", "loaded", "read"} /\ check[c].query = q)
      BY <2>1, <2>3 DEF Due
    <3> QED BY <2>1, <2>2, <2>3, <3>1 DEF Due, Asked, Evaluating
  <2> QED BY <2>1, <2>3, SettledRest
<1>9. ASSUME NEW q \in Queries, Save(q) PROVE SettledInv'
  <2>1. UNCHANGED <<toCheck, checks, outcome, state, checkerVars, doubtful>>
    BY <1>9 DEF Save
  <2>2. \A p \in Queries : Asked(p)' <=> Asked(p)
    BY <2>1 DEF Asked, checkerVars
  <2>3. ASSUME NEW p \in Queries, Due(p)' PROVE Due(p) /\ latest'[p] = latest[p]
    <3>1. CASE latest'[q] = latest[q] /\ UNCHANGED <<since, lost>>
      BY <1>9, <2>2, <2>3, <3>1, SaveMoves DEF Due
    <3>2. CASE Repointed({q}, latest'[q]) /\ lost' = lost \cup {q}
      <4>1. p # q /\ \A y \in Executions : since'[p][y] = since[p][y]
        BY <2>3, <3>2 DEF Due, Repointed, AlertsTypeOK
      <4> QED BY <1>9, <2>2, <2>3, <3>2, <4>1, SaveMoves DEF Due
    <3> QED BY <1>9, <3>1, <3>2, SaveMoves
  <2> QED BY <2>1, <2>3, SettledKept
<1>10. CASE OtherResultsStep
  <2>1. UNCHANGED <<toCheck, checks, outcome, state, checkerVars, doubtful, since, lost>>
    BY <1>10 DEF OtherResultsStep, alertVars
  <2>2. \A q \in Queries : latest'[q] = latest[q] \/ text[q] = NoText
    BY <1>10, OtherStepsKeep
  <2>3. ASSUME NEW q \in Queries, Due(q)' PROVE Due(q) /\ latest'[q] = latest[q]
    BY <2>1, <2>2, <2>3 DEF Due, Asked, HistoryInv, checkerVars
  <2> QED BY <2>1, <2>3, SettledKept
<1> QED
  BY <1>1, <1>2, <1>3, <1>4, <1>5, <1>6, <1>6a, <1>7, <1>8, <1>8a, <1>8b, <1>9, <1>10
  DEF Next, ExecutionStep, CheckStep

\* What is settled stays so, and its invariant is inductive.
THEOREM SettleInvariant == Spec => []SettleInv
<1>1. SettleInv /\ [Next]_vars => SettleInv'
  BY SettledPreserved, HistoryPreserved, AlertInductive DEF SettleInv
<1> QED BY <1>1, SettleInit, PTL DEF Spec

\* Once its checks are done, an alert is in the state that the latest result of
\* its query puts it in, unless the check that ended last was overtaken by another
\* one: whatever number of workers runs the checks, and in whatever order
\* executions, saves, forks, clean-ups and deaths come between their steps.
THEOREM AlertsSettleAlways == Spec => []AlertsSettle
<1>1. SettleInv => AlertsSettle
  <2> SUFFICES ASSUME SettleInv, NEW q \in Queries, Quiet(q), q \notin doubtful,
                      \E x \in Executions : latest[q] \in since[q][x]
               PROVE  state[q] = outcome[latest[q]]
    BY DEF AlertsSettle
  <2>1. Due(q) /\ Evaluating(q) = {}
    BY DEF Quiet, Due, Asked, Evaluating
  <2> QED BY <2>1 DEF SettleInv, SettledInv
<1> QED BY <1>1, SettleInvariant, PTL

------------------------------------------------------------------------------
(***************************************************************************)
(* What subscribers know.  A check that has stored a state and was not     *)
(* overtaken since announces the state the alert is in; another one that   *)
(* stores a different state overtakes it, whichever of them is the first   *)
(* to notify.                                                              *)
(***************************************************************************)
Announcing(q) == {c \in Checkers : cpc[c] = "committed" /\ check[c].query = q}

Known(told, is) == told = is \/ (told = "unknown" /\ is = "ok")

\* A change that subscribers may not have heard of, or that a check under way is
\* about to tell them, or what they know is the alert's state.
KnownInv ==
    /\ \A c \in Checkers : cpc[c] = "committed" /\ c \notin overtaken
                               => state[check[c].query] = outcome[cresult[c]]
    /\ \A q \in Queries :
         \/ q \in missed
         \/ Announcing(q) \cap overtaken # {}
         \/ Known(heard[q], state[q])
         \/ \E c \in Announcing(q) : ~Skips(cstate[c], outcome[cresult[c]])

TellInv == SettleInv /\ KnownInv

LEMMA TellInit == Init => TellInv
<1>1. Init => KnownInv
  BY DEF Init, KnownInv, Known
<1> QED BY <1>1, SettleInit DEF TellInv

\* Steps that leave the announcing checks, what they announce and the alerts alone.
LEMMA KnownKept ==
    ASSUME AlertInv, KnownInv, UNCHANGED <<state, heard, missed>>,
           \A c \in Checkers :
             /\ cpc'[c] = "committed" <=> cpc[c] = "committed"
             /\ cpc[c] = "committed" =>
                  /\ check'[c] = check[c] /\ cresult'[c] = cresult[c] /\ cstate'[c] = cstate[c]
                  /\ c \in overtaken' <=> c \in overtaken
                  /\ outcome'[cresult[c]] = outcome[cresult[c]]
    PROVE  KnownInv'
<1>1. \A q : Announcing(q)' = Announcing(q)
  BY DEF Announcing
<1>2. \A q : Announcing(q)' \cap overtaken' = Announcing(q) \cap overtaken
  BY <1>1 DEF Announcing
<1>3. ASSUME NEW q \in Queries,
             \E c \in Announcing(q) : ~Skips(cstate[c], outcome[cresult[c]])
      PROVE  \E c \in Announcing(q)' : ~Skips(cstate'[c], outcome'[cresult'[c]])
  BY <1>1, <1>3 DEF Announcing
<1> QED BY <1>1, <1>2, <1>3 DEF KnownInv, Skips

LEMMA KnownPreserved == TellInv /\ [Next]_vars => KnownInv'
<1> SUFFICES ASSUME TellInv, [Next]_vars PROVE KnownInv'
  OBVIOUS
<1> USE DEF TellInv, SettleInv, AlertInv
<1>0. \A c \in Checkers : cpc[c] # "idle" => check[c].query \in Queries
  BY DEF ChecksInv, Check
<1>1. CASE UNCHANGED vars
  BY <1>1, KnownKept DEF vars, alertVars, checkerVars
<1>2. ASSUME NEW x \in Executions, Run(x) PROVE KnownInv'
  <2>1. \A c \in Checkers : cpc[c] = "committed" => cresult[c] \in Executions /\ cresult[c] # x
    BY <1>2 DEF ChecksInv, Run, RunQuery
  <2>2. \A y \in Executions \ {x} : outcome'[y] = outcome[y]
    BY <1>2 DEF Run, AlertsTypeOK
  <2> QED BY <1>2, <2>1, <2>2, KnownKept DEF Run, checkerVars
<1>3. ASSUME NEW x \in Executions, Commit(x) \/ DelayCheck(x) \/ HorseDies(x) PROVE KnownInv'
  BY <1>3, KnownKept DEF Commit, DelayCheck, Delay, HorseDies, checkerVars
<1>4. ASSUME NEW q \in Queries, Save(q) PROVE KnownInv'
  BY <1>4, KnownKept DEF Save, checkerVars
<1>5. CASE OtherResultsStep
  BY <1>5, KnownKept DEF OtherResultsStep, alertVars, checkerVars
<1>6. ASSUME NEW c \in Checkers, PopCheck(c) \/ LoadQuery(c) PROVE KnownInv'
  <2>1. CASE PopCheck(c)
    BY <2>1, KnownKept DEF PopCheck, AlertsTypeOK
  <2>2. CASE LoadQuery(c)
    BY <2>2, KnownKept DEF LoadQuery, AlertsTypeOK
  <2> QED BY <1>6, <2>1, <2>2
<1>7. ASSUME NEW c \in Checkers, LoadAlert(c) PROVE KnownInv'
  <2>1. cpc[c] = "loaded" /\ UNCHANGED <<state, heard, missed, outcome>>
    BY <1>7 DEF LoadAlert
  <2>2. \A d \in Checkers : /\ d = c => cpc'[d] # "committed"
                            /\ d # c => /\ cpc'[d] = cpc[d] /\ check'[d] = check[d]
                                        /\ cresult'[d] = cresult[d] /\ cstate'[d] = cstate[d]
                                        /\ d \in overtaken' <=> d \in overtaken
    <3>1. CASE CheckerRests(c) /\ overtaken' = overtaken \ {c}
      BY <3>1 DEF CheckerRests, AlertsTypeOK
    <3>2. CASE /\ cstate' = [cstate EXCEPT ![c] = state[check[c].query]]
               /\ cpc' = [cpc EXCEPT ![c] = "read"] /\ UNCHANGED <<check, cresult, overtaken>>
      BY <3>2 DEF AlertsTypeOK
    <3> QED BY <1>7, <3>1, <3>2 DEF LoadAlert
  <2> QED BY <2>1, <2>2, KnownKept
<1>8. ASSUME NEW c \in Checkers, CommitState(c) PROVE KnownInv'
  <2> DEFINE p == check[c].query
             now == outcome[cresult[c]]
             Over == Overtaken(c)
  <2>1. cpc[c] = "read" /\ p \in Queries /\ UNCHANGED <<outcome, heard, missed>>
    BY <1>0, <1>8 DEF CommitState
  <2>2. \A d \in Checkers \ {c} : /\ cpc'[d] = cpc[d] /\ check'[d] = check[d]
                                  /\ cresult'[d] = cresult[d] /\ cstate'[d] = cstate[d]
                                  /\ d \in overtaken' <=> d \in overtaken \cup Over
    <3>1. CASE CheckerRests(c) /\ overtaken' = (overtaken \cup Over) \ {c}
      BY <3>1 DEF CheckerRests, AlertsTypeOK
    <3>2. CASE /\ cpc' = [cpc EXCEPT ![c] = "committed"] /\ overtaken' = overtaken \cup Over
               /\ UNCHANGED <<check, cresult, cstate>>
      BY <3>2 DEF AlertsTypeOK
    <3> QED BY <1>8, <3>1, <3>2 DEF CommitState
  \* It rests without a change, or it has stored what it found and will announce it.
  <2>3. \/ cpc'[c] = "idle" /\ UNCHANGED state
        \/ /\ cpc'[c] = "committed" /\ check'[c] = check[c] /\ cresult'[c] = cresult[c]
           /\ cstate'[c] = cstate[c] /\ (c \in overtaken' <=> c \in overtaken)
           /\ c \notin overtaken =>
                /\ cstate[c] = state[p] /\ state'[p] = now
                /\ Skips(cstate[c], now) => state'[p] # state[p]
    <3>1. CASE CheckerRests(c) /\ UNCHANGED state
      BY <3>1 DEF CheckerRests, AlertsTypeOK
    <3>2. CASE /\ StoreState(p, cstate[c], now) /\ cpc' = [cpc EXCEPT ![c] = "committed"]
               /\ overtaken' = overtaken \cup Over /\ UNCHANGED <<check, cresult, cstate>>
      <4>1. c \notin Over
        BY DEF Overtaken
      <4>2. c \notin overtaken => cstate[c] = state[p]
        BY <2>1 DEF SettledInv
      <4>3. c \notin overtaken => state'[p] = now
        BY <2>1, <3>2, <4>2 DEF StoreState, AlertsTypeOK
      <4>4. cpc'[c] = "committed"
        BY <3>2 DEF AlertsTypeOK
      <4> QED BY <3>2, <4>1, <4>2, <4>3, <4>4 DEF Skips
    <3> QED BY <1>8, <3>1, <3>2 DEF CommitState
  <2>4. \A q \in Queries \ {p} : state'[q] = state[q]
    BY <1>8, <2>1 DEF CommitState, StoreState, AlertsTypeOK
  <2>5. \A d \in Checkers : cpc[d] = "committed" =>
           (d \in Over <=> check[d].query = p /\ state'[p] # state[p])
    BY <2>1 DEF Overtaken
  <2>6. ASSUME NEW d \in Checkers, cpc'[d] = "committed", d \notin overtaken'
        PROVE  state'[check'[d].query] = outcome'[cresult'[d]]
    <3>1. CASE d = c
      BY <2>1, <2>3, <2>6, <3>1
    <3>2. CASE d # c
      <4>1. cpc[d] = "committed" /\ d \notin overtaken /\ d \notin Over
        BY <2>2, <2>6, <3>2
      <4>2. state'[check[d].query] = state[check[d].query]
        BY <1>0, <2>4, <2>5, <4>1
      <4> QED BY <2>1, <2>2, <3>2, <4>1, <4>2 DEF KnownInv
    <3> QED BY <3>1, <3>2
  \* The checks that were announcing still are, and are overtaken if p's state changed.
  <2>7. \A q \in Queries : \A d \in Announcing(q) :
           /\ d # c /\ d \in Announcing(q)'
           /\ cstate'[d] = cstate[d] /\ cresult'[d] = cresult[d]
           /\ d \in overtaken \/ (q = p /\ state'[p] # state[p]) => d \in overtaken'
    BY <2>1, <2>2, <2>5 DEF Announcing
  <2>8. ASSUME NEW q \in Queries, q \notin missed, Announcing(q)' \cap overtaken' = {}
        PROVE  \/ Known(heard'[q], state'[q])
               \/ \E d \in Announcing(q)' : ~Skips(cstate'[d], outcome'[cresult'[d]])
    <3>1. \/ Known(heard[q], state[q])
          \/ \E d \in Announcing(q) : ~Skips(cstate[d], outcome[cresult[d]])
      BY <2>7, <2>8 DEF KnownInv
    <3>2. CASE state'[q] = state[q]
      <4>1. CASE Known(heard[q], state[q])
        BY <2>1, <3>2, <4>1
      <4>2. CASE \E d \in Announcing(q) : ~Skips(cstate[d], outcome[cresult[d]])
        <5>1. PICK d \in Announcing(q) : ~Skips(cstate[d], outcome[cresult[d]])
          BY <4>2
        <5>2. d \in Announcing(q)' /\ cstate'[d] = cstate[d] /\ cresult'[d] = cresult[d]
          BY <2>7, <5>1
        <5>3. ~Skips(cstate'[d], outcome'[cresult'[d]])
          BY <2>1, <5>1, <5>2
        <5> QED BY <5>2, <5>3
      <4> QED BY <3>1, <4>1, <4>2
    <3>3. CASE state'[q] # state[q]
      <4>1. q = p /\ cpc'[c] = "committed" /\ check'[c] = check[c]
            /\ cresult'[c] = cresult[c] /\ cstate'[c] = cstate[c]
            /\ (c \in overtaken' <=> c \in overtaken)
            /\ (c \notin overtaken => cstate[c] = state[p] /\ state'[p] = now)
        BY <2>3, <2>4, <3>3
      <4>2. c \in Announcing(q)' /\ c \notin overtaken
        BY <2>8, <4>1 DEF Announcing
      <4>3. CASE ~Skips(cstate[c], now)
        <5>1. ~Skips(cstate'[c], outcome'[cresult'[c]])
          BY <2>1, <4>1, <4>3
        <5> QED BY <4>2, <5>1
      <4>4. CASE Skips(cstate[c], now)
        <5>1. Announcing(q) = {}
          BY <2>7, <2>8, <3>3, <4>1
        <5>2. Known(heard[q], state[q]) /\ state[q] = "unknown" /\ state'[q] = "ok"
          BY <3>1, <4>1, <4>2, <4>4, <5>1 DEF Skips
        <5> QED BY <2>1, <5>2 DEF Known
      <4> QED BY <4>3, <4>4
    <3> QED BY <3>2, <3>3
  <2>9. KnownInv'
    BY <2>1, <2>6, <2>8 DEF KnownInv
  <2> QED BY <2>9
<1>9. ASSUME NEW c \in Checkers, Notify(c) \/ CheckerDies(c) PROVE KnownInv'
  <2> DEFINE p == check[c].query
             now == outcome[cresult[c]]
  <2>1. /\ cpc[c] # "idle" /\ p \in Queries /\ CheckerRests(c) /\ overtaken' = overtaken \ {c}
        /\ UNCHANGED <<outcome, state>>
    BY <1>0, <1>9 DEF Notify, CheckerDies
  <2>2. /\ \A d \in Checkers \ {c} : /\ cpc'[d] = cpc[d] /\ check'[d] = check[d]
                                     /\ cresult'[d] = cresult[d] /\ cstate'[d] = cstate[d]
                                     /\ d \in overtaken' <=> d \in overtaken
        /\ cpc'[c] = "idle"
    BY <2>1 DEF CheckerRests, AlertsTypeOK
  <2>3. \A q : Announcing(q)' = Announcing(q) \ {c}
    BY <2>2 DEF Announcing
  <2>4. \A q \in Queries \ {p} : heard'[q] = heard[q] /\ (q \in missed' <=> q \in missed)
    BY <1>9, <2>1 DEF Notify, CheckerDies, AlertsTypeOK
  <2>5. ASSUME NEW d \in Checkers, cpc'[d] = "committed", d \notin overtaken'
        PROVE  state'[check'[d].query] = outcome'[cresult'[d]]
    BY <2>1, <2>2, <2>5 DEF KnownInv
  \* For a query whose announcing checks but c stay, and of whom nobody was told.
  <2>6. ASSUME NEW q \in Queries, heard'[q] = heard[q], q \in missed => q \in missed',
               c \in Announcing(q) => c \notin overtaken /\ Skips(cstate[c], now)
        PROVE  \/ q \in missed'
               \/ Announcing(q)' \cap overtaken' # {}
               \/ Known(heard'[q], state'[q])
               \/ \E d \in Announcing(q)' : ~Skips(cstate'[d], outcome'[cresult'[d]])
    <3>1. CASE q \in missed \/ Known(heard[q], state[q])
      BY <2>1, <2>6, <3>1
    <3>2. CASE Announcing(q) \cap overtaken # {}
      <4>1. PICK d \in Announcing(q) : d \in overtaken
        BY <3>2
      <4>2. d # c
        BY <2>6, <4>1
      <4> QED BY <2>2, <2>3, <4>1, <4>2 DEF Announcing
    <3>3. CASE \E d \in Announcing(q) : ~Skips(cstate[d], outcome[cresult[d]])
      <4>1. PICK d \in Announcing(q) : ~Skips(cstate[d], outcome[cresult[d]])
        BY <3>3
      <4>2. d # c
        BY <2>6, <4>1
      <4>3. d \in Announcing(q)' /\ cstate'[d] = cstate[d] /\ cresult'[d] = cresult[d]
        BY <2>2, <2>3, <4>1, <4>2 DEF Announcing
      <4>4. ~Skips(cstate'[d], outcome'[cresult'[d]])
        BY <2>1, <4>1, <4>3
      <4> QED BY <4>3, <4>4
    <3> QED BY <3>1, <3>2, <3>3 DEF KnownInv
  <2>7. ASSUME NEW q \in Queries
        PROVE  \/ q \in missed'
               \/ Announcing(q)' \cap overtaken' # {}
               \/ Known(heard'[q], state'[q])
               \/ \E d \in Announcing(q)' : ~Skips(cstate'[d], outcome'[cresult'[d]])
    <3>1. CASE q # p
      BY <2>4, <2>6, <3>1 DEF Announcing
    <3>2. CASE q = p /\ CheckerDies(c)
      <4>1. CASE cpc[c] = "committed"
        BY <3>2, <4>1 DEF CheckerDies
      <4>2. CASE cpc[c] # "committed"
        BY <2>6, <3>2, <4>2 DEF CheckerDies, Announcing
      <4> QED BY <4>1, <4>2
    <3>3. CASE q = p /\ Notify(c) /\ c \in overtaken
      BY <3>3 DEF Notify
    <3>4. CASE q = p /\ Notify(c) /\ c \notin overtaken
      <4>1. cpc[c] = "committed" /\ state[p] = now
        BY <3>4 DEF Notify, KnownInv
      <4>2. \/ Skips(cstate[c], now) /\ UNCHANGED <<heard, missed>>
            \/ p \in missed'
            \/ heard' = [heard EXCEPT ![p] = now]
        BY <3>4 DEF Notify
      <4>3. CASE Skips(cstate[c], now) /\ UNCHANGED <<heard, missed>>
        BY <2>6, <3>4, <4>3
      <4>4. CASE heard' = [heard EXCEPT ![p] = now]
        BY <2>1, <3>4, <4>1, <4>4 DEF Known, AlertsTypeOK
      <4> QED BY <3>4, <4>2, <4>3, <4>4
    <3> QED BY <1>9, <3>1, <3>2, <3>3, <3>4
  <2> QED BY <2>5, <2>7 DEF KnownInv
<1> QED
  BY <1>1, <1>2, <1>3, <1>4, <1>5, <1>6, <1>7, <1>8, <1>9 DEF Next, ExecutionStep, CheckStep

\* When no notification is outstanding, subscribers were told of the state the
\* alert is in, unless they missed a change: with any number of workers, whose
\* commits and notifications come in any order.
THEOREM SubscribersKnowAlways == Spec => []SubscribersKnow
<1>1. TellInv /\ [Next]_vars => TellInv'
  BY KnownPreserved, SettledPreserved, HistoryPreserved, AlertInductive DEF TellInv, SettleInv
<1>2. TellInv => SubscribersKnow
  <2> SUFFICES ASSUME TellInv, NEW q \in Queries, q \notin missed,
                      \A c \in Checkers : check[c].query = q => cpc[c] # "committed"
               PROVE  heard[q] = state[q] \/ (heard[q] = "unknown" /\ state[q] = "ok")
    BY DEF SubscribersKnow
  <2>1. Announcing(q) = {}
    BY DEF Announcing
  <2> QED BY <2>1 DEF TellInv, KnownInv, Known
<1> QED BY <1>1, <1>2, TellInit, PTL DEF Spec

==============================================================================
