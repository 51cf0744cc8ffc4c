\* A query and its fork, two old results and an execution, an edit or a move to
\* another data source, and clean-ups that delete two results.
CONSTANTS
    q1 = q1  q3 = q3
    t1 = t1  t3 = t3  t0 = t0
    x1 = x1  x2 = x2  x3 = x3
    Queries = {q1, q3}
    Saved = {q1}
    Texts = {t1, t3, t0}
    Ours = {t1}
    Orphan = t0
    NoText = NoText
    Executions = {x1, x2, x3}
    Stored <- OldResults
    NoResult = NoResult
    CleanupCount = 2
    MaxEdits = 1
SPECIFICATION FairDataSourcesSpec
INVARIANTS LatestExists DeletedLeavesNothing
PROPERTY UnusedResultsGo
CHECK_DEADLOCK FALSE
