\* The two workers of the default queue, two executions, an edit, a dead horse.
CONSTANTS
    q1 = q1  q2 = q2
    t1 = t1  t2 = t2
    x1 = x1  x2 = x2  x3 = x3
    c1 = c1  c2 = c2
    Queries = {q1}
    Saved = {q1}
    Texts = {t1, t2}
    NoText = NoText
    Executions = {x1, x2}
    Stored <- NothingStored
    NoResult = NoResult
    CleanupCount = 1
    MaxEdits = 1
    Checkers = {c1, c2}
    NoQuery = NoQuery
    Rearms = TRUE
    MaxDeaths = 1
SYMMETRY Symmetric
SPECIFICATION Spec
INVARIANTS LatestWasItsOwn AlertsSettle CheckSeesItsResult SubscribersKnow
CHECK_DEADLOCK FALSE
