CONSTANTS
    r1 = r1  r2 = r2  r3 = r3
    j1 = j1  j2 = j2  j3 = j3
    w1 = w1  w2 = w2
    h1 = h1  h2 = h2
    NoJob = NoJob  NoHash = NoHash
    Requests = {r1}
    HashOf <- SameQuery
    Hashes = {h1}
    Jobs = {j1, j2}
    Workers = {w1, w2}
    MaxTries = 2
    TimeLimited = TRUE
    MaxCancels = 1
    MaxCrashes = 1
SPECIFICATION PollingSpec
INVARIANTS OneRunner ResultIsStored
PROPERTIES StaleLockCleared EveryPollEnds EveryJobSettles EveryStartedJobEnds ImplementsLifecycle NoAnswerTakenBack
CHECK_DEADLOCK FALSE
