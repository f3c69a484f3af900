\* One worker process, as docker-compose starts it.
CONSTANTS
    Jobs = {j1}
    Workers = {w1}
    MaxAttempts = 2
    LongRuns = TRUE
    MaxCrashes = 2
    MaxLosses = 1
    MaxMessages = 2
    MaxRuns = 6
SPECIFICATION FairSpec
INVARIANTS TypeOK AttemptsAccounted
PROPERTIES PromiseKept
CHECK_DEADLOCK FALSE
