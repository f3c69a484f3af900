\* Two worker processes, as the scaling notes plan.
CONSTANTS
    Jobs = {j1}
    Workers = {w1, w2}
    MaxAttempts = 2
    LongRuns = TRUE
    MaxCrashes = 1
    MaxLosses = 0
    MaxMessages = 2
    MaxRuns = 3
SPECIFICATION Spec
INVARIANTS SucceededHasResults PurgeIsComplete
CHECK_DEADLOCK FALSE
