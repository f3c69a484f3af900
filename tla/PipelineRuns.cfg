\* Two worker processes; no run outlasts its in-progress key.
CONSTANTS
    Runs = {r1}
    Workers = {w1, w2}
    LongRuns = FALSE
    MaxCrashes = 2
SPECIFICATION FairSpec
INVARIANTS TypeOK SucceededIsWhole PriorStagesKept AnalysisOfOwnText CallsAccounted DefaultsOnlyAfterCrash UndecidedIsCarried
PROPERTIES SucceededStays RunDecided
CHECK_DEADLOCK FALSE
