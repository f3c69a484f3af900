\* Two jobs, the table reloaded at any time; 1500 ms to 2000 ms by 500 ms.
CONSTANTS
    Jobs = {j1, j2}
    Reloads = TRUE
    Interval = 3
    MaxInterval = 4
SPECIFICATION FairSpec
INVARIANTS ClientTypeOK ShownIsTrue
PROPERTIES PollingEnds PolledIsShown
CHECK_DEADLOCK FALSE
