\* Two jobs watched one after the other, without a reload.
CONSTANTS
    Jobs = {j1, j2}
    Reloads = FALSE
    Interval = 3
    MaxInterval = 4
SPECIFICATION FairSpec
PROPERTIES DecidedIsShown
CHECK_DEADLOCK FALSE
