\* Two users, two days and two events, rebuilt three times by two workers.  Each rebuild is made
\* once: they may all be over.
CONSTANTS
    Users = {u1, u2}
    Rebuilds = {r1, r2, r3}
    Workers = 2
    MaxDays = 2
    MaxEvents = 2
SPECIFICATION Spec
INVARIANTS RollupsAddUp
SYMMETRY StatsSymmetry
CHECK_DEADLOCK FALSE
