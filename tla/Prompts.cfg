\* Three administrators at once, three versions and one broken transaction.  All of
\* the versions may be there and edited for ever, so nothing stops.
CONSTANTS
    Admins = {a1, a2, a3}
    MaxVersions = 3
    MaxFaults = 1
SPECIFICATION Spec
INVARIANTS ConflictsOverlap
PROPERTIES OneStaysActive
SYMMETRY AdminSymmetry
