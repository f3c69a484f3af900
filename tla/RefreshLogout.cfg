\* Two requests at once, nothing fails.
CONSTANTS
    Requests = {q1, q2}
    MaxOpened = 2
    Failures = FALSE
SPECIFICATION Spec
INVARIANT AlarmMeansRotated
SYMMETRY RequestSymmetry
