\* Two requests at once, three logins and refreshes, every failure.
CONSTANTS
    Requests = {q1, q2}
    MaxOpened = 3
    Failures = TRUE
SPECIFICATION Spec
INVARIANTS TypeOK ChainsWhole DeniedIsRetired AnswersAreTrue LiveAccounted AlarmHasCause StaysLoggedIn
SYMMETRY RequestSymmetry
