\* Two documents, two jobs whose requests may overlap, two workers, one fault.
CONSTANTS
    NumDocs = 2
    Jobs = {j1, j2}
    Workers = {w1, w2}
    MaxFaults = 1
SPECIFICATION Spec
INVARIANTS TypeOK SucceededIsGone FilesAccounted TwoActiveOverlapped ActiveIsDriven AccountStaysClosed
CONSTRAINT OneUploadAtATime
SYMMETRY NameSymmetry
CHECK_DEADLOCK FALSE
