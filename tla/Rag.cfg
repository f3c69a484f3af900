\* Three indexings of two jobs and every text of up to five characters, in windows of
\* three that overlap by one.  Each indexing is made once: they may all be over.
CONSTANTS
    Indexings = {i1, i2, i3}
    MaxJobs = 2
    MaxLength = 5
    MinSize = 2
    ChunkSize = 3
    Overlap = 1
    TopK = 2
SPECIFICATION Spec
INVARIANTS MixedOverlapped IndexedWhole
SYMMETRY IndexingSymmetry
CHECK_DEADLOCK FALSE
