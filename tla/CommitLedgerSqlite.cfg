\* Two processes on one SQLite file
CONSTANTS
    Procs = {p1, p2}
    Streams = {s1, s2}
    Tags = {t1}
    MaxSeq = 2
    MaxLen = 2
    Atomic = FALSE
SPECIFICATION Spec
SYMMETRY Symmetry
INVARIANTS
    StreamContiguous
    CommitAtomic
    ReceiptsTrue
