\* MemoryLedger: an append is one step
CONSTANTS
    Procs = {p1}
    Streams = {s1, s2}
    Tags = {t1, t2}
    MaxSeq = 3
    MaxLen = 2
    Atomic = TRUE
SPECIFICATION Spec
SYMMETRY Symmetry
INVARIANTS
    TotalOrder
    BoundaryReproducible
