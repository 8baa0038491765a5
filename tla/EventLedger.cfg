SPECIFICATION LiveSpec
CONSTANTS
    p1 = p1
    p2 = p2
    p3 = p3
    w1 = w1
    w2 = w2
    NoWriter = NoWriter
    Projects = {p1, p2, p3}
    Writers = {w1, w2}
    LockKeys <- PostgresKeys
    LockOf <- PostgresLockOf
    SerialSurvives = TRUE
    MaxSequence = 3
INVARIANTS
    VersionsContiguous
    NoMissedEvent
PROPERTIES
    ImplementsStream
    
