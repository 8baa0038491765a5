\* Two threads on memory.md, two processes on SQLite, one search under writes
SPECIFICATION MCSpec
CONSTANTS
    t1 = t1
    m1 = m1
    m2 = m2
    proc1 = proc1
    proc2 = proc2
    Threads = {t1, t2}
    Processes = {proc1}
    ProcessOf <- OneProcess
    Memories = {m1, m2}
    Emissions <- MCEmissions
    None = None
    Markdown = TRUE
    Faults = FALSE
    MaxOps = 3
    MemoryMenu <- MCMemories
    QueryMenu <- MCQueries
    Availability <- MCAvailability
    Limits = {1, 2}
    CANDIDATE_LIMIT = 2
    MaxWrites = 3
    MaxLog = 1
INVARIANTS
    NothingLost
    SupersessionLogged
    
    SearchSound
PROPERTIES
    EventuallyRemembered
CHECK_DEADLOCK FALSE
