\* Two processes on one memory.md
SPECIFICATION FilesSpec
CONSTANTS
    t1 = t1
    m1 = m1
    m2 = m2
    proc1 = proc1
    proc2 = proc2
    Threads = {t1, t2}
    Processes = {proc1}
    ProcessOf <- OneProcess
    Memories = {m1, m2}
    Emissions <- MCEmissions
    None = None
    Markdown = TRUE
    Faults = FALSE
    MaxOps = 3
    MemoryMenu <- MCMemories
    QueryMenu <- MCQueries
    Availability <- MCAvailability
    Limits = {1, 2}
    CANDIDATE_LIMIT = 2
    MaxWrites = 3
    MaxLog = 1
INVARIANT NothingLostInFile
CHECK_DEADLOCK FALSE
