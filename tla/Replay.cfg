\* Two processes, one process, the reducers, schema policies and the kernel
SPECIFICATION ReplaySpec
CONSTANTS
    p1 = p1
    NoSnapshot = NoSnapshot
    Procs = {p1, p2}
    Release <- TwoReleases
    KeepsHash = TRUE
    Threshold = 1
    Bootstrap = 1
    MaxSequence = 3
    InitialLogs <- MCInitialLogs
    StreamEvents <- MCEventMenu
    HeadThreshold = 2
    MaxStream = 6
    EventTypes = {"A"}
    SchemaEvents <- MCSchemaEvents
    HandWritten <- MCPolicies
    MaxLedger = 3
    MaxReplays = 2
    Streams = {"a", "b"}
    CommitMenu <- MCCommits
    Reducers <- MCReducers
    MaxEntries = 2
    MaxReducers = 2
    MaxResults = 2
INVARIANTS
    RacesOnlyOmit
    
    SplitLaw
    
    
    KernelSound
