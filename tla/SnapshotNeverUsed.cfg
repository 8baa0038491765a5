\* The shipped stores give a payload back without its hash
SPECIFICATION NeverUsedSpec
CONSTANTS
    p1 = p1
    NoSnapshot = NoSnapshot
    Procs = {p1}
    Release <- OneRelease
    KeepsHash = FALSE
    Threshold = 2
    Bootstrap = 2
    MaxSequence = 6
    InitialLogs <- MCInitialLogs
    StreamEvents <- MCEventMenu
    HeadThreshold = 2
    MaxStream = 6
    EventTypes = {"A"}
    SchemaEvents <- MCSchemaEvents
    HandWritten <- MCPolicies
    MaxLedger = 3
    MaxReplays = 2
    Streams = {"a", "b"}
    CommitMenu <- MCCommits
    Reducers <- MCReducers
    MaxEntries = 2
    MaxReducers = 2
    MaxResults = 2
INVARIANT OnlyNewEvents
