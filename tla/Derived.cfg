SPECIFICATION Spec
CONSTANTS
    t1 = t1
    t2 = t2
    t3 = t3
    plugin = plugin
    d1 = d1
    d2 = d2
    Unset = Unset
    Rest = Rest
    Targets = {t1, t2}
    Quoted <- MCQuoted
    Artifacts = {1}
    Threshold = 40
    EnabledReasons = {"OUTCOME_MISMATCH", "LOW_CONFIDENCE", "PERFORMANCE_DEGRADATION"}
    MaxRecords = 3
    MaxHistory = 3
    Projections = {"k", "r", "g"}
    DependencySets <- MCDependencies
    Stored = {"k"}
    Strict = {"k"}
    MaxLog = 2
    MaxDepth = 4
    EventMenu <- MCGovernanceEvents
    MaxStream = 4
    MaxShows = 2
    Nodes = {1, 2}
    Texts = {"a", "b"}
    Empty = ""
    Providers = {"p", "q"}
    MaxEvents = 5
INVARIANTS
    ReflectionSound
    
    
    
    ContinuationAgrees
    
PROPERTIES
    EventuallySettled
    
CHECK_DEADLOCK FALSE
