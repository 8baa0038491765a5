SPECIFICATION Spec
CONSTANTS
    p1 = p1
    p2 = p2
    Absent = Absent
    Rest = Rest
    Confidences = {55, 80}
    Policies <- MCPolicies
    Domains = {"ARCHITECTURE"}
    Wordings = {"x", "y"}
    MaxEvidence = 3
    MaxReports = 2
    MaxTime = 1
    Memories <- MCScores
    ObjectMenu <- MCObjectMenu
    OwnProject = "P"
    Query = {"db"}
    Profiles = {"KNOWLEDGE_REVIEW", "FAILURE_ANALYSIS"}
    Limits = {1, 3}
    SourceLimit = 2
    MaxRecorded = 2
    MaxWrites = 1
    Declared <- MCProjections
    LogMenu <- MCSessionEvents
    KnowledgeIds = {"k"}
    MaxLogged = 1
    MaxPlans = 2
    MaxVersion = 2
    Nothing = Nothing
    KnowledgeMenu <- MCPremises
    SupportMenu <- MCSupports
    ConflictMenu <- MCConflicts
    Opposed <- MCOpposed
    Suppressed <- MCSuppressed
    GatePolicies <- MCGatePolicies
    MaxInputs = 6
INVARIANTS
    SynthesisSound
    ReasoningSound
    QueriesExact
    
    
    PromotionSound
    
CHECK_DEADLOCK FALSE
