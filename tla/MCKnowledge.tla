----------------------------- MODULE MCKnowledge -----------------------------
(***************************************************************************)
(* The knowledge layer checked in one run, a behaviour to a component as in*)
(* MCDerived.  Promotion, context packages, plans and reasoning have their *)
(* own variables, which stay as they were in the behaviours of the others; *)
(* v1 to v6 are the variables of the other component that scenario names,  *)
(* the ones it does not need are at Rest.                                  *)
(***************************************************************************)
EXTENDS KnowledgePromotion, ContextPackage, ProjectionPlan, Reasoning

CONSTANTS p1, p2, Absent, Rest

VARIABLES scenario, v1, v2, v3, v4, v5, v6

others == <<v1, v2, v3, v4, v5, v6>>
vars == <<scenario, promotionVars, packageVars, planVars, reasoningVars, others>>

-----------------------------------------------------------------------------
Memory(id, type, importance, words, spelling) ==
    [id |-> id, project |-> "P", type |-> type, importance |-> importance, title |-> id,
     content |-> [words |-> words, spelling |-> spelling], tags |-> {}, events |-> {"event of " \o id},
     confidence |-> 60]

\* b is similar to a and to c, which are not similar to each other
MCMemories ==
    {Memory("a", "ARCHITECTURE", "critical", {"must", "use", "db"}, 1),
     Memory("a", "ARCHITECTURE", "critical", {"must", "use", "db"}, 2),
     Memory("b", "ARCHITECTURE", "high", {"use", "db", "x"}, 1),
     Memory("c", "ARCHITECTURE", "high", {"x", "y", "db"}, 1)}

Synthesis == INSTANCE KnowledgeSynthesis WITH
        backend <- v1, corpus <- v2, table <- v3, command <- v4, reported <- v5, syntheses <- v6,
        ProjectOf <- (p1 :> "P" @@ p2 :> "P"), MemoryMenu <- MCMemories, Processes <- {p1, p2},
        Backends <- {"sqlite", "markdown"}, MaxSyntheses <- 2

\* the other kinds of memory, one command: two lessons and two failures alike,
\* a decision and its rationale
MCRecords ==
    {Memory("l", "LESSON_LEARNED", "high", {"use", "db"}, 1), Memory("k", "LESSON_LEARNED", "low", {"use", "db", "x"}, 1),
     Memory("f", "FAILURE", "high", {"db", "lost"}, 1), Memory("g", "FAILURE", "high", {"db", "lost", "y"}, 1),
     Memory("d", "DECISION", "critical", {"use", "db"}, 1), Memory("r", "DECISION_RATIONALE", "high", {"db", "fast"}, 1)}

Records == INSTANCE KnowledgeSynthesis WITH
        backend <- v1, corpus <- v2, table <- v3, command <- v4, reported <- v5, syntheses <- v6,
        ProjectOf <- (p1 :> "P"), MemoryMenu <- MCRecords, Processes <- {p1},
        Backends <- {"sqlite"}, MaxSyntheses <- 1

Edge(source, target, relation, confidence) ==
    [source |-> source, target |-> target, relation |-> relation, confidence |-> confidence]

MCEdges == {Edge(1, 2, "DERIVED_FROM", 100), Edge(1, 3, "DERIVED_FROM", 50), Edge(2, 4, "DERIVED_FROM", 25),
            Edge(3, 4, "DERIVED_FROM", 100), Edge(4, 1, "DERIVED_FROM", 50), Edge(2, 1, "DERIVED_FROM", 100),
            Edge(1, 4, "SUPPORTS", 20), Edge(3, 2, "SUPPORTS", 100)}

Queries == INSTANCE GraphQueries WITH
        edges <- v1, Nodes <- 1 .. 4, EdgeMenu <- MCEdges, MaxEdges <- 4, MAX_PATHS <- 10

Object(id, type, words, sources, contradicting, confidence, config) ==
    [id |-> id, version |-> 1, type |-> type, domain |-> "D", title |-> {"title", id}, tags |-> {}, words |-> words,
     sources |-> sources, contradicting |-> contradicting, confidence |-> confidence, config |-> config,
     lifecycle |-> "ACTIVE"]

MCObjects ==
    {Object("a", "LESSON", {"use", "sqlite"}, {1, 2}, {}, 75, "pool" :> 1),
     Object("b", "LESSON", {"avoid", "sqlite", "not"}, {2}, {}, 50, <<>>),
     Object("c", "PROJECT_INVARIANT", {"use", "postgres"}, {3}, {4}, 90, "pool" :> 2),
     Object("d", "FAILURE_PATTERN", {"use", "sqlite", "never"}, {3}, {}, 90, <<>>)}

Views == INSTANCE KnowledgeViews WITH
        knowledge <- v1, KnowledgeMenu <- MCObjects, MaxObjects <- 4,
        Suppressed <- {<<"exclusive_config", {"a", "c"}, "pool">>}

Held(id, project, type, title, content, transferability) ==
    [id |-> id, project |-> project, type |-> type, title |-> title, content |-> content,
     transferability |-> transferability, confidence |-> 90]

\* the chain 1 - 2 - 3 of shared title words, with a conflict between 1 and 2
MCHoldings ==
    {Held("a", 1, "LESSON", {"db"}, {"use", "x"}, "REUSABLE"),
     Held("b", 2, "LESSON", {"db"}, {"use", "x", "y"}, "ORGANIZATIONAL"),
     Held("c", 3, "PROJECT_INVARIANT", {"db", "ui"}, {"z"}, "ORGANIZATIONAL")}

Org == INSTANCE Organization WITH
        registry <- v1, stores <- v2, recent <- v3, current <- v4,
        NoProject <- Absent, Projects <- 1 .. 3, MaxStored <- 3, KnowledgeMenu <- MCHoldings

Projection(kind, dependencies, priority, input, source, place) ==
    [kind |-> kind, dependencies |-> dependencies, priority |-> priority, input |-> input, source |-> source,
     place |-> place]

MCProjections ==
    "Session" :> Projection("base", {}, 1, "events", "events", 4)
    @@ "Continuation" :> Projection("derived", {"Session"}, 10, "none", "events", 1)
    @@ "Knowledge" :> Projection("base", {}, 20, "knowledge", "knowledge", 3)
    @@ "Graph" :> Projection("derived", {"Knowledge", "Continuation"}, 5, "none", "knowledge", 2)

MCSessionEvents ==
    {[session |-> "s", alias |-> Nothing, canonical |-> Nothing], [session |-> "t", alias |-> "x", canonical |-> "y"]}

\* what the proofs assume of the declared projections holds of these
ASSUME DeclaredAssumption == PlanAssumption

Policy(min_confidence, min_supporting, max_contradicting, no_contradictions) ==
    [min_confidence |-> min_confidence, min_supporting |-> min_supporting,
     max_contradicting |-> max_contradicting, no_contradictions |-> no_contradictions]

MCPolicies == {Policy(60, 2, 0, TRUE), Policy(50, 1, 1, FALSE)}

\* what the proofs assume of the policies and confidences holds of these
ASSUME PoliciesAssumption == PromotionAssumption

Stored(id, project, transferability, lifecycle) ==
    [id |-> id, project |-> project, type |-> "LESSON", transferability |-> transferability,
     lifecycle |-> lifecycle, words |-> {"db"}, confidence |-> 80, evidence |-> 2, recency |-> 90,
     importance |-> "high", supporting |-> 2, contradicting |-> 1]

MCScores == "m" :> [score |-> 60] @@ "n" :> [score |-> 700]
MCObjectMenu ==
    {Stored("a", "P", "REUSABLE", "ACTIVE"), Stored("b", "Q", "REUSABLE", "ACTIVE"),
     Stored("c", "P", "LOCAL_ONLY", "STALE")}

\* what the proofs assume of memories, objects and limits holds of these
ASSUME SourcesAssumption == PackageAssumption

Premise(id, project, title, supporting, contradicting, age, confidence) ==
    [id |-> id, project |-> project, title |-> title, supporting |-> supporting, contradicting |-> contradicting,
     age |-> age, confidence |-> confidence]

Decisions(minimum_confidence, block_if_contradicted, max_decisions) ==
    [minimum_confidence |-> minimum_confidence, block_if_contradicted |-> block_if_contradicted,
     max_decisions |-> max_decisions]

\* confidences in hundred-thousandths
MCPremises ==
    {Premise(1, 1, 1, {101}, {}, 0, 95000), Premise(2, 1, 2, {101, 102}, {}, 20, 80000),
     Premise(3, 2, 1, {102}, {103}, 0, 60000), Premise(4, 2, 3, {}, {}, 0, 70000),
     Premise(5, 1, 4, {104, 105, 106}, {}, 0, 90000)}

MCSupports == {<<1, 2>>, <<5, 2>>, <<2, 4>>, <<4, 1>>, <<3, 1>>}
MCConflicts == {<<1, 2>>, <<2, 3>>}
MCOpposed == {{1, 2}, {2, 4}}
MCSuppressed == {{2, 4}}
MCGatePolicies == {Decisions(60000, TRUE, 0), Decisions(30000, FALSE, 1)}

\* what the proofs assume of premises and gate policies holds of these
ASSUME PremisesAssumption == ReasoningAssumption

-----------------------------------------------------------------------------
AtRest2to6 == v2 = Rest /\ v3 = Rest /\ v4 = Rest /\ v5 = Rest /\ v6 = Rest
AtRest5to6 == v5 = Rest /\ v6 = Rest

\* one candidate and empty stores where they are not what the behaviour is about
PromotionAtRest == PromotionInit /\ candidate = NewCandidate(80, "ARCHITECTURE", "x", 0)
PackageAtRest == CInit /\ remembered = {} /\ objects = {} /\ eventCount = 0

OtherInit ==
    \/ scenario = "synthesis" /\ Synthesis!KInit
    \/ scenario = "records" /\ Records!KInit
    \/ scenario = "queries" /\ Queries!GraphInit /\ AtRest2to6
    \/ scenario = "views" /\ Views!ViewInit /\ AtRest2to6
    \/ scenario = "organization" /\ Org!OInit /\ AtRest5to6

Init ==
    /\ PlanInit /\ RInit
    /\ \/ OtherInit /\ PromotionAtRest /\ PackageAtRest
       \/ scenario = "promotion" /\ PromotionInit /\ PackageAtRest /\ v1 = Rest /\ AtRest2to6
       \/ scenario = "package" /\ CInit /\ PromotionAtRest /\ v1 = Rest /\ AtRest2to6
       \/ scenario \in {"plan", "reasoning"} /\ PromotionAtRest /\ PackageAtRest /\ v1 = Rest /\ AtRest2to6

Synthesize == scenario = "synthesis" /\ Synthesis!KnowledgeNext
Recorded == scenario = "records" /\ Records!KnowledgeNext
QueryGraph == scenario = "queries" /\ Queries!GraphNext /\ UNCHANGED <<v2, v3, v4, v5, v6>>
View == scenario = "views" /\ Views!ViewNext /\ UNCHANGED <<v2, v3, v4, v5, v6>>
Organize == scenario = "organization" /\ Org!OrgNext /\ UNCHANGED <<v5, v6>>

OtherNext == Synthesize \/ Recorded \/ QueryGraph \/ View \/ Organize

Next ==
    \/ OtherNext /\ UNCHANGED <<scenario, promotionVars, packageVars, planVars, reasoningVars>>
    \/ scenario = "promotion" /\ PromotionNext /\ UNCHANGED <<scenario, packageVars, planVars, reasoningVars, others>>
    \/ scenario = "package" /\ ContextNext /\ UNCHANGED <<scenario, promotionVars, planVars, reasoningVars, others>>
    \/ scenario = "plan" /\ PlanNext /\ UNCHANGED <<scenario, promotionVars, packageVars, reasoningVars, others>>
    \/ scenario = "reasoning" /\ ReasonNext /\ UNCHANGED <<scenario, promotionVars, packageVars, planVars, others>>

Spec == Init /\ [][Next]_vars

-----------------------------------------------------------------------------
(* Properties, each of its scenario; PromotionSound, PackageSound, PlanSound and *)
(* ReasoningSound are those of their components                                  *)

\* What commands on one database report stays, a memory counts once, and what is
\* marked stale or superseded is so for a reason (store.py:120-166,
\* synthesizer.py:486-508, 576-606).
SynthesisSound ==
    /\ scenario = "synthesis" =>
           Synthesis!SynthesisSticks /\ Synthesis!EachMemoryCountedOnce /\ Synthesis!ReplacementsTrue
    /\ scenario = "records" =>
           Records!SynthesisSticks /\ Records!EachMemoryCountedOnce /\ Records!ReplacementsTrue

\* Neighbourhoods, paths and cycles are the ones of the graph, whatever its
\* shape (projections/graph.py:117-437).
QueriesExact ==
    scenario = "queries" => Queries!NearestExact /\ Queries!PathsExact /\ Queries!CyclesExact

\* Relations and findings do not depend on the store's order, and nothing
\* contested is presented as validated; across projects, clusters are the
\* components of their common words, and what needs attention is acted on
\* (relations.py, contradiction.py, knowledge.py, organization/).
ViewsSound ==
    /\ scenario = "views" => Views!ViewsOrderFree /\ Views!NoContestedFact
    /\ scenario = "organization" => Org!ClustersExact /\ Org!AttentionActedOn
=============================================================================
