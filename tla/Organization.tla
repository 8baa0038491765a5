---------------------------- MODULE Organization ----------------------------
(***************************************************************************)
(* What "rationalevault org" derives from the knowledge of all registered  *)
(* projects: the cross-project view (projections/cross_project.py), the    *)
(* organization projection, its graph, the recent activity, the            *)
(* continuation and the recommendations (organization/).                   *)
(*                                                                         *)
(* Projects are numbers, so that sorted() has its meaning.  A title and a  *)
(* content are sets of words.  Ratios are pairs or whole percents.         *)
(***************************************************************************)
EXTENDS Integers, Sequences, FiniteSets, SequencesExt, FiniteSetsExt

CONSTANTS
    Projects,       \* the projects that may be registered
    KnowledgeMenu,  \* the objects a project may store
    NoProject,      \* the command runs outside every registered project
    MaxStored       \* bound on the objects stored in all

VARIABLES
    registry,   \* the registered projects, in the order of registry.yaml
    stores,     \* per project: its knowledge objects
    recent,     \* per project: the ids of the objects of the activity window
    current     \* the project of the working directory

orgVars == <<registry, stores, recent, current>>

-----------------------------------------------------------------------------
(* projections/cross_project.py: what one project sees of the others *)

is_transferable(k) == k.transferability \in {"REUSABLE", "ORGANIZATIONAL"}

\* _score_relevance, in percent; an empty query is neutral
ScoreRelevance(k, query) ==
    LET matched == query \cap (k.title \cup k.content)
        score == (100 * Cardinality(matched)) \div Cardinality(query)
    IN IF query = {} THEN 50
       ELSE IF matched = {} THEN 0
       ELSE Min({100, IF query \subseteq k.title THEN score + 30 ELSE score})

\* _build_reasons: never empty
Reasons(k, relevance) ==
    (IF k.transferability = "ORGANIZATIONAL" THEN {"organizational_knowledge"} ELSE {"reusable_knowledge"})
    \cup (IF relevance >= 80 THEN {"high_query_relevance"}
          ELSE IF relevance >= 50 THEN {"moderate_query_relevance"} ELSE {})
    \cup (IF k.confidence >= 90 THEN {"high_confidence"} ELSE {})

Terms(ks) == UNION {k.title : k \in ks}

\* _compute_related_projects, as the pair of a fraction
Related(p, q) ==
    IF stores[p] = {} \/ Terms(stores[q]) = {} THEN <<0, 1>>
    ELSE <<Cardinality(Terms(stores[p]) \cap Terms(stores[q])), Cardinality(Terms(stores[p]) \cup Terms(stores[q]))>>

Holds(p, id) == \E k \in stores[p] : k.id = id
Object(p, id) == CHOOSE k \in stores[p] : k.id = id

\* provenance_map: the last project of the registry that offers the object
Provenance(p, id) ==
    LET Offers(q) == q # p /\ Holds(q, id) /\ is_transferable(Object(q, id))
    IN registry[SelectLastInSeq(registry, Offers)]

CrossProject(p) ==
    LET others == ToSet(registry) \ {p}
        Offered(q) == {k \in stores[q] : is_transferable(k)}
        all == SumFunction([q \in others |-> Cardinality(stores[q])])
        offered == SumFunction([q \in others |-> Cardinality(Offered(q))])
    IN [transferable |-> UNION {{[id |-> k.id, source |-> q, reasons |-> Reasons(k, ScoreRelevance(k, {}))] :
                                    k \in Offered(q)} : q \in others},
        related |-> [q \in others |-> Related(p, q)],
        health |-> [projects |-> Cardinality(others), offered |-> offered,
                    coverage |-> IF all = 0 THEN <<0, 1>> ELSE <<offered, all>>]]

-----------------------------------------------------------------------------
(* organization/service.py and organization/projection.py *)

\* build_org_state_from_registry leaves out the project it is run in
ProjectIds == ToSet(registry) \ {current}

VisibleIds(p) == {k.id : k \in CrossProject(p).transferable}

\* current_projects are those that see the object and those that hold it; the
\* last holder of the registry names the origin
Lineage(id) ==
    LET holder == SelectLastInSeq(registry, LAMBDA q : Holds(q, id))
        origin == Object(registry[holder], id).project
        Path(path, p) == IF p \notin ProjectIds \/ id \notin VisibleIds(p) \/ Last(path) = Provenance(p, id)
                         THEN path ELSE Append(path, Provenance(p, id))
    IN [origin |-> origin,
        projects |-> {p \in ProjectIds : id \in VisibleIds(p)}
                     \cup {k.source : k \in {k \in UNION {CrossProject(p).transferable : p \in ProjectIds} : k.id = id}},
        path |-> FoldLeft(Path, <<origin>>, registry)]

\* _compute_active_lineages: a function of the ids seen by any listed project
ActiveLineages(ids) == [id \in ids |-> Lineage(id)]

\* _detect_shared_knowledge: "present in" are the projects that see it
SharedKnowledge(ids) ==
    {s \in {[id |-> id, projects |-> {p \in ProjectIds : id \in VisibleIds(p)}] : id \in ids} :
        Cardinality(s.projects) > 1}

LexicallySimilar(a, b) == 100 * Cardinality(a \cap b) > 30 * Cardinality(a \cup b)

CrossProjectConflicts ==
    {c \in UNION {UNION {{[ids |-> {k.id, l.id}, projects |-> {p, q}, objects |-> <<k, l>>] :
            k \in stores[p], l \in stores[q]} : q \in {q \in ToSet(registry) : p < q}} : p \in ToSet(registry)} :
        LET k == c.objects[1]
            l == c.objects[2]
        IN /\ k.type = l.type /\ k.title = l.title
           /\ k.content # l.content /\ LexicallySimilar(k.content, l.content)}

\* _find_spanning_invariants: by title and type, not by id
SpanningInvariants ==
    LET Binding(p) == {k \in stores[p] : k.type = "PROJECT_INVARIANT" \/ k.transferability = "ORGANIZATIONAL"}
        Key(k) == <<k.title, k.type>>
        keys == UNION {{Key(k) : k \in Binding(p)} : p \in ToSet(registry)}
    IN {s \in {[key |-> key, projects |-> {p \in ToSet(registry) : \E k \in Binding(p) : Key(k) = key}] : key \in keys} :
            Cardinality(s.projects) > 1}

SharesTerm_Later(p, q) == p < q /\ Terms(stores[p]) \cap Terms(stores[q]) # {}

\* adj of _cluster_projects
SharesTerm(p, q) == p # q /\ Terms(stores[p]) \cap Terms(stores[q]) # {}

\* breadth first from one project: a round adds every neighbour
Component(start, unvisited) ==
    LET Round(reached, i) == reached \cup {q \in unvisited : \E p \in reached : SharesTerm(p, q)}
    IN FoldLeftDomain(Round, {start}, registry)

ProjectClusters ==
    LET Visit(clusters, p) == IF p \in UNION clusters THEN clusters
                              ELSE clusters \cup {Component(p, ToSet(registry) \ UNION clusters)}
    IN FoldLeft(Visit, {}, SetToSortSeq(ToSet(registry), LAMBDA p, q : p < q))

Telemetry ==
    LET Count(kinds) == SumFunction([p \in ToSet(registry) |-> Cardinality({k \in stores[p] : k.transferability \in kinds})])
    IN [local |-> Count({"LOCAL_ONLY"}), reusable |-> Count({"REUSABLE"}), organizational |-> Count({"ORGANIZATIONAL"})]

\* OrganizationProjection.project
OrganizationState ==
    LET ids == UNION {VisibleIds(p) : p \in ProjectIds}
    IN [ids |-> ProjectIds, lineages |-> ActiveLineages(ids), shared |-> SharedKnowledge(ids),
        conflicts |-> CrossProjectConflicts, invariants |-> SpanningInvariants, clusters |-> ProjectClusters]

\* the parts of overall, in percent
OrganizationHealth(org) ==
    LET n == Cardinality(org.ids)
        transferable == Telemetry.reusable + Telemetry.organizational
    IN (IF n > 0 THEN {<<"projects", Min({100, 20 * n})>>} ELSE {})
       \cup (IF transferable > 0
             THEN {<<"adoption", Min({100, (100 * Cardinality(org.shared)) \div transferable})>>} ELSE {})
       \cup {<<"conflicts", Max({0, 100 - 10 * Cardinality(org.conflicts)})>>,
             <<"invariants", Min({100, (100 * Cardinality(org.invariants)) \div Max({1, n})})>>}

-----------------------------------------------------------------------------
(* organization/graph.py: edges carry relation and weight *)

Edge(source, target, relation, weight) ==
    [source |-> source, target |-> target, relation |-> relation, weight |-> weight]

ProjectPairs == {{p, q} : p, q \in ToSet(registry)} \ {{p} : p \in ToSet(registry)}

\* one edge each way between two projects
BothWays(pairs, relation, Weight(_)) ==
    UNION {{Edge(x[1], x[2], relation, Weight(pair)) : x \in {y \in pair \X pair : y[1] # y[2]}} : pair \in pairs}

TransferEdges(L) ==
    LET Moved(p, q) == {id \in DOMAIN L : L[id].origin = p /\ q \in L[id].projects}
    IN {Edge(x[1], x[2], "TRANSFERRED_TO", Cardinality(Moved(x[1], x[2]))) :
            x \in {y \in ToSet(registry) \X ToSet(registry) : y[1] # y[2] /\ Moved(y[1], y[2]) # {}}}

ClusterEdges(org) ==
    LET Known(p, id) == org.lineages[id].origin = p \/ p \in org.lineages[id].projects
        Common(pair) == Cardinality({id \in DOMAIN org.lineages : \A p \in pair : Known(p, id)})
    IN BothWays({pair \in ProjectPairs : \E c \in org.clusters : pair \subseteq c}, "IN_CLUSTER", Common)

SharedEdges(org) ==
    LET Count(pair) == Cardinality({s \in org.shared : pair \subseteq s.projects})
    IN BothWays({pair \in ProjectPairs : Count(pair) > 0}, "SHARED_BY", Count)

ConflictEdges_OneWay(org) ==
    {Edge(Min(c.projects), Max(c.projects), "CONFLICTS_WITH", 1) : c \in org.conflicts}

ConflictEdges(org) ==
    LET Count(pair) == Cardinality({c \in org.conflicts : c.projects = pair})
    IN BothWays({pair \in ProjectPairs : Count(pair) > 0}, "CONFLICTS_WITH", Count)

\* the last line of _build_edges drops every edge of the project left out
OrganizationEdges(org) ==
    {e \in TransferEdges(org.lineages) \cup SharedEdges(org) \cup ConflictEdges(org) \cup ClusterEdges(org) :
        e.source \in org.ids /\ e.target \in org.ids}

Weights(edges) == MapThenSumSet(LAMBDA e : e.weight, edges)

FlowBalance(ids, edges) ==
    LET moved == {e \in edges : e.relation = "TRANSFERRED_TO"}
    IN [p \in ids |-> Weights({e \in moved : e.source = p}) - Weights({e \in moved : e.target = p})]

ConflictedNodes(org) == UNION {c.projects : c \in org.conflicts}

\* every conflict is two edges and each adds to both ends
Hotspots(edges) ==
    LET conflicts == {e \in edges : e.relation = "CONFLICTS_WITH"}
    IN [p \in {e.source : e \in conflicts} |->
            Weights({e \in conflicts : e.source = p}) + Weights({e \in conflicts : e.target = p})]

\* _bfs from the first project
Reached(ids, edges) ==
    LET Round(reached, i) == reached \cup {e.target : e \in {e \in edges : e.source \in reached}}
    IN FoldLeftDomain(Round, {Min(ids)}, registry)

ClusterCohesion(org, edges) ==
    LET inside == {e \in edges : \E c \in org.clusters : {e.source, e.target} \subseteq c}
    IN IF edges = {} THEN 0 ELSE (100 * Cardinality(inside)) \div Cardinality(edges)

OrganizationGraph(org) ==
    LET edges == OrganizationEdges(org)
        balance == FlowBalance(org.ids, edges)
    IN [edges |-> edges, balance |-> balance, hotspots |-> Hotspots(edges),
        producers |-> {p \in org.ids : balance[p] > 0}, consumers |-> {p \in org.ids : balance[p] < 0},
        cohesion |-> ClusterCohesion(org, edges)]

GraphHealth(org, graph) ==
    LET n == Cardinality(org.ids)
        out == SumFunction([p \in graph.producers |-> graph.balance[p]])
        in == 0 - SumFunction([p \in graph.consumers |-> graph.balance[p]])
    IN [connectivity |-> IF n = 0 THEN 100 ELSE (100 * Cardinality(Reached(org.ids, graph.edges))) \div n,
        conflict_density |-> IF n = 0 THEN 0 ELSE (100 * Cardinality(ConflictedNodes(org))) \div n,
        balance |-> IF out + in = 0 THEN <<0, 1>> ELSE <<out - in, out + in>>]

-----------------------------------------------------------------------------
(* organization/activity.py, continuation.py, recommendations/ *)

Inactive == {p \in ToSet(registry) : recent[p] = {}}

\* a transfer is recent where the target holds the object itself
RecentTransfers(L) ==
    {[id |-> x[1], source |-> L[x[1]].origin, target |-> x[2]] :
        x \in {y \in (DOMAIN L) \X ToSet(registry) :
                y[2] \in L[y[1]].projects \ {L[y[1]].origin} /\ y[1] \in recent[y[2]]}}

RecentConflicts(org) == {c \in org.conflicts : \E p \in ToSet(registry) : c.ids \cap recent[p] # {}}

\* _compute_projects_needing_attention
NeedAttention(graph) == Inactive \cup DOMAIN graph.hotspots \cup graph.consumers

\* _compute_organizational_next_actions; at most three consumers are named
NextActions(org, graph) ==
    LET Ahead(p) == {q \in graph.consumers : graph.balance[q] < graph.balance[p]}
        actions == {<<"resolve", p>> : p \in DOMAIN graph.hotspots}
                   \cup {<<"follow", t.target>> : t \in RecentTransfers(org.lineages)}
                   \cup {<<"review", p>> : p \in Inactive}
                   \cup {<<"support", p>> : p \in {p \in graph.consumers : Cardinality(Ahead(p)) < 3}}
                   \cup (IF graph.cohesion < 50 THEN {<<"cohesion", NoProject>>} ELSE {})
    IN IF actions = {} THEN {<<"review health", NoProject>>} ELSE actions

\* one line of the continuation summary each
Summary(org, graph) ==
    {"active"} \cup (IF RecentTransfers(org.lineages) # {} THEN {"transfers"} ELSE {})
    \cup (IF RecentConflicts(org) # {} THEN {"conflicts"} ELSE {})
    \cup (IF NeedAttention(graph) # {} THEN {"attention"} ELSE {})
    \cup (IF RecentTransfers(org.lineages) = {} /\ RecentConflicts(org) = {} THEN {"no changes"} ELSE {})

Category == <<"CONFLICT_RESOLUTION", "TRANSFER_FOLLOWUP", "INACTIVITY_REVIEW", "FLOW_REBALANCING",
              "CLUSTER_HEALTH", "INVARIANT_REVIEW">>

\* make_recommendation: the id is category, projects and evidence
Recommend(priority, projects, evidence) == [category |-> Category[priority], projects |-> projects, evidence |-> evidence]

Recommendations(org, graph) ==
    {Recommend(1, {p}, {<<"hotspot", p>>}) : p \in DOMAIN graph.hotspots}
    \cup {Recommend(2, {t.source, t.target}, {<<"transfer", t.id>>}) : t \in RecentTransfers(org.lineages)}
    \cup {Recommend(3, {p}, {<<"inactive", p>>}) : p \in Inactive}
    \cup {Recommend(4, {p}, {<<"flow", p>>}) : p \in {q \in org.ids : graph.balance[q] < -3}}
    \cup (IF org.clusters # {} /\ graph.cohesion < 50
          THEN {Recommend(5, UNION org.clusters, {<<"cluster", c>> : c \in org.clusters})} ELSE {})
    \cup (IF Cardinality(org.invariants) >= 3
          THEN {Recommend(6, s.projects, {<<"invariant", s.key[1]>>}) : s \in org.invariants} ELSE {})

-----------------------------------------------------------------------------
OInit ==
    /\ registry = <<>>
    /\ stores = [p \in Projects |-> {}]
    /\ recent = [p \in Projects |-> {}]
    /\ current = NoProject

\* ProjectRegistry.register
RegisterProject(p) ==
    /\ p \notin ToSet(registry)
    /\ registry' = Append(registry, p)
    /\ UNCHANGED <<stores, recent, current>>

\* add_knowledge in the project's own knowledge.db
StoreKnowledge(p, k) ==
    /\ SumFunction([q \in Projects |-> Cardinality(stores[q])]) < MaxStored
    /\ k \notin stores[p]
    /\ stores' = [stores EXCEPT ![p] = {o \in @ : o.id # k.id} \cup {k}]
    /\ recent' = [recent EXCEPT ![p] = @ \cup {k.id}]
    /\ UNCHANGED <<registry, current>>

\* the activity window passes
WindowPasses ==
    /\ recent # [p \in Projects |-> {}]
    /\ recent' = [p \in Projects |-> {}]
    /\ UNCHANGED <<registry, stores, current>>

ChangeDirectory(p) == current # p /\ current' = p /\ UNCHANGED <<registry, stores, recent>>

OrgNext ==
    \/ \E p \in Projects : RegisterProject(p)
    \/ \E p \in Projects, k \in KnowledgeMenu : StoreKnowledge(p, k)
    \/ \E p \in ToSet(registry) : ChangeDirectory(p)
    \/ WindowPasses

OrgSpec == OInit /\ [][OrgNext]_orgVars

-----------------------------------------------------------------------------
(* Properties *)

\* The clusters partition the registered projects, and two projects are in one
\* cluster exactly when a chain of projects with common title words joins them
\* (projection.py:300-350).
ClustersExact ==
    LET clusters == ProjectClusters
    IN /\ UNION clusters = ToSet(registry)
       /\ \A c, d \in clusters : c # d => c \cap d = {} /\ Terms(UNION {stores[p] : p \in c}) \cap Terms(UNION {stores[p] : p \in d}) = {}
       /\ \A c \in clusters : \A part \in (SUBSET c) \ {{}, c} :
            \E p \in part, q \in c \ part : Terms(stores[p]) \cap Terms(stores[q]) # {}

\* What needs attention is acted on, and what is acted on exists: every project
\* that needs attention is named by a next action, both projects of a conflict
\* between listed projects need attention, the summary does not report calm when
\* a listed conflict is new, and every recommendation has a registered project
\* (continuation.py:124-243, recommendations/engine.py:112-259, graph.py:335-417).
AttentionActedOn ==
    LET org == OrganizationState
        graph == OrganizationGraph(org)
    IN /\ \A p \in NeedAttention(graph) : \E a \in NextActions(org, graph) : a[2] = p
       /\ \A c \in org.conflicts :
            /\ c.projects \subseteq org.ids => c.projects \subseteq NeedAttention(graph)
            /\ (\E p \in c.projects : c.ids \cap recent[p] # {}) => "no changes" \notin Summary(org, graph)
       /\ \A r \in Recommendations(org, graph) : r.projects \cap ToSet(registry) # {} /\ r.evidence # {}
       /\ \A r \in Recommendations(org, graph) :
            r.category = "FLOW_REBALANCING" => r.projects \subseteq NeedAttention(graph)

-----------------------------------------------------------------------------
(* Statements the code does not keep *)

\* "present_in_projects" (models.py:59): it names the projects that see the
\* object, not the ones that hold it (projection.py:195).
PresentMeansHeld == \A s \in OrganizationState.shared : \A p \in s.projects : Holds(p, s.id)

\* A density is at most 1: the projects in a conflict are counted among all, the
\* nodes without the current project (graph.py:478-485, 552; service.py:47).
DensityBounded ==
    LET org == OrganizationState IN GraphHealth(org, OrganizationGraph(org)).conflict_density <= 100

\* "Resolve N contradiction(s)" counts the contradictions (engine.py:124): N is
\* twice as many (graph.py:516-518).
CountsTrue ==
    LET org == OrganizationState
        hotspots == OrganizationGraph(org).hotspots
    IN \A p \in DOMAIN hotspots :
        hotspots[p] = Cardinality({c \in org.conflicts : p \in c.projects /\ c.projects \subseteq org.ids})
=============================================================================
