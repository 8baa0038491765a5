--------------------------- MODULE KnowledgeViews ---------------------------
(***************************************************************************)
(* What is derived from the stored knowledge: relations and contradictions *)
(* (knowledge/relations.py, contradiction.py), the knowledge projection    *)
(* (projections/knowledge.py) and the graph built on it                    *)
(* (projections/graph.py, knowledge/graph.py).                             *)
(*                                                                         *)
(* The state is the list a provider returns.  Its order is the store's:    *)
(* the SQLite provider moves an object that is added again to the end.     *)
(***************************************************************************)
EXTENDS Integers, Sequences, FiniteSets, SequencesExt

CONSTANTS
    KnowledgeMenu,  \* the objects a store may hold
    MaxObjects,     \* bound on the objects stored
    Suppressed      \* finding ids the user has suppressed

VARIABLES knowledge     \* get_all_knowledge()

-----------------------------------------------------------------------------
(* knowledge/relations.py *)

Jaccard(a, b, threshold) ==
    /\ a # {} /\ b # {}
    /\ 100 * Cardinality(a \cap b) >= threshold * Cardinality(a \cup b)

Opposites == {<<"sqlite", "postgres">>, <<"fastapi", "flask">>}
Negations == {"not", "never", "no longer", "don't"}

Contradicts_OneWay(a, b) ==
    \/ \E o \in Opposites : o[1] \in a /\ o[2] \in b
    \/ \E n \in Negations : n \in a /\ n \notin b /\ Jaccard(a, b, 41)

\* evaluation/continuity_metrics.py detect_contradiction; similarity > 0.4
Contradicts(a, b) ==
    \/ \E o \in Opposites : (o[1] \in a /\ o[2] \in b) \/ (o[2] \in a /\ o[1] \in b)
    \/ \E n \in Negations : /\ (n \in a) # (n \in b)
                            /\ 100 * Cardinality(a \cap b) > 40 * Cardinality(a \cup b)

TopicOverlap(k1, k2) ==
    \/ k1.domain = k2.domain
    \/ Cardinality(k1.tags \cap k2.tags) >= 2
    \/ Jaccard(k1.words, k2.words, 30)

Relation(k1, k2) ==
    IF Contradicts(k1.words, k2.words) THEN "CONTRADICTS"
    ELSE IF k1.type = k2.type THEN IF Jaccard(k1.words, k2.words, 50) THEN "SUPPORTS" ELSE "none"
    ELSE IF TopicOverlap(k1, k2) THEN "RELATED_TO" ELSE "none"

Pairs(ks) == {<<i, j>> \in (DOMAIN ks) \X (DOMAIN ks) : i < j}

\* detect_relations: the earlier object is the source
DetectRelations(ks) ==
    {[source |-> ks[p[1]].id, target |-> ks[p[2]].id, relation |-> Relation(ks[p[1]], ks[p[2]])] :
        p \in {q \in Pairs(ks) : Relation(ks[q[1]], ks[q[2]]) # "none"}}

FindContradictions(ks) ==
    {<<ks[p[1]].id, ks[p[2]].id>> : p \in {q \in Pairs(ks) : Contradicts(ks[q[1]].words, ks[q[2]].words)}}

\* build_derivation_chain: whatever shares a memory is a source, both ways
DerivationChain(ks) ==
    {<<ks[p[1]].id, ks[p[2]].id>> :
        p \in {<<i, j>> \in (DOMAIN ks) \X (DOMAIN ks) : i # j /\ ks[i].sources \cap ks[j].sources # {}}}

-----------------------------------------------------------------------------
(* knowledge/contradiction.py *)

Keywords == {"postgres", "sqlite", "mysql", "pooling", "migration"}
Polarities == {<<"enable", "disable">>, <<"allow", "forbid">>, <<"allow", "prohibit">>,
               <<"always", "never">>, <<"use", "avoid">>, <<"shall", "shall not">>}

\* generate_finding_id sorts the pair
FindingId_AsGiven(type, a, b, key) == <<type, <<a, b>>, key>>

FindingId(type, a, b, key) == <<type, {a, b}, key>>

\* ContradictionEngine.detect: duplicate ids, settings with two values, and
\* opposite words about one keyword
Findings(records) ==
    LET Finding(type, a, b, key, severity) ==
            [id |-> FindingId(type, a.id, b.id, key), severity |-> severity,
             suppressed |-> FindingId(type, a.id, b.id, key) \in Suppressed]
        duplicates == {Finding("duplicate_conflicting", records[p[1]], records[p[2]], "", "critical") :
                        p \in {q \in Pairs(records) : /\ records[q[1]].id = records[q[2]].id
                                                      /\ records[q[1]].words # records[q[2]].words}}
        exclusive == UNION {{Finding("exclusive_config", records[p[1]], records[p[2]], key, "critical") :
                                key \in {c \in DOMAIN records[p[1]].config \cap DOMAIN records[p[2]].config :
                                            records[p[1]].config[c] # records[p[2]].config[c]}} : p \in Pairs(records)}
        opposite == UNION {{Finding("opposite_assertion", records[p[1]], records[p[2]], key, "warning") :
                                key \in {w \in Keywords \cap records[p[1]].words \cap records[p[2]].words :
                                    \E o \in Polarities : \/ o[1] \in records[p[1]].words /\ o[2] \in records[p[2]].words
                                                          \/ o[2] \in records[p[1]].words /\ o[1] \in records[p[2]].words}} :
                            p \in Pairs(records)}
    IN duplicates \cup exclusive \cup opposite

-----------------------------------------------------------------------------
(* projections/knowledge.py *)

OfLifecycle(ks, status) == SelectSeq(ks, LAMBDA k : k.lifecycle = status)

Overwhelming(k) == k.confidence >= 95 /\ Cardinality(k.sources) >= 5 /\ k.contradicting = {}

\* _derive_epistemic_status, first match
EpistemicStatus_Confident(k) ==
    IF k.lifecycle \in {"SUPERSEDED", "ARCHIVED"} THEN "TOMBSTONED"
    ELSE IF k.confidence >= 70 THEN "VALIDATED" ELSE IF k.contradicting # {} THEN "CONFLICTED" ELSE "PROPOSED"

EpistemicStatus(k) ==
    IF k.lifecycle \in {"SUPERSEDED", "ARCHIVED"} THEN "TOMBSTONED"
    ELSE IF k.contradicting # {} THEN "CONFLICTED"
    ELSE IF k.type = "PROJECT_INVARIANT" \/ Overwhelming(k) THEN "INVARIANT"
    ELSE IF k.confidence >= 70 THEN "VALIDATED" ELSE "PROPOSED"

\* _identify_invariants, over the active objects
EvidentInvariants(active) ==
    {k \in ToSet(active) : k.type = "PROJECT_INVARIANT" \/ Overwhelming(k)}

\* _compute_health in hundredths of a percent, the parts each weighed
Health(active, total, conflicted, invariants, stale) ==
    IF active = <<>> THEN 0
    ELSE LET n == Len(active)
             least == IF 100 * invariants < 30 * n THEN (100 * invariants) \div n ELSE 30
         IN (40 * FoldSeq(LAMBDA k, sum : sum + k.confidence, 0, active)) \div n
            + 3000 - (3000 * conflicted) \div n + 20 * least + 1000 - (1000 * stale) \div total

\* KnowledgeProjection.project
KnowledgeProjection(ks) ==
    LET active == OfLifecycle(ks, "ACTIVE")
        Status(s) == {k \in ToSet(ks) : EpistemicStatus(k) = s}
        relations == DetectRelations(active)
        all_invariants == Status("INVARIANT") \cup EvidentInvariants(active)
    IN [active |-> active, stale |-> OfLifecycle(ks, "STALE"),
        superseded |-> OfLifecycle(ks, "SUPERSEDED") \o OfLifecycle(ks, "ARCHIVED"),
        proposed |-> Status("PROPOSED"), validated |-> Status("VALIDATED"), invariants |-> all_invariants,
        conflicted |-> Status("CONFLICTED"), tombstoned |-> Status("TOMBSTONED"),
        conflict_queue |-> {{r.source, r.target} : r \in {x \in relations : x.relation = "CONTRADICTS"}},
        support_graph |-> {r \in relations : r.relation = "SUPPORTS"},
        derivation_chains |-> DerivationChain(active),
        health |-> Health(active, Len(ks), Cardinality(Status("CONFLICTED")), Cardinality(all_invariants),
                          Len(OfLifecycle(ks, "STALE")))]

-----------------------------------------------------------------------------
(* The graphs *)

\* projections/graph.py GraphProjection.project: supports as found, a
\* derivation from the dependency to the dependent, a conflict both ways
GraphEdges(state) ==
    LET Typed(a, b, relation, confidence) == [source |-> a, target |-> b, relation |-> relation, confidence |-> confidence]
    IN {Typed(r.source, r.target, "SUPPORTS", 80) : r \in state.support_graph}
       \cup {Typed(d[2], d[1], "DERIVED_FROM", 90) : d \in state.derivation_chains}
       \cup UNION {{Typed(a, b, "CONTRADICTS", 90) : a \in c, b \in c} \ {Typed(a, a, "CONTRADICTS", 90) : a \in c} :
                    c \in state.conflict_queue}

Graph(ks) ==
    INSTANCE GraphQueries WITH Nodes <- {k.id : k \in ToSet(OfLifecycle(ks, "ACTIVE"))},
                               edges <- SetToSeq(GraphEdges(KnowledgeProjection(ks))),
                               EdgeMenu <- {}, MaxEdges <- 0, MAX_PATHS <- 100

\* knowledge/graph.py GraphProjection.build: a node is a type, a title and a
\* version, and the last object with them is the one it shows
NodeId(k) == <<k.type, k.title, k.version>>

Build(ks) ==
    LET Node(id) == NodeId(ks[SelectLastInSeq(ks, LAMBDA k : k.id = id)])
    IN [nodes |-> {NodeId(k) : k \in ToSet(ks)},
        edges |-> {<<Node(r.source), Node(r.target), r.relation>> : r \in DetectRelations(ks)}]

-----------------------------------------------------------------------------
ViewInit == knowledge = <<>>

\* add_knowledge (SQLite): the row leaves its place
Store(k) ==
    /\ Len(SelectSeq(knowledge, LAMBDA r : r.id # k.id)) < MaxObjects
    /\ knowledge' = Append(SelectSeq(knowledge, LAMBDA r : r.id # k.id), k)

Retire(i, status) == knowledge' = [knowledge EXCEPT ![i].lifecycle = status]

ViewNext ==
    \/ \E k \in KnowledgeMenu : Store(k)
    \/ \E i \in DOMAIN knowledge : \E status \in {"STALE", "SUPERSEDED", "ARCHIVED"} : Retire(i, status)

ViewSpec == ViewInit /\ [][ViewNext]_knowledge

-----------------------------------------------------------------------------
(* Properties *)

\* Which objects contradict, support or relate to each other, which findings
\* are raised and which of them are suppressed, and which conflicts wait, does
\* not depend on the order in which the store returns its rows (relations.py:28,
\* contradiction.py:33-38, knowledge.py:138-141).
ViewsOrderFree ==
    LET turned == Reverse(knowledge)
        Unordered(rs) == {<<{r.source, r.target}, r.relation>> : r \in rs}
    IN /\ Unordered(DetectRelations(knowledge)) = Unordered(DetectRelations(turned))
       /\ Findings(knowledge) = Findings(turned)
       /\ KnowledgeProjection(knowledge).conflict_queue = KnowledgeProjection(turned).conflict_queue

\* Nothing that has contradicting evidence or was retired is presented as
\* validated, every object has one status, and an invariant that is contradicted
\* still shows up as conflicted (knowledge.py:146-191, 304-331).
NoContestedFact ==
    LET state == KnowledgeProjection(knowledge)
    IN /\ \A k \in state.validated \cup state.proposed : k.contradicting = {} /\ k.lifecycle \in {"ACTIVE", "STALE"}
       /\ \A k \in state.invariants : k.contradicting # {} => k \in state.conflicted
       /\ state.proposed \cup state.validated \cup state.invariants \cup state.conflicted \cup state.tombstoned
            = ToSet(knowledge)

-----------------------------------------------------------------------------
(* Statements the code does not keep *)

\* "Map each knowledge to what it was derived from" (relations.py:82): sharing a
\* memory works both ways, so every derivation is a cycle of two and
\* dependency_chain raises for it (projections/graph.py:747-757, 251).
DerivationsUsable ==
    \A k \in ToSet(OfLifecycle(knowledge, "ACTIVE")) :
        Graph(knowledge)!DependencyChain(k.id, "DERIVED_FROM") # Graph(knowledge)!Cyclic

\* Every stored object is a node of the exported graph: objects of one type and
\* title share a node (knowledge/graph.py:128, 154).
NodePerObject == Cardinality(Build(knowledge).nodes) = Len(knowledge)

\* The path between two objects does not depend on the store's order: the
\* earlier object is an edge's source (relations.py:30-57).
EdgesOrderFree == DetectRelations(knowledge) = DetectRelations(Reverse(knowledge))
=============================================================================
