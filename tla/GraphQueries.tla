---------------------------- MODULE GraphQueries ----------------------------
(***************************************************************************)
(* The graph queries of the system: knowledge/graph.py (the graph the      *)
(* command line and the MCP server export), projections/graph.py (the      *)
(* knowledge graph projection) and the traversals of organization/graph.py.*)
(* The three keep nodes and a list of typed edges and each has its own     *)
(* searches, translated here with their queues and stacks; the order of a  *)
(* list of edges is kept, because it decides which answer is found first.  *)
(*                                                                         *)
(* Confidences are whole percents.                                         *)
(***************************************************************************)
EXTENDS Integers, Sequences, FiniteSets, SequencesExt

CONSTANTS
    Nodes,      \* ids of the graph's nodes
    EdgeMenu,   \* the edges a build may add
    MaxEdges,   \* bound on the edges of a graph
    MAX_PATHS   \* projections/graph.py:35

VARIABLES edges    \* the graph's edges, in the order build added them

RelationType == {"SUPPORTS", "CONTRADICTS", "DERIVED_FROM", "SUPERSEDES", "RELATED_TO"}

Edge == [source : Nodes, target : Nodes, relation : RelationType, confidence : 0 .. 100]

-----------------------------------------------------------------------------
(* adjacency and reverse_adjacency *)

Out(n) == SelectSeq(edges, LAMBDA e : e.source = n)
Into(n) == SelectSeq(edges, LAMBDA e : e.target = n)

Targets(es) == [i \in DOMAIN es |-> es[i].target]
Sources(es) == [i \in DOMAIN es |-> es[i].source]

Forth == [n \in Nodes |-> Targets(Out(n))]
Either == [n \in Nodes |-> Targets(Out(n)) \o Sources(Into(n))]

\* the members of s that are not in visited, each once
RECURSIVE Fresh(_, _)
Fresh(s, visited) ==
    IF s = <<>> THEN <<>>
    ELSE IF Head(s) \in visited THEN Fresh(Tail(s), visited)
    ELSE <<Head(s)>> \o Fresh(Tail(s), visited \cup {Head(s)})

\* Breadth-first search that marks a node when it is queued.  adj[n] lists the
\* nodes next to n; queue holds [node, depth, via], via the path to the node.
RECURSIVE Mark(_, _, _, _)
Mark(queue, found, depth, adj) ==
    IF queue = <<>> THEN found
    ELSE LET at == Head(queue)
             new == IF at.depth >= depth THEN <<>>
                    ELSE Fresh(adj[at.node], {found[i].node : i \in DOMAIN found})
             entries == [i \in DOMAIN new |-> [node |-> new[i], depth |-> at.depth + 1, via |-> Append(at.via, new[i])]]
         IN Mark(Tail(queue) \o entries, found \o entries, depth, adj)

SearchFrom(n, depth, adj) ==
    LET start == [node |-> n, depth |-> 0, via |-> <<n>>]
    IN Mark(<<start>>, <<start>>, depth, adj)

Found(search) == {search[i].node : i \in DOMAIN search}

Unbounded == Cardinality(Nodes)

-----------------------------------------------------------------------------
(* knowledge/graph.py *)

Neighbors_Directed(n, depth) == Found(SearchFrom(n, depth, Forth))

\* GraphProjection.neighbors: the nodes of the subgraph
Neighbors(n, depth) == Found(SearchFrom(n, depth, Either))

\* GraphProjection.shortest_path
ShortestPath(source, target) ==
    LET search == SearchFrom(source, Unbounded, Forth)
        hit == SelectInSeq(search, LAMBDA f : f.node = target)
    IN IF hit = 0 THEN <<>> ELSE search[hit].via

\* GraphProjection.stats: [component_count, orphan_count]
Stats ==
    [component_count |-> Cardinality({Found(SearchFrom(n, Unbounded, Either)) : n \in Nodes}),
     orphan_count |-> Cardinality({n \in Nodes : Out(n) = <<>> /\ Into(n) = <<>>}),
     edge_count |-> Len(edges)]

-----------------------------------------------------------------------------
(* projections/graph.py *)

Passes(e, edge_types, min_confidence) ==
    /\ edge_types = {} \/ e.relation \in edge_types
    /\ e.confidence >= min_confidence

\* The searches of this module mark a node when it leaves the queue; a node
\* deeper than the limit is dropped then.
RECURSIVE Visit(_, _, _, _)
Visit(queue, visited, limit, adj) ==
    IF queue = <<>> THEN visited
    ELSE LET at == Head(queue)
             next == adj[at.node]
         IN IF at.node \in visited \/ at.depth > limit THEN Visit(Tail(queue), visited, limit, adj)
            ELSE Visit(Tail(queue)
                       \o [i \in DOMAIN next |-> [node |-> next[i], depth |-> at.depth + 1]],
                       visited \cup {at.node}, limit, adj)

\* GraphState.filtered_traversal: the nodes and the edges of the subgraph.
\* Every edge is added when an end of it is visited.
FilteredTraversal(n, edge_types, min_confidence, direction, max_depth) ==
    LET Forward(m) == IF direction \in {"both", "forward"}
                      THEN SelectSeq(Out(m), LAMBDA e : Passes(e, edge_types, min_confidence)) ELSE <<>>
        Backward(m) == IF direction \in {"both", "backward"}
                       THEN SelectSeq(Into(m), LAMBDA e : Passes(e, edge_types, min_confidence)) ELSE <<>>
        nodes == Visit(<<[node |-> n, depth |-> 0]>>, {}, max_depth,
                       [m \in Nodes |-> Targets(Forward(m)) \o Sources(Backward(m))])
    IN [nodes |-> nodes,
        edges |-> FlattenSeq([i \in 1 .. Cardinality(nodes) |->
                                LET m == SetToSeq(nodes)[i] IN Forward(m) \o Backward(m)])]

\* GraphState._bfs_directional, without the node itself; depth >= max_depth is dropped
BfsDirectional(n, direction, max_depth, relation_types) ==
    LET Step(m) == IF direction = "forward"
                   THEN Targets(SelectSeq(Out(m), LAMBDA e : Passes(e, relation_types, 0)))
                   ELSE Sources(SelectSeq(Into(m), LAMBDA e : Passes(e, relation_types, 0)))
    IN Visit(<<[node |-> n, depth |-> 0]>>, {}, max_depth - 1, [m \in Nodes |-> Step(m)]) \ {n}

\* GraphState.impact_analysis
ImpactAnalysis(n, depth, relation_types) ==
    [upstream |-> BfsDirectional(n, "reverse", depth, relation_types),
     downstream |-> BfsDirectional(n, "forward", depth, relation_types),
     affected_by_contradiction |->
        {e.target : e \in {f \in ToSet(Out(n)) : f.relation = "CONTRADICTS"}}
        \cup {e.source : e \in {f \in ToSet(Into(n)) : f.relation = "CONTRADICTS"}}]

\* GraphState.dependency_chain: depth first against the edges of the relation;
\* any node met twice is taken for a cycle.  stack holds <<neighbors left, depth>>.
Cyclic == "Cycle detected"

RECURSIVE Chain(_, _, _)
Chain(stack, chain, relation) ==
    IF stack = <<>> THEN chain
    ELSE LET top == Last(stack)
         IN IF top.left = <<>> THEN Chain(Front(stack), chain, relation)
            ELSE LET v == Head(top.left)
                     rest == Append(Front(stack), [top EXCEPT !.left = Tail(@)])
                 IN IF \E i \in DOMAIN chain : chain[i].node = v THEN Cyclic
                    ELSE Chain(Append(rest, [left |-> Sources(SelectSeq(Into(v), LAMBDA e : e.relation = relation)),
                                             depth |-> top.depth + 1]),
                               Append(chain, [node |-> v, depth |-> top.depth + 1]), relation)

DependencyChain(n, relation) ==
    Chain(<<[left |-> Sources(SelectSeq(Into(n), LAMBDA e : e.relation = relation)), depth |-> 0]>>,
          <<[node |-> n, depth |-> 0]>>, relation)

\* GraphState.weighted_shortest_path: 1 / confidence, in ten-thousandths
Weight(e) == 10000 \div (IF e.confidence < 1 THEN 1 ELSE e.confidence)

\* one edge relaxed: labels maps a node to the path and the distance known to it
Relax_Late(labels, at, e) ==
    IF e.target \in DOMAIN labels THEN labels
    ELSE (e.target :> [path |-> Append(labels[at].path, e.target), dist |-> labels[at].dist + Weight(e)]) @@ labels

Relax(labels, at, e) ==
    LET new == [path |-> Append(labels[at].path, e.target), dist |-> labels[at].dist + Weight(e)]
    IN IF e.target \notin DOMAIN labels \/ new.dist < labels[e.target].dist
       THEN (e.target :> new) @@ labels ELSE labels

\* the heap's least entry among the nodes not done; equal distances by node order
RECURSIVE Dijkstra(_, _, _)
Dijkstra(labels, done, target) ==
    LET open == DOMAIN labels \ done
    IN IF open = {} \/ target \in done THEN labels
       ELSE LET at == CHOOSE n \in open : \A m \in open : labels[n].dist <= labels[m].dist
            IN Dijkstra(FoldLeft(LAMBDA acc, e : Relax(acc, at, e), labels, Out(at)), done \cup {at}, target)

WeightedShortestPath(source, target) ==
    LET labels == Dijkstra(source :> [path |-> <<source>>, dist |-> 0], {}, target)
    IN IF target \in DOMAIN labels THEN labels[target].path ELSE <<>>

\* GraphState.topological_sort: Kahn's algorithm on the edges of one relation
RECURSIVE Kahn(_, _, _, _)
Kahn(queue, in_degree, order, adj) ==
    IF queue = <<>> THEN order
    ELSE LET n == Head(queue)
             step == FoldLeft(LAMBDA acc, m :
                                LET left == [acc.degree EXCEPT ![m] = @ - 1]
                                IN [degree |-> left, ready |-> IF left[m] = 0 THEN Append(acc.ready, m) ELSE acc.ready],
                              [degree |-> in_degree, ready |-> <<>>], adj[n])
         IN Kahn(Tail(queue) \o step.ready, step.degree, Append(order, n), adj)

Along(relation) == [n \in Nodes |-> Targets(SelectSeq(Out(n), LAMBDA e : e.relation = relation))]

TopologicalSort_AllReady(relation) == SetToSeq(Nodes)

TopologicalSort(relation) ==
    LET in_degree == [n \in Nodes |-> Len(SelectSeq(Into(n), LAMBDA e : e.relation = relation))]
    IN Kahn(SetToSeq({n \in Nodes : in_degree[n] = 0}), in_degree, <<>>, Along(relation))

\* GraphState._dfs_cycles: stack holds [node, left]; path_list is the nodes of
\* the stack, and a node once visited is not entered again
RECURSIVE DfsCycles(_, _, _, _)
DfsCycles(stack, cycles, visited, adj) ==
    IF stack = <<>> THEN [cycles |-> cycles, visited |-> visited]
    ELSE LET top == Last(stack)
             path == [i \in DOMAIN stack |-> stack[i].node]
         IN IF top.left = <<>> THEN DfsCycles(Front(stack), cycles, visited, adj)
            ELSE LET v == Head(top.left)
                     rest == Append(Front(stack), [top EXCEPT !.left = Tail(@)])
                     i == SelectInSeq(path, LAMBDA n : n = v)
                 IN IF i > 0 THEN DfsCycles(rest, Append(cycles, Append(SubSeq(path, i, Len(path)), v)), visited, adj)
                    ELSE IF v \in visited THEN DfsCycles(rest, cycles, visited, adj)
                    ELSE DfsCycles(Append(rest, [node |-> v, left |-> adj[v]]), cycles, visited \cup {v}, adj)

\* GraphState.detect_cycles, _find_cycles_in_subset: every node with an edge is
\* a start, in the order of the edges
DetectCycles(relation) ==
    LET chosen == SelectSeq(edges, LAMBDA e : e.relation = relation)
        adj == Along(relation)
    IN FoldLeft(LAMBDA acc, n :
                    IF n \in acc.visited THEN acc
                    ELSE DfsCycles(<<[node |-> n, left |-> adj[n]]>>, acc.cycles, acc.visited \cup {n}, adj),
                [cycles |-> <<>>, visited |-> {}], Fresh(Sources(chosen), {})).cycles

\* GraphState.all_paths: depth first, at most MAX_PATHS of them, max_depth
\* nodes before the target
RECURSIVE Paths(_, _, _, _)
Paths(stack, paths, target, max_depth) ==
    IF stack = <<>> \/ Len(paths) >= MAX_PATHS THEN paths
    ELSE LET top == Last(stack)
             path == [i \in DOMAIN stack |-> stack[i].node]
         IN IF top.left = <<>> THEN Paths(Front(stack), paths, target, max_depth)
            ELSE LET v == Head(top.left)
                     rest == Append(Front(stack), [top EXCEPT !.left = Tail(@)])
                 IN IF v \in ToSet(path) THEN Paths(rest, paths, target, max_depth)
                    ELSE IF v = target THEN Paths(rest, Append(paths, Append(path, v)), target, max_depth)
                    ELSE IF Len(path) < max_depth
                    THEN Paths(Append(rest, [node |-> v, left |-> Forth[v]]), paths, target, max_depth)
                    ELSE Paths(rest, paths, target, max_depth)

AllPaths(source, target, max_depth) ==
    IF source = target THEN <<<<source>>>>
    ELSE Paths(<<[node |-> source, left |-> Forth[source]]>>, <<>>, target, max_depth)

\* GraphState.blast_radius, before it is sorted; the confidence is the least on
\* the path found first
LeastConfidence(via) ==
    LET Crossed(a, b) == LET out == SelectSeq(Out(a), LAMBDA e : e.target = b)
                         IN IF out # <<>> THEN out[1] ELSE SelectSeq(Into(a), LAMBDA e : e.source = b)[1]
        lows == {100} \cup {Crossed(via[i], via[i + 1]).confidence : i \in 1 .. Len(via) - 1}
    IN CHOOSE c \in lows : \A d \in lows : c <= d

BlastRadius(n, depth) ==
    LET search == SearchFrom(n, depth, Either)
    IN [i \in 1 .. Len(search) - 1 |->
            [node |-> search[i + 1].node, distance |-> search[i + 1].depth,
             confidence |-> LeastConfidence(search[i + 1].via)]]

\* _bfs_undirected, _bfs_component: the clusters of the graph
Clusters == {Visit(<<[node |-> n, depth |-> 0]>>, {}, Unbounded * Unbounded, Either) : n \in Nodes}

-----------------------------------------------------------------------------
(* organization/graph.py *)

\* OrganizationGraphProjection.filtered_traversal, blast_radius, _bfs
Traversal(start, relation_types, confidence_min) ==
    SearchFrom(start, Unbounded,
               [n \in Nodes |-> Targets(SelectSeq(Out(n), LAMBDA e : /\ relation_types = {} \/ e.relation \in relation_types
                                                                     /\ e.confidence >= confidence_min))])

OrganizationBlastRadius(project, relation) == Found(Traversal(project, {relation}, 0))

\* shortest_transfer_path: the parents are followed back from the target
ShortestTransferPath(source, target, relation) ==
    LET search == Traversal(source, {relation}, 0)
        hit == SelectInSeq(search, LAMBDA f : f.node = target)
    IN IF hit = 0 THEN <<>> ELSE search[hit].via

-----------------------------------------------------------------------------
GraphInit == edges = <<>>

AddEdge(e) ==
    /\ Len(edges) < MaxEdges
    /\ e \notin ToSet(edges)        \* seen_edges
    /\ edges' = Append(edges, e)

GraphNext == \E e \in EdgeMenu : AddEdge(e)

GraphSpec == GraphInit /\ [][GraphNext]_edges

-----------------------------------------------------------------------------
(* References: walks, as sequences of nodes *)

Linked(a, b) == \E i \in DOMAIN edges : edges[i].source = a /\ edges[i].target = b
Joined(a, b) == Linked(a, b) \/ Linked(b, a)
Bound(a, b, relation) == \E i \in DOMAIN edges : edges[i] \in [source : {a}, target : {b}, relation : {relation}, confidence : 0 .. 100]

Walks(a, b, L(_, _)) ==
    {w \in UNION {[1 .. k -> Nodes] : k \in 1 .. Unbounded} :
        w[1] = a /\ w[Len(w)] = b /\ \A i \in 1 .. Len(w) - 1 : L(w[i], w[i + 1])}

Shortest(w, walks) == w \in walks /\ \A v \in walks : Len(w) <= Len(v)

OnCycle(n, relation) ==
    \E m \in Nodes : Bound(n, m, relation) /\ Walks(m, n, LAMBDA x, y : Bound(x, y, relation)) # {}

-----------------------------------------------------------------------------
(* Properties *)

\* What is reported within a depth is what some walk of that many edges
\* reaches, at its true distance, and the clusters are the classes of "some
\* walk joins them", wherever the search starts (knowledge/graph.py:204,
\* projections/graph.py:484, 837, organization/graph.py:628).
NearestExact ==
    \A a, b \in Nodes :
        LET joins == Walks(a, b, Joined)
        IN /\ \A d \in 0 .. 2 : b \in Neighbors(a, d) <=> \E w \in joins : Len(w) - 1 <= d
           /\ \A d \in 0 .. 2 : \A i \in DOMAIN BlastRadius(a, d) :
                LET r == BlastRadius(a, d)[i]
                IN r.node = b => \E w \in joins : Len(w) - 1 = r.distance /\ Shortest(w, joins)
           /\ (\E c \in Clusters : {a, b} \subseteq c) <=> joins # {}
           /\ Stats.component_count = Cardinality(Clusters)

\* A path query answers with a path exactly when there is one, and the answer
\* is a best one: fewest edges for shortest_path and shortest_transfer_path,
\* least total weight for weighted_shortest_path; all_paths finds every simple
\* path up to its limit (knowledge/graph.py:260, projections/graph.py:300, 437).
PathsExact ==
    \A a, b \in Nodes :
        LET walks == Walks(a, b, Linked)
            simple == {w \in walks : \A i, j \in DOMAIN w : w[i] = w[j] => i = j}
            Cost(w) == FoldSeq(+, 0, [i \in 1 .. Len(w) - 1 |->
                            LET weights == {Weight(e) : e \in {f \in ToSet(edges) : f.source = w[i] /\ f.target = w[i + 1]}}
                            IN CHOOSE c \in weights : \A d \in weights : c <= d])
            path == ShortestPath(a, b)
            weighted == WeightedShortestPath(a, b)
        IN /\ IF walks = {} THEN path = <<>> /\ weighted = <<>>
              ELSE Shortest(path, walks) /\ weighted \in walks /\ \A w \in walks : Cost(weighted) <= Cost(w)
           /\ \A relation \in {"SUPPORTS", "DERIVED_FROM"} :
                LET transfers == Walks(a, b, LAMBDA x, y : Bound(x, y, relation))
                    transfer == ShortestTransferPath(a, b, relation)
                IN IF transfers = {} THEN transfer = <<>> ELSE Shortest(transfer, transfers)
           /\ ToSet(AllPaths(a, b, 2)) = {w \in simple : Len(w) <= 3}

\* The order lists every node once that no cycle leads to, dependencies first;
\* a cycle is reported exactly when there is one, and what is reported is a
\* cycle (projections/graph.py:353, 394, 664).
CyclesExact ==
    \A relation \in {"SUPPORTS", "DERIVED_FROM"} :
        LET order == TopologicalSort(relation)
            cycles == DetectCycles(relation)
        IN /\ \A i, j \in DOMAIN order : Bound(order[i], order[j], relation) => i < j
           /\ \A n \in Nodes : n \notin ToSet(order) <=>
                \E m \in Nodes : OnCycle(m, relation) /\ Walks(m, n, LAMBDA x, y : Bound(x, y, relation)) # {}
           /\ cycles = <<>> <=> \A n \in Nodes : ~ OnCycle(n, relation)
           /\ \A c \in ToSet(cycles) : c[1] = c[Len(c)] /\ \A i \in 1 .. Len(c) - 1 : Bound(c[i], c[i + 1], relation)

-----------------------------------------------------------------------------
(* Statements the code does not keep *)

\* "Raises ValueError if cycle detected" (projections/graph.py:229): two ways
\* to one dependency raise it as well.
ChainRaisesOnCycleOnly ==
    \A n \in Nodes : DependencyChain(n, "DERIVED_FROM") = Cyclic => \E m \in Nodes : OnCycle(m, "DERIVED_FROM")

\* "Find all simple cycles in the graph" (projections/graph.py:398): a node once
\* visited is not entered again, so a second cycle through it is missed.
AllCyclesFound ==
    \A n \in Nodes : OnCycle(n, "DERIVED_FROM") => \E c \in ToSet(DetectCycles("DERIVED_FROM")) : n \in ToSet(c)

\* impact_analysis(depth = d) reports the nodes d edges away: they are dropped
\* when they leave the queue (projections/graph.py:541).
ImpactReachesDepth ==
    \A n, m \in Nodes : n # m /\ Linked(n, m) => m \in ImpactAnalysis(n, 1, {}).downstream

\* The subgraph of a traversal is a graph: its edges may lead to nodes beyond
\* the limit, and an edge between two visited nodes is listed twice
\* (projections/graph.py:202, 213).
SubgraphClosed ==
    \A n \in Nodes :
        LET sub == FilteredTraversal(n, {}, 0, "both", 1)
        IN \A e \in ToSet(sub.edges) : e.source \in sub.nodes /\ e.target \in sub.nodes
=============================================================================
