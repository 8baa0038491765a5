--------------------------- MODULE ProjectionPlan ---------------------------
(***************************************************************************)
(* The projection registry, its order, the cache and the rebuild planner   *)
(* (projections/registry.py, planner.py, cache.py, fingerprint.py), with   *)
(* two base projections, sessions and aliases (session.py, alias.py).      *)
(*                                                                         *)
(* A digest is the tuple that is hashed.  The executor of a plan is the    *)
(* caller's; it builds the nodes in order and may stop at any of them.     *)
(***************************************************************************)
EXTENDS Integers, Sequences, FiniteSets, SequencesExt, FiniteSetsExt

CONSTANTS
    Declared,       \* name -> the class: kind, dependencies, priority, its place among
                    \* the names in order, what it reads itself (input) and in the end (source)
    LogMenu,        \* the events that may be appended: [session, alias, canonical]
    KnowledgeIds,   \* knowledge ids
    MaxLogged, MaxPlans, MaxVersion,   \* bounds
    Nothing         \* no session, no alias, no cache entry

VARIABLES
    projections,    \* the registered names
    log,            \* the project's events
    knowledgeRows,  \* knowledge id -> [version, lifecycle]
    cached,         \* name -> cache entry or Nothing
    build,          \* the plan being executed
    plans           \* plans made so far

planVars == <<projections, log, knowledgeRows, cached, build, plans>>

ProjectionNames == DOMAIN Declared
Deps(p) == Declared[p].dependencies

\* what the ledger feeds reads the events itself or depends on such projections only
ASSUME PlanAssumption ==
    /\ IsFiniteSet(ProjectionNames)
    /\ \A p \in ProjectionNames :
          /\ Deps(p) \subseteq ProjectionNames
          /\ Declared[p].priority \in Nat /\ Declared[p].place \in Nat
          /\ Declared[p].source = "events" =>
                 IF Deps(p) = {} THEN Declared[p].input = "events"
                 ELSE \A d \in Deps(p) : Declared[d].source = "events"

-----------------------------------------------------------------------------
(* registry.py, of the registered names S *)

MissingDependency(S) == \E p \in S : ~ Deps(p) \subseteq S

\* a base projection has no dependency, a derived one none that is composite
InvalidKind(S) ==
    \E p \in S :
        \/ Declared[p].kind = "base" /\ Deps(p) # {}
        \/ Declared[p].kind = "derived" /\ \E d \in Deps(p) : Declared[d].kind = "composite"

\* _validate_cycles: a search meets a node it is still visiting, which it does if
\* and only if it can go on for ever among some of them
Circular(S) == \E C \in SUBSET S : C # {} /\ \A p \in C : Deps(p) \cap C # {}

RegistryValid(S) == ~ MissingDependency(S) /\ ~ InvalidKind(S) /\ ~ Circular(S)

ReadyNext_Eager(S, order) == S \ ToSet(order)

\* in_degree zero
ReadyNext(S, order) == {p \in S \ ToSet(order) : Deps(p) \subseteq ToSet(order)}

\* by build_priority, then by name
First(ready) ==
    CHOOSE p \in ready : \A q \in ready :
        \/ Declared[p].priority < Declared[q].priority
        \/ Declared[p].priority = Declared[q].priority /\ Declared[p].place <= Declared[q].place

PutNext(S, order) ==
    IF ReadyNext(S, order) = {} THEN order ELSE Append(order, First(ReadyNext(S, order)))

\* _compute_order, after each turn of its loop
OrderAfter(S) ==
    LET order[n \in 0 .. Cardinality(S)] == IF n = 0 THEN <<>> ELSE PutNext(S, order[n - 1])
    IN  order

ComputeOrder(S) == OrderAfter(S)[Cardinality(S)]

-----------------------------------------------------------------------------
(* session.py, alias.py and the views of the knowledge *)

\* one summary per session, the one with the last event first
SessionProjection(events) ==
    LET sessions == {events[i].session : i \in DOMAIN events} \ {Nothing}
        Seqs(s) == {i \in DOMAIN events : events[i].session = s}
    IN SetToSortSeq({[session |-> s, seqs |-> Seqs(s)] : s \in sessions}, LAMBDA a, b : Max(a.seqs) > Max(b.seqs))

\* the latest event that names an alias decides
AliasProjection(events) ==
    LET Sets(a) == {i \in DOMAIN events : events[i].alias = a}
    IN [a \in {events[i].alias : i \in DOMAIN events} \ {Nothing} |->
            [canonical |-> events[Max(Sets(a))].canonical, seq |-> Max(Sets(a))]]

-----------------------------------------------------------------------------
(* fingerprint.py *)

EventStreamFingerprint(events) == <<"event_stream", Len(events), Len(events)>>

\* id and version only
KnowledgeFingerprint(ks) == <<"knowledge_store", [k \in DOMAIN ks |-> ks[k].version]>>

CompositeFingerprint(deps, raw) == <<"composite", deps, raw>>

-----------------------------------------------------------------------------
(* planner.py *)

Inputs == [events |-> log, knowledge |-> knowledgeRows]

\* what the caller fingerprints, per name
CurrentFingerprint(p, inputs) ==
    IF Declared[p].input = "events" THEN EventStreamFingerprint(inputs.events)
    ELSE IF Declared[p].input = "knowledge" THEN KnowledgeFingerprint(inputs.knowledge)
    ELSE Nothing

\* a derived projection without dependencies hashes its raw input, if any
Fingerprint(p, fps, inputs) ==
    IF Declared[p].kind = "base" THEN CurrentFingerprint(p, inputs)
    ELSE CompositeFingerprint([d \in Deps(p) |-> fps[d]],
                              IF Deps(p) = {} THEN CurrentFingerprint(p, inputs) ELSE Nothing)

\* f with x under p
PutAt(f, p, x) == [q \in DOMAIN f \cup {p} |-> IF q = p THEN x ELSE f[q]]
NoNames == [q \in {} |-> Nothing]

AddFingerprint(fps, p, inputs) == PutAt(fps, p, Fingerprint(p, fps, inputs))

\* resolved_fingerprints after each projection of the order
ResolvedAfter(order, inputs) ==
    LET fps[n \in 0 .. Len(order)] == IF n = 0 THEN NoNames ELSE AddFingerprint(fps[n - 1], order[n], inputs)
    IN  fps

Resolve(order, inputs) == ResolvedAfter(order, inputs)[Len(order)]

\* a dirty dependency, no entry, or another fingerprint; the version is part of the key
IsDirty(p, dirty, fps) ==
    \/ Deps(p) \cap dirty # {}
    \/ cached[p] = Nothing
    \/ cached[p].fingerprint # fps[p]

AddDirty(dirty, p, fps) == IF IsDirty(p, dirty, fps) THEN dirty \cup {p} ELSE dirty

DirtyAfter(order, fps) ==
    LET dirty[n \in 0 .. Len(order)] == IF n = 0 THEN {} ELSE AddDirty(dirty[n - 1], order[n], fps)
    IN  dirty

DirtyNodes(order, fps) == DirtyAfter(order, fps)[Len(order)]

\* a base projection must be given a fingerprint
Unfingerprinted(S) ==
    \E p \in S : Declared[p].kind = "base" /\ CurrentFingerprint(p, Inputs) = Nothing

-----------------------------------------------------------------------------
(* what a projection is built from: its input, or the results it depends on *)

Value(p, inputs, built) ==
    IF Deps(p) # {} THEN [d \in Deps(p) |-> built[d]]
    ELSE IF Declared[p].input = "events" THEN <<SessionProjection(inputs.events), AliasProjection(inputs.events)>>
    ELSE IF Declared[p].input = "knowledge" THEN inputs.knowledge
    ELSE Nothing

AddValue(built, p, inputs) == PutAt(built, p, Value(p, inputs, built))

BuiltAfter(order, inputs) ==
    LET built[n \in 0 .. Len(order)] == IF n = 0 THEN NoNames ELSE AddValue(built[n - 1], order[n], inputs)
    IN  built

\* every projection built anew
Rebuilt(order, inputs) == BuiltAfter(order, inputs)[Len(order)]

NoBuild == [todo |-> {}, fps |-> NoNames, inputs |-> Nothing, order |-> <<>>, dirty |-> {}]

PlanInit ==
    /\ projections = {}
    /\ log = <<>>
    /\ knowledgeRows \in [KnowledgeIds -> {[version |-> 1, lifecycle |-> "ACTIVE"]}]
    /\ cached = [p \in ProjectionNames |-> Nothing]
    /\ build = NoBuild
    /\ plans = 0

\* a name, and a class, is registered once
RegisterProjection(p) ==
    /\ p \notin projections /\ plans = 0
    /\ projections' = projections \cup {p}
    /\ UNCHANGED <<log, knowledgeRows, cached, build, plans>>

AppendToLog(e) ==
    /\ Len(log) < MaxLogged /\ plans > 0
    /\ log' = Append(log, e)
    /\ UNCHANGED <<projections, knowledgeRows, cached, build, plans>>

\* another spelling of an object, or a change of its lifecycle
ChangeKnowledge(k) ==
    /\ plans > 0
    /\ \/ knowledgeRows[k].version < MaxVersion /\ knowledgeRows' = [knowledgeRows EXCEPT ![k].version = @ + 1]
       \/ knowledgeRows[k].lifecycle = "ACTIVE" /\ knowledgeRows' = [knowledgeRows EXCEPT ![k].lifecycle = "ARCHIVED"]
    /\ UNCHANGED <<projections, log, cached, build, plans>>

\* RebuildPlanner.plan; an invalid registry or a missing fingerprint raises
Plan ==
    LET order == ComputeOrder(projections)
        fps == Resolve(order, Inputs)
        dirty == DirtyNodes(order, fps)
    IN /\ RegistryValid(projections) /\ projections # {} /\ ~ Unfingerprinted(projections)
       /\ build.todo = {} /\ plans < MaxPlans
       /\ build' = [todo |-> dirty, fps |-> fps, inputs |-> Inputs, order |-> order, dirty |-> dirty]
       /\ plans' = plans + 1
       /\ UNCHANGED <<projections, log, knowledgeRows, cached>>

\* cache.set of the next of the plan's ordered_nodes (the executor)
BuildNode ==
    \E i \in DOMAIN build.order :
        LET p == build.order[i]
            built == [d \in Deps(p) |-> cached[d].value]
        IN /\ p \in build.todo /\ \A j \in 1 .. i - 1 : build.order[j] \notin build.todo
           /\ cached' = [cached EXCEPT ![p] = [value |-> Value(p, build.inputs, built), fingerprint |-> build.fps[p]]]
           /\ build' = [build EXCEPT !.todo = @ \ {p}]
           /\ UNCHANGED <<projections, log, knowledgeRows, plans>>

\* the executor fails and the rest of the plan is not built
StopBuild ==
    /\ build.todo # {}
    /\ build' = NoBuild
    /\ UNCHANGED <<projections, log, knowledgeRows, cached, plans>>

\* cache.invalidate and cache.clear
Invalidate(ps) ==
    /\ build.todo = {} /\ plans > 0
    /\ \E p \in ps : cached[p] # Nothing
    /\ cached' = [p \in ProjectionNames |-> IF p \in ps THEN Nothing ELSE cached[p]]
    /\ UNCHANGED <<projections, log, knowledgeRows, build, plans>>

PlanNext ==
    \/ \E p \in ProjectionNames : RegisterProjection(p)
    \/ \E e \in LogMenu : AppendToLog(e)
    \/ \E k \in KnowledgeIds : ChangeKnowledge(k)
    \/ Plan \/ BuildNode \/ StopBuild
    \/ \E p \in ProjectionNames : Invalidate({p})
    \/ Invalidate(ProjectionNames)

PlanSpec == PlanInit /\ [][PlanNext]_planVars

-----------------------------------------------------------------------------
(* Properties *)

\* The order of a valid registry has every projection once, after everything it
\* depends on; a plan's dirty nodes are closed under dependence, so nothing
\* unchanged rests on something rebuilt (registry.py:140-169, planner.py:68-88).
OrderSound ==
    /\ RegistryValid(projections) =>
           LET order == ComputeOrder(projections)
           IN /\ ToSet(order) = projections /\ Len(order) = Cardinality(projections)
              /\ \A i \in DOMAIN order : Deps(order[i]) \subseteq {order[j] : j \in 1 .. i - 1}
    /\ \A p \in ToSet(build.order) : Deps(p) \cap build.dirty # {} => p \in build.dirty

\* The cache is sound for what the ledger feeds: an entry whose fingerprint is the
\* one of the current events was built from the current events, also after plans
\* that stopped half-way and invalidated entries (planner.py:44-88, fingerprint.py:7-20).
CacheSound ==
    RegistryValid(projections) /\ ~ Unfingerprinted(projections) =>
        LET order == ComputeOrder(projections)
            fps == Resolve(order, Inputs)
            fresh == Rebuilt(order, Inputs)
            dirty == DirtyNodes(order, fps)
        IN \A p \in projections \ dirty :
            Declared[p].source = "events" => cached[p].value = fresh[p]

\* A plan is ordered by dependence, and a clean cache entry of what the ledger
\* feeds is current, also after plans that stopped half-way (planner.py:44-88).
PlanSound == OrderSound /\ CacheSound

-----------------------------------------------------------------------------
(* Statements the code does not keep *)

\* The same for what the knowledge store feeds: a lifecycle change leaves the
\* fingerprint as it was (fingerprint.py:26).
KnowledgeCacheSound ==
    RegistryValid(projections) /\ ~ Unfingerprinted(projections) =>
        LET order == ComputeOrder(projections)
            fps == Resolve(order, Inputs)
        IN \A p \in projections \ DirtyNodes(order, fps) : cached[p].value = Rebuilt(order, Inputs)[p]
=============================================================================
