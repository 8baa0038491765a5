--------------------------- MODULE ContextPackage ---------------------------
(***************************************************************************)
(* compile_context (knowledge/context_compiler.py): one call reads the     *)
(* projections, ranks memories and knowledge (knowledge_retrieval.py,      *)
(* knowledge_citation.py), reads the events and blends them into one       *)
(* package, while other processes write.  Every read is a step; the ones   *)
(* in a try block may fail and leave nothing.                              *)
(*                                                                         *)
(* Scores are hundredths; a query is a set of words.                       *)
(***************************************************************************)
EXTENDS Integers, Sequences, FiniteSets, SequencesExt, FiniteSetsExt

CONSTANTS
    Memories,       \* id -> [score]
    ObjectMenu,     \* knowledge objects that may be stored
    OwnProject,     \* the project of the call
    Query,          \* its words
    Profiles,       \* the retrieval profiles in use
    Limits,         \* values of total_slices
    SourceLimit,    \* citations taken from each source
    MaxRecorded,    \* bound on the events
    MaxWrites       \* bound on the writes during the call

VARIABLES
    remembered, \* ids of the memories stored
    objects,    \* the knowledge objects stored
    eventCount, \* events recorded
    request,    \* the running call
    writes      \* writes of other processes so far

\* an object: the scores of compute_knowledge_score see up to four pieces of evidence
KnowledgeObject ==
    [id : {k.id : k \in ObjectMenu}, project : {k.project : k \in ObjectMenu}, type : {k.type : k \in ObjectMenu},
     transferability : {k.transferability : k \in ObjectMenu}, words : {k.words : k \in ObjectMenu},
     importance : {k.importance : k \in ObjectMenu}, lifecycle : {"ACTIVE", "STALE", "SUPERSEDED", "ARCHIVED"},
     confidence : Int, recency : Int, contradicting : Int, evidence : 0 .. 4, supporting : 0 .. 4]

\* what the proofs need of the constants
PackageAssumption ==
    /\ IsFiniteSet(DOMAIN Memories) /\ \A m \in DOMAIN Memories : Memories[m].score \in Int
    /\ IsFiniteSet(ObjectMenu) /\ ObjectMenu \subseteq KnowledgeObject
    /\ IsFiniteSet(Query) /\ Limits \subseteq Nat /\ SourceLimit \in Nat /\ MaxRecorded \in Nat

packageVars == <<remembered, objects, eventCount, request, writes>>

-----------------------------------------------------------------------------
(* slots *)

\* percents of events, memories and knowledge
SourceWeights(profile, mode) ==
    IF mode = "continuation" THEN [event |-> 40, memory |-> 35, knowledge |-> 25]
    ELSE CASE profile = "KNOWLEDGE_REVIEW" -> [event |-> 10, memory |-> 20, knowledge |-> 70]
           [] profile = "PROJECT_OVERVIEW" -> [event |-> 30, memory |-> 30, knowledge |-> 40]
           [] profile = "CONTEXT_CONSTRUCTION" -> [event |-> 25, memory |-> 40, knowledge |-> 35]
           [] profile = "FAILURE_ANALYSIS" -> [event |-> 30, memory |-> 50, knowledge |-> 20]
           [] profile = "ARCHITECTURE_REVIEW" -> [event |-> 20, memory |-> 35, knowledge |-> 45]
           [] profile = "DECISION_LOOKUP" -> [event |-> 25, memory |-> 50, knowledge |-> 25]
           [] profile = "LESSON_DISCOVERY" -> [event |-> 15, memory |-> 45, knowledge |-> 40]
           [] profile = "WORKFLOW_RETRIEVAL" -> [event |-> 20, memory |-> 50, knowledge |-> 30]
           [] OTHER -> [event |-> 20, memory |-> 45, knowledge |-> 35]

\* round(): to the nearest, a half to the even neighbour
Rounded(hundredths) ==
    LET low == hundredths \div 100
        rest == hundredths % 100
    IN IF rest > 50 \/ (rest = 50 /\ low % 2 = 1) THEN low + 1 ELSE low

Slots_NoExcess(profile, mode, limit) ==
    LET weights == SourceWeights(profile, mode)
    IN [s \in DOMAIN weights |-> Rounded(limit * weights[s])]

\* max(slots, key=slots.get): the first of the largest
LargestSlot(slots, s) ==
    CASE s = "event" -> slots.event >= slots.memory /\ slots.event >= slots.knowledge
      [] s = "memory" -> slots.memory > slots.event /\ slots.memory >= slots.knowledge
      [] OTHER -> slots.knowledge > slots.event /\ slots.knowledge > slots.memory

\* _get_slot_allocation: what is too much is taken from the first of the largest
Slots(profile, mode, limit) ==
    LET weights == SourceWeights(profile, mode)
        slots == [s \in DOMAIN weights |-> Rounded(limit * weights[s])]
        excess == slots.event + slots.memory + slots.knowledge - limit
        largest == CHOOSE s \in DOMAIN slots : LargestSlot(slots, s)
    IN IF excess > 0 THEN [slots EXCEPT ![largest] = @ - excess] ELSE slots

-----------------------------------------------------------------------------
(* knowledge_retrieval.py, knowledge_citation.py *)

\* 100 * ln(1 + n), rounded
Log1p(n) == <<0, 69, 110, 139, 161>>[n + 1]

\* compute_knowledge_score
KnowledgeScore(k) ==
    k.confidence + Log1p(k.evidence) \div 3 + k.recency
    + (CASE k.importance = "critical" -> 500 [] k.importance = "high" -> 300 [] k.importance = "low" -> 100 [] OTHER -> 200)
    + Log1p(k.supporting) - 50 * k.contradicting
    - (CASE k.lifecycle = "STALE" -> 200 [] k.lifecycle = "SUPERSEDED" -> 500 [] k.lifecycle = "ARCHIVED" -> 1000 [] OTHER -> 0)

is_transferable(k) == k.transferability \in {"REUSABLE", "ORGANIZATIONAL"}

\* sort(key, reverse=True): the place of an item is the number of items ahead of it
Ahead(key, i) == {j \in DOMAIN key : key[j] > key[i] \/ (key[j] = key[i] /\ j < i)}
Place(key, n) == CHOOSE i \in DOMAIN key : Cardinality(Ahead(key, i)) = n - 1
BestFirst(s, key) == [n \in DOMAIN s |-> s[Place(key, n)]]

\* s[:n]
Take(s, n) == SubSeq(s, 1, IF n < Len(s) THEN n ELSE Len(s))

\* Mutant: what is transferable is added whether it was seen or not
Transferable_Twice(own, stored) == {k \in stored : is_transferable(k)}

\* after the project's own objects, what may be transferred to it, each id once
Transferable(own, stored) == {k \in stored : is_transferable(k) /\ \A o \in own : o.id # k.id}

\* the lifecycle filter and search_knowledge_rrf
Hits(k) == Cardinality(Query \cap k.words)
Matching(ks) == {k \in ks : k.lifecycle = "ACTIVE" /\ (Query = {} \/ Hits(k) > 0)}

\* execute_knowledge_plan
Weighed(k, booster) == KnowledgeScore(k) * (IF k.type = booster THEN 2 ELSE 1)

\* sorted by hits and then, stably, by weight
RankKnowledge(own, stored, booster) ==
    LET found == SetToSeq(Matching(own)) \o SetToSeq(Matching(Transferable(own, stored)))
        hit == BestFirst(found, [i \in DOMAIN found |-> Hits(found[i])])
        best == BestFirst(hit, [i \in DOMAIN hit |-> Weighed(hit[i], booster)])
    IN [i \in DOMAIN best |-> [source |-> "knowledge", id |-> best[i].id, score |-> KnowledgeScore(best[i])]]

RankMemories(ids) ==
    LET found == SetToSeq(ids)
        best == BestFirst(found, [i \in DOMAIN found |-> Memories[found[i]].score])
    IN [i \in DOMAIN best |-> [source |-> "memory", id |-> best[i], score |-> Memories[best[i]].score]]

\* _retrieve_relevant_events: no keyword ever reaches it, so the latest come first
RankEvents(n) == [i \in 1 .. n |-> [source |-> "event", id |-> n + 1 - i, score |-> 50]]

-----------------------------------------------------------------------------
(* the call *)

NoRequest == [step |-> "idle", mode |-> "standard", profile |-> "GENERAL_SEARCH", limit |-> 0, parts |-> {}, active |-> {},
              own |-> {}, memory |-> <<>>, knowledge |-> <<>>, event |-> <<>>, read |-> {}, failed |-> {},
              citations |-> <<>>]

CInit ==
    /\ remembered \in SUBSET (DOMAIN Memories)
    /\ objects \in SUBSET ObjectMenu
    /\ \A k, l \in objects : k.id = l.id => k = l
    /\ eventCount \in 0 .. MaxRecorded
    /\ request = NoRequest
    /\ writes = 0

CompileContext(mode, profile, limit) ==
    /\ request.step = "idle"
    /\ request' = [NoRequest EXCEPT !.step = "projections", !.mode = mode, !.profile = profile, !.limit = limit]
    /\ UNCHANGED <<remembered, objects, eventCount, writes>>

\* the continuation projection is not in a try block
RaiseContinuation ==
    /\ request.step = "projections" /\ request.mode = "continuation"
    /\ request' = [request EXCEPT !.step = "raised"]
    /\ UNCHANGED <<remembered, objects, eventCount, writes>>

\* knowledge, graph, cross-project, organization: each rests on the one before
ReadProjections(failed) ==
    LET active == {k.id : k \in {k \in objects : k.project = OwnProject /\ k.lifecycle = "ACTIVE"}}
        resumed == request.mode = "continuation"
        Given(part, needs) == IF needs /\ part \notin failed THEN {part} ELSE {}
        k == Given("knowledge", TRUE)
        x == Given("cross_project", k # {})
        o == Given("organization", x # {})
    IN /\ request.step = "projections"
       /\ request' = [request EXCEPT !.step = "memory", !.active = IF k = {} THEN {} ELSE active,
                               !.parts = k \cup x \cup o
                                         \cup (IF resumed THEN {"continuation"} ELSE {})
                                         \cup Given("graph", k # {} /\ active # {} /\ resumed)
                                         \cup Given("organization_continuation", o # {} /\ resumed)]
       /\ UNCHANGED <<remembered, objects, eventCount, writes>>

\* the first of what was ranked, or nothing if the retrieval raises
Retrieve(step, next, ranked) ==
    /\ request.step = step
    /\ \E result \in {Take(ranked, SourceLimit), <<>>} : request' = [request EXCEPT !.step = next, ![step] = result]
    /\ UNCHANGED <<remembered, objects, eventCount, writes>>

RetrieveMemories == Retrieve("memory", "own", RankMemories(remembered))

\* the first of the two reads of the knowledge store
ReadOwn ==
    /\ request.step = "own"
    /\ request' = [request EXCEPT !.step = "knowledge", !.own = {k \in objects : k.project = OwnProject}]
    /\ UNCHANGED <<remembered, objects, eventCount, writes>>

RetrieveKnowledge == Retrieve("knowledge", "event", RankKnowledge(request.own, objects, "LESSON"))
RetrieveEvents == Retrieve("event", "blend", RankEvents(eventCount))

\* get_by_ids of the chosen memories, again from the store; a failure is swallowed
BlendMemories ==
    /\ request.step = "blend"
    /\ \/ request' = [request EXCEPT !.step = "blend knowledge", !.read = {<<"memory", id>> : id \in remembered}]
       \/ request' = [request EXCEPT !.step = "blend knowledge", !.failed = {"memory"}]
    /\ UNCHANGED <<remembered, objects, eventCount, writes>>

\* a source that is not found keeps its citation without a text
Cited(c, found) ==
    [source |-> c.source, id |-> c.id, score |-> c.score,
     text |-> c.source = "event" \/ <<c.source, c.id>> \in found]

Chosen(slots) ==
    Take(request.memory, slots.memory) \o Take(request.knowledge, slots.knowledge) \o Take(request.event, slots.event)

Blended(found) ==
    LET all == Chosen(Slots(request.profile, request.mode, request.limit))
        cited == [i \in DOMAIN all |-> Cited(all[i], found)]
    IN Take(BestFirst(cited, [i \in DOMAIN cited |-> cited[i].score]), request.limit)

\* get_knowledge_by_ids, which may fail too, then sort and cut
BlendKnowledge ==
    /\ request.step = "blend knowledge"
    /\ \/ request' = [request EXCEPT !.step = "done",
                                     !.citations = Blended(request.read \cup {<<"knowledge", k.id>> : k \in objects})]
       \/ request' = [request EXCEPT !.step = "done", !.failed = @ \cup {"knowledge"},
                                     !.citations = Blended(request.read)]
    /\ UNCHANGED <<remembered, objects, eventCount, writes>>

\* other processes
ForgetMemory(id) ==
    /\ writes < MaxWrites /\ id \in remembered /\ request.step \notin {"idle", "done", "raised"}
    /\ remembered' = remembered \ {id} /\ writes' = writes + 1
    /\ UNCHANGED <<objects, eventCount, request>>

RetireKnowledge(k) ==
    /\ writes < MaxWrites /\ k \in objects /\ k.lifecycle = "ACTIVE" /\ request.step \notin {"idle", "done", "raised"}
    /\ objects' = (objects \ {k}) \cup {[k EXCEPT !.lifecycle = "ARCHIVED"]}
    /\ writes' = writes + 1
    /\ UNCHANGED <<remembered, eventCount, request>>

AppendWhileCalling ==
    /\ writes < MaxWrites /\ eventCount < MaxRecorded /\ request.step \notin {"idle", "done", "raised"}
    /\ eventCount' = eventCount + 1 /\ writes' = writes + 1
    /\ UNCHANGED <<remembered, objects, request>>

Failures == {{}, {"knowledge"}, {"graph"}, {"cross_project"}, {"organization"}, {"organization_continuation"}}

ContextNext ==
    \/ \E mode \in {"standard", "continuation"}, p \in Profiles, n \in Limits : CompileContext(mode, p, n)
    \/ RaiseContinuation \/ (\E f \in Failures : ReadProjections(f))
    \/ RetrieveMemories \/ ReadOwn \/ RetrieveKnowledge \/ RetrieveEvents \/ BlendMemories \/ BlendKnowledge
    \/ \E id \in remembered : ForgetMemory(id)
    \/ \E k \in objects : RetireKnowledge(k)
    \/ AppendWhileCalling

ContextSpec == CInit /\ [][ContextNext]_packageVars

-----------------------------------------------------------------------------
(* Properties *)

CitedFrom(source) == {i \in DOMAIN request.citations : request.citations[i].source = source}

\* A package keeps to its budget, cites nothing twice and is sorted; no source
\* takes more than its slots, no slot is negative; a citation without a text is
\* one whose source went away while the package was made or could not be read again; and no part of the
\* package rests on a part that failed (context_compiler.py:142-165, 316-362, 425-550).
PackageSound ==
    request.step = "done" =>
        LET slots == Slots(request.profile, request.mode, request.limit)
            c == request.citations
        IN /\ Len(c) <= request.limit
           /\ slots.event + slots.memory + slots.knowledge <= request.limit
           /\ \A s \in DOMAIN slots : slots[s] >= 0 /\ Cardinality(CitedFrom(s)) <= slots[s]
           /\ \A i, j \in DOMAIN c : i < j => c[i].score >= c[j].score /\ <<c[i].source, c[i].id>> # <<c[j].source, c[j].id>>
           /\ \A i \in DOMAIN c : ~ c[i].text => writes > 0 \/ c[i].source \in request.failed
           /\ "organization" \in request.parts => {"knowledge", "cross_project"} \subseteq request.parts
           /\ "graph" \in request.parts => request.active # {}

-----------------------------------------------------------------------------
(* Statements the code does not keep *)

\* A budget of at least one is used when there is something to cite: all shares
\* of one slot round to nothing (context_compiler.py:157).
BudgetUsed ==
    request.step = "done" /\ request.limit > 0 /\ request.memory # <<>> /\ request.knowledge # <<>> /\ request.event # <<>>
        => request.citations # <<>>

\* The knowledge the package cites of its own project is active in the knowledge
\* state it carries: the two are read at different times.
CitedIsActive ==
    request.step = "done" /\ "knowledge" \in request.parts =>
        \A i \in CitedFrom("knowledge") : \E k \in objects :
            k.id = request.citations[i].id /\ (k.project = OwnProject => k.lifecycle = "ACTIVE")
=============================================================================
