------------------------------ MODULE Retrieval ------------------------------
(***************************************************************************)
(* Finding memories: the retrieval plan (retrieval/orchestrator.py), the   *)
(* ranked search (memory/retrieval.py and the modules it calls), the audit *)
(* of a search, consolidation candidates, the memory broker, and the       *)
(* "memory" commands.  The search reads the provider several times, other  *)
(* processes write between the reads.                                      *)
(*                                                                         *)
(* Texts are sets of words; a record's phrases are the queries its text    *)
(* contains as they stand.  Scores are tenths; one row per memory id, in   *)
(* the order in which the provider returns them.                           *)
(***************************************************************************)
EXTENDS Integers, Sequences, FiniteSets, SequencesExt, FiniteSetsExt

CONSTANTS
    MemoryMenu,     \* the memories that may be recorded, as first recorded
    QueryMenu,      \* [name, words]
    Availability,   \* the sets of projections a caller may declare available
    Limits,         \* limits callers ask for
    CANDIDATE_LIMIT,
    MaxWrites,      \* bound on writes of records
    MaxLog          \* bound on events appended here

VARIABLES
    table,      \* the provider's records
    call,       \* the running search, or what the last one returned
    log,        \* events appended by audits and consolidation
    broker,     \* MemoryBroker: queries counted, contexts cached, records stored, writes that failed
    writes      \* records written so far

retrievalVars == <<table, call, log, broker, writes>>

\* an id stands for one memory, whose numbers are numbers
ASSUME RetrievalAssumption ==
    /\ \A a, b \in MemoryMenu : a.id = b.id => a = b
    /\ \A r \in MemoryMenu :
          r.priority \in Int /\ r.recency \in Int /\ r.confidence \in Int /\ r.references \in Nat
    /\ \A query \in QueryMenu : IsFiniteSet(query.words)
    /\ Limits \subseteq Nat /\ CANDIDATE_LIMIT \in Nat

-----------------------------------------------------------------------------
(* Python's sort, which is stable, of the items of s at the positions P, the *)
(* largest key first                                                         *)

\* what comes before i
Ahead(P, key, i) == {j \in P : key[j] > key[i] \/ (key[j] = key[i] /\ j < i)}

Place(P, key, m) == CHOOSE i \in P : Cardinality(Ahead(P, key, i)) = m - 1

Sorted(s, P, key) == [m \in 1 .. Cardinality(P) |-> s[Place(P, key, m)]]

\* in the order they are in
Kept(s, P) == Sorted(s, P, [i \in P |-> 0])

-----------------------------------------------------------------------------
(* retrieval/models.py and retrieval/orchestrator.py *)

Intents == {"continuation", "impact_analysis", "cross_project", "organizational", "knowledge_query", "general"}

\* one word stands for the keywords of an intent
Keyword ==
    [continuation |-> {"resume"}, impact_analysis |-> {"impact", "blast"}, cross_project |-> {"shared"},
     organizational |-> {"org", "blast"}, knowledge_query |-> {"decision", "lesson"}, general |-> {}]

IntentProjections ==
    [continuation |-> {"continuation", "knowledge", "graph", "cross_project", "organization", "organization_graph"},
     knowledge_query |-> {"knowledge", "graph"},
     impact_analysis |-> {"knowledge", "graph", "cross_project", "organization", "organization_graph"},
     cross_project |-> {"cross_project", "organization"},
     organizational |-> {"organization", "organization_graph"},
     general |-> {"knowledge"}]

\* weights in percent: continuation, knowledge, graph, cross_project, organization, organization_graph
IntentWeight(intent, projection) ==
    LET place == [continuation |-> 1, knowledge |-> 2, graph |-> 3,
                  cross_project |-> 4, organization |-> 5, organization_graph |-> 6]
        weights == [continuation |-> <<30, 20, 20, 10, 10, 10>>, knowledge_query |-> <<10, 50, 30, 5, 5, 0>>,
                    impact_analysis |-> <<0, 25, 30, 10, 10, 25>>, cross_project |-> <<0, 20, 10, 40, 25, 5>>,
                    organizational |-> <<0, 10, 5, 20, 30, 35>>, general |-> <<0, 100, 0, 0, 0, 0>>]
    IN weights[intent][place[projection]]

Matched(words) ==
    LET hits == {i \in Intents : words \cap Keyword[i] # {}}
    IN IF hits = {} THEN {"general"} ELSE hits

PrimaryIntent(matched) ==
    LET order == <<"continuation", "impact_analysis", "cross_project", "organizational", "knowledge_query", "general">>
    IN order[SelectInSeq(order, LAMBDA i : i \in matched)]

\* the words of the query refine the profile of the intent, the first profile first
DeriveProfile(words, primary) ==
    LET refinements == <<<<"decision", "DECISION_LOOKUP">>, <<"lesson", "LESSON_DISCOVERY">>>>
        hit == SelectInSeq(refinements, LAMBDA r : r[1] \in words)
        profile == [continuation |-> "WORKFLOW_RETRIEVAL", knowledge_query |-> "KNOWLEDGE_REVIEW",
                    impact_analysis |-> "FAILURE_ANALYSIS", cross_project |-> "PROJECT_OVERVIEW",
                    organizational |-> "ARCHITECTURE_REVIEW", general |-> "GENERAL_SEARCH"]
    IN IF hit # 0 THEN refinements[hit][2] ELSE profile[primary]

Requested(matched) == UNION {IntentProjections[i] : i \in matched}

Share(matched, i, p) == IF i \in matched THEN IntentWeight(i, p) ELSE 0

\* The sum over the intents that matched, which normalising scales.  "selected"
\* holds what was requested, with False for what is not available, and the
\* weights are kept for all of its keys.
Weights(matched) ==
    [p \in Requested(matched) |->
        Share(matched, "continuation", p) + Share(matched, "impact_analysis", p) + Share(matched, "cross_project", p)
        + Share(matched, "organizational", p) + Share(matched, "knowledge_query", p) + Share(matched, "general", p)]

Confidence(matched, words) ==
    IF matched = {"general"} THEN 50
    ELSE LET hits == FoldSet(LAMBDA i, sum : sum + Cardinality(words \cap Keyword[i]), 0, matched)
             of == Min({Cardinality(words), FoldSet(LAMBDA i, sum : sum + Cardinality(Keyword[i]), 0, matched)})
         IN IF 2 * hits >= of THEN 90 ELSE IF 5 * hits >= of THEN 70 ELSE 50

BuildPlan(words, available) ==
    LET matched == Matched(words)
    IN [matched |-> matched, primary |-> PrimaryIntent(matched),
        profile |-> DeriveProfile(words, PrimaryIntent(matched)),
        selected |-> Requested(matched) \cap available, weights |-> Weights(matched),
        confidence |-> Confidence(matched, words),
        reasons |-> matched \cup {<<"unavailable", p>> : p \in Requested(matched) \ available}]

-----------------------------------------------------------------------------
(* memory/ranking.py, retrieval_planner.py, semantic_search.py, citation_builder.py *)

LifecyclePenalty(status) ==
    CASE status = "historical" -> -10 [] status = "superseded" -> -50 [] status = "archived" -> -100 [] OTHER -> 0

\* the logarithm of the reference count, up to the counts of the bound
ReferenceScore(n) == CASE n = 0 -> 0 [] n = 1 -> 7 [] n = 2 -> 11 [] OTHER -> 14

RetrievalScore(r) ==
    r.priority + r.recency + ReferenceScore(r.references) + 2 * r.confidence
    + LifecyclePenalty(r.status)

Booster(profile, type) ==
    CASE profile = "DECISION_LOOKUP" /\ type = "DECISION" -> 5
      [] profile = "DECISION_LOOKUP" /\ type = "DECISION_RATIONALE" -> 4
      [] profile = "FAILURE_ANALYSIS" /\ type = "FAILURE" -> 5
      [] profile = "FAILURE_ANALYSIS" /\ type = "LESSON_LEARNED" -> 4
      [] profile = "ARCHITECTURE_REVIEW" /\ type = "ARCHITECTURE" -> 5
      [] profile = "ARCHITECTURE_REVIEW" /\ type = "DECISION" -> 4
      [] profile = "LESSON_DISCOVERY" /\ type = "LESSON_LEARNED" -> 5
      [] profile = "WORKFLOW_RETRIEVAL" /\ type = "WORKFLOW" -> 5
      [] OTHER -> 1

Boosted(r, profile) == RetrievalScore(r) * Booster(profile, r.type)

\* how many of the query's words the text or the type of a record holds
MatchCount(r, query) == Cardinality(query.words \cap (r.words \cup {r.type}))

\* search_memories_rrf without a semantic provider: every caller passes none
KeywordMatches(records, query) ==
    Sorted(records, {i \in DOMAIN records : MatchCount(records[i], query) > 0},
           [i \in DOMAIN records |-> MatchCount(records[i], query)])

ExecutePlan(records, profile) ==
    Sorted(records, DOMAIN records, [i \in DOMAIN records |-> Boosted(records[i], profile)])

\* a citation keeps the score without the booster, and the events of the record
Citation(r, query) ==
    LET found ==
            (IF query.name \in r.phrases THEN {"keyword_match"} ELSE {})
            \cup (IF r.references > 5 THEN {"high_reference_count"}
                  ELSE IF r.references > 0 THEN {"referenced_active_knowledge"} ELSE {})
            \cup (IF r.priority >= 50 THEN {"critical_priority"}
                  ELSE IF r.priority >= 30 THEN {"high_priority"} ELSE {})
            \cup (IF r.confidence >= 9 THEN {"high_confidence"} ELSE {})
    IN  [id |-> r.id, score |-> RetrievalScore(r), events |-> r.events,
         reasons |-> IF found = {} THEN {"general_relevance"} ELSE found]

-----------------------------------------------------------------------------
(* the providers *)

Lesser(m, n) == IF m < n THEN m ELSE n

First(s, n) == [i \in 1 .. Lesser(n, Len(s)) |-> s[i]]

IdsOf(records) == {records[i].id : i \in DOMAIN records}

\* the record of an id, which is there once
Row(records, id) == records[CHOOSE i \in DOMAIN records : records[i].id = id]

\* search_records: the phrase as it stands, the most urgent records first
SearchRecords(records, query, limit) ==
    First(Sorted(records, {i \in DOMAIN records : query.name \in records[i].phrases},
                 [i \in DOMAIN records |-> records[i].priority]), limit)

\* INSERT OR REPLACE
AddRecord(records, r) == Append(Kept(records, {i \in DOMAIN records : records[i].id # r.id}), r)

-----------------------------------------------------------------------------
(* memory/retrieval.py retrieve_ranked_memories, a read of the provider to a step *)

NoCall == [step |-> "idle"]

RetrievalInit ==
    /\ table = <<>> /\ call = NoCall /\ log = <<>> /\ writes = 0
    /\ broker = [queries |-> 0, cached |-> {}, stored |-> {}, failed |-> 0]

\* the query is analysed before the provider is read; a caller other than the
\* search declares what is available
Plan(query, available, limit) ==
    /\ call.step \in {"idle", "done"}
    /\ call' = [step |-> "planned", query |-> query, limit |-> limit, plan |-> BuildPlan(query.words, available),
                start |-> writes]
    /\ UNCHANGED <<table, log, broker, writes>>

Search ==
    /\ call.step = "planned"
    /\ call' = [step |-> "searched", query |-> call.query, limit |-> call.limit, profile |-> call.plan.profile,
                start |-> call.start, candidates |-> SearchRecords(table, call.query, CANDIDATE_LIMIT)]
    /\ UNCHANGED <<table, log, broker, writes>>

Fallback_Never(candidates, records, limit) == candidates

\* too few for the limit: all records, read again
Fallback(candidates, records, limit) == IF Len(candidates) < limit THEN records ELSE candidates

Cite(candidates, query, profile, limit) ==
    LET top == First(ExecutePlan(KeywordMatches(candidates, query), profile), limit)
    IN  [i \in DOMAIN top |-> Citation(top[i], query)]

Rank ==
    /\ call.step = "searched"
    /\ call' = [step |-> "cited", query |-> call.query, limit |-> call.limit, profile |-> call.profile,
                start |-> call.start, found |-> call.candidates,
                citations |-> Cite(Fallback(call.candidates, table, call.limit), call.query, call.profile, call.limit)]
    /\ UNCHANGED <<table, log, broker, writes>>

\* get_by_ids: the records the citations name, read once more, in the order of the
\* citations
Loaded(citations, records) ==
    LET cited == Kept(citations, {i \in DOMAIN citations : citations[i].id \in IdsOf(records)})
    IN  [i \in DOMAIN cited |-> [record |-> Row(records, cited[i].id), score |-> cited[i].score]]

Load ==
    /\ call.step = "cited"
    /\ call' = [step |-> "done", query |-> call.query, limit |-> call.limit, profile |-> call.profile,
                start |-> call.start, found |-> call.found, citations |-> call.citations,
                pairs |-> Loaded(call.citations, table)]
    /\ UNCHANGED <<table, log, broker, writes>>

-----------------------------------------------------------------------------
(* memory/retrieval_audit.py, memory/consolidation.py *)

AuditFailures(citations, profile, expected_profile, expected_id) ==
    LET at == SelectInSeq(citations, LAMBDA c : c.id = expected_id)
    IN {f \in {"QUERY_MISCLASSIFICATION", "MEMORY_MISS", "RANKING_ERROR", "CITATION_ERROR", "OVER_RETRIEVAL"} :
        \/ f = "QUERY_MISCLASSIFICATION" /\ profile # expected_profile
        \/ f = "MEMORY_MISS" /\ at = 0
        \/ f = "RANKING_ERROR" /\ at > 1
        \/ f = "CITATION_ERROR" /\ \E c \in ToSet(citations) : c.events = {}
        \/ f = "OVER_RETRIEVAL" /\ Len(citations) > 2}

\* a failed append is dropped
Audit(expected_id) ==
    LET failures == AuditFailures(call.citations, call.profile, "GENERAL_SEARCH", expected_id)
    IN /\ call.step = "done" /\ failures # {} /\ Len(log) < MaxLog
       /\ \/ log' = Append(log, [type |-> "RETRIEVAL_AUDITED", failures |-> failures])
          \/ log' = log
       /\ call' = NoCall
       /\ UNCHANGED <<table, broker, writes>>

SimilarRecords(a, b) ==
    /\ a.type = b.type /\ a.words # {} /\ b.words # {}
    /\ 100 * Cardinality(a.words \cap b.words) >= 35 * Cardinality(a.words \cup b.words)

\* one turn of the loop: what an earlier cluster took is passed over
DetectStep(records, clusters, i) ==
    LET visited == UNION ToSet(clusters)
        cluster == {records[i].id} \cup {records[j].id : j \in {j \in i + 1 .. Len(records) :
                        records[j].id \notin visited /\ SimilarRecords(records[i], records[j])}}
    IN IF records[i].id \notin visited /\ Cardinality(cluster) > 1 THEN Append(clusters, cluster) ELSE clusters

ClustersAfter(records) ==
    LET clusters[n \in 0 .. Len(records)] == IF n = 0 THEN <<>> ELSE DetectStep(records, clusters[n - 1], n)
    IN  clusters

DetectCandidates(records) ==
    LET active == Kept(records, {i \in DOMAIN records : records[i].status = "active"})
    IN  ClustersAfter(active)[Len(active)]

\* An append that fails ends the loop; the count reported is that of the candidates.
Consolidate ==
    LET clusters == DetectCandidates(table)
    IN /\ call.step = "idle" /\ clusters # <<>> /\ Len(log) + Len(clusters) <= MaxLog
       /\ \E n \in 0 .. Len(clusters) :
            log' = log \o [i \in 1 .. n |-> [type |-> "CONSOLIDATION_CANDIDATE", members |-> clusters[i]]]
       /\ call' = [step |-> "idle", clusters |-> Len(clusters)]
       /\ UNCHANGED <<table, broker, writes>>

-----------------------------------------------------------------------------
(* memory/memory_broker.py *)

\* execute_query passes project_id and profile to a function that takes neither:
\* the call raises, and the empty context of the except clause is returned,
\* uncached.
ExecuteQuery(query) ==
    /\ broker.queries < MaxLog
    /\ broker' = [broker EXCEPT !.queries = @ + 1]
    /\ UNCHANGED <<table, call, log, writes>>

\* record_memory calls MemoryRecord.generate_id, which is not defined: the
\* except clause answers success = False and nothing is written.
RecordMemory(r) ==
    /\ broker.failed < MaxLog /\ r.id \notin IdsOf(table)
    /\ broker' = [broker EXCEPT !.failed = @ + 1]
    /\ UNCHANGED <<table, call, log, writes>>

-----------------------------------------------------------------------------
(* Writes: cli/commands/memory.py "add", memory/lifecycle.py, memory/reference_tracker.py *)

\* "memory add", and the memory an event yields: the record as it is first
\* recorded, also over one that was superseded or referenced since
Add(r) ==
    /\ writes < MaxWrites
    /\ table' = AddRecord(table, r)
    /\ writes' = writes + 1
    /\ UNCHANGED <<call, log, broker>>

Change(i, r) ==
    /\ writes < MaxWrites /\ r # table[i]
    /\ table' = AddRecord(table, r)
    /\ writes' = writes + 1
    /\ UNCHANGED <<call, log, broker>>

Revised(r, references, status) ==
    [id |-> r.id, type |-> r.type, words |-> r.words, phrases |-> r.phrases, priority |-> r.priority,
     recency |-> r.recency, references |-> references, confidence |-> r.confidence, status |-> status,
     events |-> r.events]

Supersede(i) == Change(i, Revised(table[i], table[i].references, "superseded"))
AddReference(i) == Change(i, Revised(table[i], table[i].references + 1, table[i].status))

RetrievalNext ==
    \/ \E query \in QueryMenu, available \in Availability, limit \in Limits : Plan(query, available, limit)
    \/ Search \/ Rank \/ Load \/ Consolidate
    \/ \E r \in MemoryMenu : Audit(r.id) \/ RecordMemory(r) \/ Add(r)
    \/ \E query \in QueryMenu : ExecuteQuery(query)
    \/ \E i \in DOMAIN table : Supersede(i) \/ AddReference(i)

RetrievalSpec == RetrievalInit /\ [][RetrievalNext]_retrievalVars

-----------------------------------------------------------------------------
(* Properties *)

\* A search cites at most what was asked for, nothing twice, only records that
\* match, and when nothing was written meanwhile no better match is left out:
\* among all records if too few contain the phrase, else among those that do
\* (retrieval.py:42-70, semantic_search.py:57-79).
SearchExact ==
    call.step = "done" =>
        LET ids == {p.record.id : p \in ToSet(call.pairs)}
            pool == IF Len(call.found) < call.limit THEN ToSet(table) ELSE ToSet(call.found)
            missed == {r \in pool : r.id \notin ids /\ MatchCount(r, call.query) > 0}
        IN /\ Len(call.pairs) <= call.limit /\ Cardinality(ids) = Len(call.pairs)
           /\ \A p \in ToSet(call.pairs) : MatchCount(p.record, call.query) > 0
           /\ writes = call.start /\ missed # {} =>
                /\ Len(call.pairs) = call.limit
                /\ \A p \in ToSet(call.pairs), r \in missed : Boosted(p.record, call.profile) >= Boosted(r, call.profile)

\* Every projection a plan selects is given weight, whatever intents matched
\* together (orchestrator.py:157-220).
PlanWeighed ==
    call.step = "planned" =>
        /\ call.plan.selected \subseteq DOMAIN call.plan.weights
        /\ \A p \in call.plan.selected : call.plan.weights[p] > 0

\* No memory is proposed for two consolidations at once (consolidation.py:46-62).
CandidatesDisjoint ==
    LET clusters == DetectCandidates(table)
    IN \A i, j \in DOMAIN clusters : i # j => clusters[i] \cap clusters[j] = {}

\* A search cites the best of what it read, nothing twice, under a plan that
\* weighs what it selects, and no memory is proposed for two consolidations,
\* whatever is written between its reads (retrieval.py, orchestrator.py,
\* consolidation.py).
SearchSound == SearchExact /\ PlanWeighed /\ CandidatesDisjoint

-----------------------------------------------------------------------------
(* Statements the code does not keep *)

\* A projection that is not available is given no weight (orchestrator.py:213).
UnavailableWeighsNothing ==
    call.step = "planned" => \A p \in DOMAIN call.plan.weights : p \in call.plan.selected

\* The score shown with a record is the score of that record: the record is read
\* again after it was scored (retrieval.py:116-126).
ScoreIsOfRecord ==
    call.step = "done" => \A p \in ToSet(call.pairs) : p.score = RetrievalScore(p.record)

\* The best match is cited: the provider cuts by priority before the profile's
\* boosters are applied (retrieval.py:44), and the phrase hides the keywords.
BestIsCited ==
    call.step = "done" /\ writes = call.start /\ call.pairs # <<>> =>
        \A r \in ToSet(table) : MatchCount(r, call.query) > 0 =>
            Boosted(call.pairs[1].record, call.profile) >= Boosted(r, call.profile)

\* Recording a memory again does not undo its supersession (cli/commands/memory.py:70).
SupersededStays ==
    [][\A i \in DOMAIN table : table[i].status = "superseded" =>
        \A j \in DOMAIN table' : table'[j].id = table[i].id => table'[j].status = "superseded"]_retrievalVars

\* "Emitted events to ledger" (cli/commands/memory.py:209) is how many were emitted.
EmittedIsLogged ==
    "clusters" \in DOMAIN call => Cardinality({i \in DOMAIN log : log[i].type = "CONSOLIDATION_CANDIDATE"}) >= call.clusters

\* "context = broker.execute_query(query)  # Read path" (docs/v2.6_memory_integration_freeze.md:126):
\* a query that was executed can be found in the broker's cache.
QueriesCached == broker.queries > 0 => broker.cached # {}
=============================================================================
