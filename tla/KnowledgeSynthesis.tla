------------------------- MODULE KnowledgeSynthesis -------------------------
(***************************************************************************)
(* "rationalevault knowledge synthesize": the synthesizer                  *)
(* (knowledge/synthesizer.py) turns the memories of a project into         *)
(* knowledge objects, and the knowledge store (knowledge/store.py) keeps   *)
(* them, in a table or in knowledge.md.                                    *)
(*                                                                         *)
(* A text is a record: the words it is made of, and its spelling, which is *)
(* what normalisation (case, white space) drops.  Confidences and          *)
(* similarities are whole percents.                                        *)
(***************************************************************************)
EXTENDS Integers, Sequences, FiniteSets, SequencesExt

CONSTANTS
    ProjectOf,      \* per process: the project of its project.yaml
    MemoryMenu,     \* the memories that may be recorded
    Processes,      \* processes that run the command
    Backends,       \* the providers get_knowledge_provider may return
    MaxSyntheses,   \* bound on the commands started
    Absent          \* no row, no replacement

VARIABLES
    backend,    \* the provider configured in project.yaml
    corpus,     \* the memories, in the order of get_all_records
    table,      \* the stored knowledge objects, in the store's order
    command,    \* per process: [step, existing, todo, held]
    reported,   \* the objects of the syntheses that have ended
    syntheses   \* commands started so far

knowledgeVars == <<backend, corpus, table, command, reported, syntheses>>

-----------------------------------------------------------------------------
(* knowledge/models.py *)

KnowledgeType == {"ARCHITECTURE_PRINCIPLE", "PROJECT_INVARIANT", "LESSON", "FAILURE_PATTERN",
                  "WORKFLOW_PATTERN", "RESEARCH_FINDING", "DECISION_LINEAGE"}

KnowledgeLifecycle == {"ACTIVE", "STALE", "SUPERSEDED", "ARCHIVED"}

is_transferable(transferability) == transferability \in {"REUSABLE", "ORGANIZATIONAL"}

\* case and white space do not reach the digest
generate_knowledge_id(type, title, texts, project) ==
    <<type, project, title, [i \in DOMAIN texts |-> texts[i].words]>>

Bounded(low, x, high) == IF x < low THEN low ELSE IF x > high THEN high ELSE x

KnowledgeConfidence(memory_count, total, contradiction_count) ==
    IF memory_count = 0 THEN 0
    ELSE Bounded(0, total \div memory_count + Bounded(0, 5 * memory_count, 20) - 15 * contradiction_count, 100)

\* A ProjectInvariant overwrites its importance and transferability when it is made.
KnowledgeObject(type, domain, title, texts, importance, transferability, memories, tags) ==
    LET invariant == type = "PROJECT_INVARIANT"
        total == FoldSeq(LAMBDA m, sum : sum + m.confidence, 0, memories)
    IN [id |-> generate_knowledge_id(type, title, texts, memories[1].project), version |-> 1,
        title |-> title, content |-> texts, type |-> type, domain |-> domain,
        importance |-> IF invariant THEN "critical" ELSE importance,
        transferability |-> IF invariant THEN "ORGANIZATIONAL" ELSE transferability,
        confidence |-> KnowledgeConfidence(Len(memories), total, 0), tags |-> tags,
        sources |-> {memories[i].id : i \in DOMAIN memories},
        events |-> UNION {memories[i].events : i \in DOMAIN memories},
        lifecycle |-> "ACTIVE", superseded_by |-> Absent, project |-> memories[1].project]

-----------------------------------------------------------------------------
(* knowledge/synthesizer.py *)

\* memory/consolidation.py jaccard_similarity(a, b) >= threshold percent
Similar(a, b, threshold) ==
    /\ a.words # {} /\ b.words # {}
    /\ 100 * Cardinality(a.words \cap b.words) >= threshold * Cardinality(a.words \cup b.words)

ClusterStep_Unvisited(memories, threshold, clusters, i) ==
    LET cluster == <<memories[i]>>
                   \o SelectSeq(SubSeq(memories, i + 1, Len(memories)),
                                LAMBDA m : Similar(memories[i].content, m.content, threshold))
    IN IF Len(cluster) > 1 THEN Append(clusters, cluster) ELSE clusters

\* one turn of the loop: memories of an earlier cluster are passed over, and a
\* memory alone founds no cluster
ClusterStep(memories, threshold, clusters, i) ==
    LET visited == UNION {{c[j].id : j \in DOMAIN c} : c \in ToSet(clusters)}
        cluster == <<memories[i]>>
                   \o SelectSeq(SubSeq(memories, i + 1, Len(memories)),
                                LAMBDA m : /\ m.id \notin visited
                                           /\ Similar(memories[i].content, m.content, threshold))
    IN IF memories[i].id \notin visited /\ Len(cluster) > 1 THEN Append(clusters, cluster) ELSE clusters

Clusters(memories, threshold) ==
    FoldLeftDomain(LAMBDA clusters, i : ClusterStep(memories, threshold, clusters, i), <<>>, memories)

Contents(cluster) == [i \in DOMAIN cluster |-> cluster[i].content]

\* the numbering of the merged lines is left out: it depends on the length only
MergedContent(cluster) == Contents(cluster)

Rank(importance) ==
    CASE importance = "critical" -> 0 [] importance = "high" -> 1 [] importance = "low" -> 3 [] OTHER -> 2

\* the first of the most important
PrincipalTitle(cluster) ==
    LET best == CHOOSE i \in DOMAIN cluster :
                    \A j \in DOMAIN cluster :
                        \/ Rank(cluster[i].importance) < Rank(cluster[j].importance)
                        \/ Rank(cluster[i].importance) = Rank(cluster[j].importance) /\ i <= j
    IN cluster[best].title

ClusterTags(cluster) == UNION {cluster[i].tags : i \in DOMAIN cluster}

OfType(memories, type) == SelectSeq(memories, LAMBDA m : m.type = type)

MapSeq(s, Op(_)) == [i \in DOMAIN s |-> Op(s[i])]

SaysInvariant(m) ==
    \/ m.content.words \cap {"must", "never", "always", "required"} # {}
    \/ m.tags \cap {"invariant", "always", "never", "required", "must"} # {}

ProjectInvariants(memories) ==
    MapSeq(SelectSeq(OfType(memories, "ARCHITECTURE"),
                     LAMBDA m : m.importance = "critical" /\ SaysInvariant(m)),
           LAMBDA m : KnowledgeObject("PROJECT_INVARIANT", "ARCHITECTURE", m.title, <<m.content>>,
                                      "critical", "ORGANIZATIONAL", <<m>>, m.tags \cup {"invariant"}))

FromCluster(type, domain, importance, transferability, cluster) ==
    KnowledgeObject(type, domain, PrincipalTitle(cluster), MergedContent(cluster), importance,
                    transferability, cluster, ClusterTags(cluster))

OverlapsWithCluster(m, cluster) == \E i \in DOMAIN cluster : Similar(m.content, cluster[i].content, 30)

\* every memory in no cluster is a principle of its own
ArchitecturePrinciples(memories) ==
    LET arch == OfType(memories, "ARCHITECTURE")
        clusters == Clusters(arch, 40)
        clustered == UNION {{c[j].id : j \in DOMAIN c} : c \in ToSet(clusters)}
        alone == SelectSeq(arch, LAMBDA m : m.id \notin clustered)
        Supporters(type, c) == Contents(SelectSeq(OfType(memories, type), LAMBDA m : OverlapsWithCluster(m, c)))
        Principle(c) == FromCluster("ARCHITECTURE_PRINCIPLE", "ARCHITECTURE", "critical", "LOCAL_ONLY", c)
                        @@ [supporting_decisions |-> Supporters("DECISION", c),
                            supporting_rationales |-> Supporters("DECISION_RATIONALE", c)]
    IN MapSeq(clusters \o MapSeq(alone, LAMBDA m : <<m>>), Principle)

Patterns(memories, memory_type, threshold, type, domain, importance) ==
    MapSeq(Clusters(OfType(memories, memory_type), threshold),
           LAMBDA c : FromCluster(type, domain, importance, "REUSABLE", c))

Lessons(memories) == Patterns(memories, "LESSON_LEARNED", 35, "LESSON", "PROCESS", "medium")
FailurePatterns(memories) == Patterns(memories, "FAILURE", 35, "FAILURE_PATTERN", "QUALITY", "high")
WorkflowPatterns(memories) == Patterns(memories, "WORKFLOW", 35, "WORKFLOW_PATTERN", "PROCESS", "medium")
ResearchFindings(memories) == Patterns(memories, "RESEARCH", 40, "RESEARCH_FINDING", "RESEARCH", "medium")

\* the first rationale that names the decision or is similar to it
MatchingRationale(decision, rationales) ==
    SelectInSeq(rationales, LAMBDA r : \/ decision.id \in r.events
                                       \/ Similar(decision.content, r.content, 20))

DecisionLineage(memories) ==
    LET rationales == OfType(memories, "DECISION_RATIONALE")
        Lineage(d) ==
            LET i == MatchingRationale(d, rationales)
                sources == IF i = 0 THEN <<d>> ELSE <<d, rationales[i]>>
            IN [KnowledgeObject("DECISION_LINEAGE", "ARCHITECTURE", d.title, Contents(sources),
                                d.importance, "LOCAL_ONLY", sources, d.tags) EXCEPT !.events = d.events]
    IN MapSeq(OfType(memories, "DECISION"), Lineage)

SynthesizeAll(memories) ==
    ProjectInvariants(memories) \o ArchitecturePrinciples(memories) \o Lessons(memories)
    \o FailurePatterns(memories) \o WorkflowPatterns(memories) \o ResearchFindings(memories)
    \o DecisionLineage(memories)

MarkStale_AnyType(current, old) ==
    IF \E k \in ToSet(current) : k.sources \cap old.sources # {}
    THEN [old EXCEPT !.lifecycle = "SUPERSEDED",
                     !.superseded_by = (CHOOSE k \in ToSet(current) : k.sources \cap old.sources # {}).id]
    ELSE [old EXCEPT !.lifecycle = "STALE"]

\* the first object of the same type that shares most memories replaces it
MarkStale(current, old) ==
    LET Overlap(i) == IF current[i].type = old.type THEN Cardinality(current[i].sources \cap old.sources) ELSE 0
        best == CHOOSE i \in 0 .. Len(current) :
                    \/ i = 0 /\ \A j \in DOMAIN current : Overlap(j) = 0
                    \/ /\ i > 0 /\ Overlap(i) > 0
                       /\ \A j \in DOMAIN current : Overlap(j) <= Overlap(i) /\ (j < i => Overlap(j) < Overlap(i))
        covered == UNION {k.sources : k \in ToSet(current)}
    IN IF best > 0 THEN [old EXCEPT !.lifecycle = "SUPERSEDED", !.superseded_by = current[best].id]
       ELSE IF old.sources \cap covered = {} THEN [old EXCEPT !.lifecycle = "STALE"]
       ELSE old

-----------------------------------------------------------------------------
(* knowledge/store.py: the providers, and the command that fills them *)

Rows(records, id) == SelectSeq(records, LAMBDA k : k.id = id)

KInit ==
    /\ backend \in Backends
    /\ corpus = <<>>
    /\ table = <<>>
    /\ command = [p \in Processes |-> [step |-> "idle", existing |-> <<>>, todo |-> <<>>, made |-> {}, held |-> <<>>]]
    /\ reported = {}
    /\ syntheses = 0

\* add_record of the memory provider: the same memory, respelled, takes its place
Remember(m) ==
    /\ corpus' = LET i == SelectInSeq(corpus, LAMBDA c : c.id = m.id)
                 IN IF i = 0 THEN Append(corpus, m) ELSE [corpus EXCEPT ![i] = m]
    /\ corpus' # corpus
    /\ UNCHANGED <<backend, table, command, reported, syntheses>>

\* cli/commands/knowledge.py handler, "synthesize": the stored knowledge first
ReadExisting(p) ==
    /\ command[p].step = "idle" /\ syntheses < MaxSyntheses
    /\ command' = [command EXCEPT ![p].step = "synthesize", ![p].existing = table]
    /\ syntheses' = syntheses + 1
    /\ UNCHANGED <<backend, corpus, table, reported>>

\* ... then the memories of the project; what is superseded is marked on the
\* copies the command read, and nothing writes those back
Synthesize(p) ==
    LET current == SynthesizeAll(SelectSeq(corpus, LAMBDA m : m.project = ProjectOf[p]))
    IN /\ command[p].step = "synthesize"
       /\ command' = [command EXCEPT ![p].step = IF current = <<>> THEN "idle" ELSE "add",
                                     ![p].existing = MapSeq(@, LAMBDA k : MarkStale(current, k)),
                                     ![p].todo = current, ![p].made = ToSet(current)]
       /\ UNCHANGED <<backend, corpus, table, reported, syntheses>>

\* add_knowledge reads the row (or the whole file) ...
AddRead(p) ==
    /\ command[p].step = "add"
    /\ command' = [command EXCEPT ![p].step = "write", ![p].held = table]
    /\ UNCHANGED <<backend, corpus, table, reported, syntheses>>

\* the version counts the spellings of one id; an object stored as it was
\* starts again at its own version, 1
Versioned(k, held) ==
    LET old == Rows(held, k.id)
    IN IF old # <<>> /\ old[1].content # k.content THEN [k EXCEPT !.version = old[1].version + 1] ELSE k

Stored_WholeTable(k, held, now) ==
    IF Rows(held, k.id) = <<>> THEN Append(held, k)
    ELSE MapSeq(held, LAMBDA r : IF r.id = k.id THEN k ELSE r)

\* INSERT OR REPLACE gives the row a new place; the file is rewritten from what was read
Stored(k, held, now) ==
    IF backend = "sqlite" THEN Append(SelectSeq(now, LAMBDA r : r.id # k.id), k)
    ELSE IF Rows(held, k.id) = <<>> THEN Append(held, k)
    ELSE MapSeq(held, LAMBDA r : IF r.id = k.id THEN k ELSE r)

AddWrite(p) ==
    LET c == command[p]
    IN /\ c.step = "write"
       /\ table' = Stored(Versioned(Head(c.todo), c.held), c.held, table)
       /\ command' = [command EXCEPT ![p].todo = Tail(@), ![p].held = <<>>,
                                     ![p].step = IF Len(c.todo) = 1 THEN "idle" ELSE "add"]
       /\ reported' = IF Len(c.todo) = 1 THEN reported \cup c.made ELSE reported
       /\ UNCHANGED <<backend, corpus, syntheses>>

\* update_lifecycle: one UPDATE of the row; the file is read, then rewritten
UpdateLifecycle(p, id) ==
    LET Archived(records) == MapSeq(records, LAMBDA k : IF k.id = id THEN [k EXCEPT !.lifecycle = "ARCHIVED"] ELSE k)
    IN /\ command[p].step = "idle" /\ syntheses < MaxSyntheses
       /\ IF backend = "sqlite"
          THEN table' = Archived(table) /\ UNCHANGED command
          ELSE command' = [command EXCEPT ![p].step = "rewrite", ![p].held = Archived(table)] /\ UNCHANGED table
       /\ syntheses' = syntheses + 1
       /\ UNCHANGED <<backend, corpus, reported>>

RewriteFile(p) ==
    /\ command[p].step = "rewrite"
    /\ table' = command[p].held
    /\ command' = [command EXCEPT ![p].step = "idle", ![p].held = <<>>]
    /\ UNCHANGED <<backend, corpus, reported, syntheses>>

KnowledgeNext ==
    \/ \E m \in MemoryMenu : Remember(m)
    \/ \E p \in Processes : ReadExisting(p) \/ Synthesize(p) \/ AddRead(p) \/ AddWrite(p) \/ RewriteFile(p)
    \/ \E p \in Processes : \E i \in DOMAIN table : UpdateLifecycle(p, table[i].id)

KnowledgeSpec == KInit /\ [][KnowledgeNext]_knowledgeVars

-----------------------------------------------------------------------------
(* Properties *)

\* What a command reported as synthesized is in the table, whatever other
\* commands on the same database did meanwhile (store.py:120-166).
SynthesisSticks ==
    backend = "sqlite" => \A k \in reported : Rows(table, k.id) # <<>>

\* The store holds one object per id, also when commands race (store.py:85, 335-341).
OneRowPerId ==
    \A i, j \in DOMAIN table : table[i].id = table[j].id => i = j

\* Every architecture memory supports exactly one principle and every other
\* memory at most one object of a type, although the clusters are grown
\* greedily from a similarity that is not transitive (synthesizer.py:486-508).
EachMemoryCountedOnce ==
    \A q \in {ProjectOf[p] : p \in Processes} :
        LET memories == SelectSeq(corpus, LAMBDA m : m.project = q)
            all == SynthesizeAll(memories)
            Citing(m, type) == {i \in DOMAIN all : all[i].type = type /\ m.id \in all[i].sources}
        IN \A i \in DOMAIN memories :
            LET m == memories[i]
            IN /\ m.type = "ARCHITECTURE" => Cardinality(Citing(m, "ARCHITECTURE_PRINCIPLE")) = 1
               /\ m.type # "DECISION_RATIONALE" => \A type \in KnowledgeType : Cardinality(Citing(m, type)) <= 1

\* An object marked superseded names a replacement of its own type that was
\* made from some of the same memories, and one marked stale rests on no memory
\* that still supports anything (synthesizer.py:576-606).
ReplacementsTrue ==
    \A p \in Processes :
        command[p].step \in {"add", "write"} =>
            \A i \in DOMAIN command[p].existing :
                LET old == command[p].existing[i]
                IN /\ old.lifecycle = "SUPERSEDED" =>
                        \E k \in command[p].made : /\ k.id = old.superseded_by
                                                   /\ k.type = old.type
                                                   /\ k.sources \cap old.sources # {}
                   /\ old.lifecycle = "STALE" => \A k \in command[p].made : k.sources \cap old.sources = {}

-----------------------------------------------------------------------------
(* Statements the code does not keep *)

\* A version is never taken back: storing the same spelling again does.
VersionsGrow ==
    [][\A i \in DOMAIN table : \A j \in DOMAIN table' :
        table'[j].id = table[i].id => table'[j].version >= table[i].version]_knowledgeVars

\* The file keeps what a command reported: two commands lose each other's objects.
FileKeepsAll == backend = "markdown" => \A k \in reported : Rows(table, k.id) # <<>>

\* What a synthesis finds stale or superseded is stored as such: nothing stores it.
StalenessStored ==
    \A p \in Processes : command[p].step = "idle" =>
        \A i \in DOMAIN command[p].existing :
            command[p].existing[i].lifecycle # "ACTIVE" =>
                \A j \in DOMAIN table : table[j].id = command[p].existing[i].id => table[j].lifecycle # "ACTIVE"
=============================================================================
