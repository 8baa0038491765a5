----------------------------- MODULE Governance -----------------------------
(***************************************************************************)
(* Recommendations, governance rules and the timeline, three projections   *)
(* of one event stream, and "governance show" (governance/cli.py and the   *)
(* governance tool of mcp/tools.py), which compiles the rules and then the *)
(* recommendations, each from the stream as it is at that moment, and      *)
(* warns where they meet.  An event is on the day of its sequence number;  *)
(* priorities are in hundredths, texts are left out.                       *)
(***************************************************************************)
EXTENDS Integers, Sequences, FiniteSets, SequencesExt

CONSTANTS
    EventMenu,      \* the events a behaviour may append
    MaxStream, MaxShows,
    Unset             \* a condition that is None

VARIABLES
    stream,     \* the project's events
    reading,    \* the governance state a call has compiled, or Idle
    shown       \* what every finished call showed, oldest first

\* what the proofs need of the events: a minimum confidence is a number
GovernanceAssumption ==
    \A e \in EventMenu : e.type \in {"GOVERNANCE_RULE_CREATED", "GOVERNANCE_RULE_UPDATED"} =>
        e.rule.minimum \in Int \cup {Unset}

gvars == <<stream, reading, shown>>

Idle == [at |-> -1]

RecommendationCategory == {"next_action", "knowledge_gap", "risk", "optimization", "follow_up"}
GovernanceSeverity == {"info", "warning", "critical"}
GovernanceAction == {"notify", "block", "suggest", "log"}

-----------------------------------------------------------------------------
(* RecommendationProjection *)

\* the five rules of create_default_registry: what they react to, and what they
\* recommend
Advise(rule, category, priority, e, seq) ==
    {[id |-> <<rule, e.entity, seq>>, entity |-> e.entity, category |-> category,
      priority |-> priority, evidence |-> {seq}, created |-> seq]}

KnowledgeGapRule(e, seq) ==
    IF e.type = "KNOWLEDGE_CREATED" /\ ~ e.related
    THEN Advise("knowledge_gap_rule", "knowledge_gap", 85, e, seq) ELSE {}

TaskFollowUpRule(e, seq) ==
    IF e.type = "TASK_COMPLETED" THEN Advise("task_follow_up_rule", "follow_up", 65, e, seq) ELSE {}

DecisionReviewRule(e, seq) ==
    IF e.type = "DECISION_ACCEPTED"
    THEN Advise("decision_review_rule", "optimization", 55, e, seq) ELSE {}

QuestionResolutionRule(e, seq) ==
    IF e.type = "OPEN_QUESTION_RESOLVED"
    THEN Advise("question_resolution_rule", "next_action", 75, e, seq) ELSE {}

KnowledgeDeletionRiskRule(e, seq) ==
    IF e.type = "KNOWLEDGE_DELETED"
    THEN Advise("knowledge_deletion_risk_rule", "risk", 45, e, seq) ELSE {}

Rules(e, seq) ==
    KnowledgeGapRule(e, seq) \cup TaskFollowUpRule(e, seq) \cup DecisionReviewRule(e, seq)
        \cup QuestionResolutionRule(e, seq) \cup KnowledgeDeletionRiskRule(e, seq)

\* reduce: by id, an id names its event, so nothing is ever replaced or removed
Recommendations(events) == UNION {Rules(events[i], i) : i \in DOMAIN events}

\* RecommendationRuntime: filter, enrich and rank.  The dependency reader has no
\* read method, so the similarity is always 1.
Filter(recs, entity, category) ==
    {r \in recs : (entity = Unset \/ r.entity = entity) /\ (category = Unset \/ r.category = category)}

\* Mutant: older counts for more
Outranks_Stale(r, s, now) ==
    r.priority * (10 + now - r.created) > s.priority * (10 + now - s.created)

\* priority * 1 / (1 + age / 10)
Outranks(r, s, now) ==
    r.priority * (10 + now - s.created) > s.priority * (10 + now - r.created)

\* search: the first k of the filtered, ties in any order
IsSearchResult(top, recs, entity, category, now, k) ==
    LET found == Filter(recs, entity, category) IN
    /\ top \subseteq found
    /\ Cardinality(top) = IF Cardinality(found) < k THEN Cardinality(found) ELSE k
    /\ \A r \in found \ top : \A s \in top : ~ Outranks(r, s, now)

-----------------------------------------------------------------------------
(* TimelineProjection *)

\* Mutant: a deletion is not told
Category_NoDeletion(type) ==
    CASE type \in {"KNOWLEDGE_CREATED", "KNOWLEDGE_UPDATED"} -> "knowledge"
      [] type \in {"DECISION_ACCEPTED"} -> "decision"
      [] type \in {"TASK_COMPLETED"} -> "task"
      [] type \in {"OPEN_QUESTION_RESOLVED"} -> "question"
      [] OTHER -> "none"

\* MAPPINGS; a type that is not in it gives no entry
Category(type) ==
    CASE type \in {"PROJECT_CREATED", "PROJECT_GOAL_SET", "PROJECT_FOCUS_CHANGED",
                   "KNOWLEDGE_PROMOTION_APPROVED", "KNOWLEDGE_PROMOTION_REJECTED"} -> "milestone"
      [] type \in {"TASK_CREATED", "TASK_COMPLETED"} -> "task"
      [] type \in {"DECISION_PROPOSED", "DECISION_ACCEPTED", "DECISION_SUPERSEDED",
                   "GOVERNANCE_DECISION_RECORDED"} -> "decision"
      [] type \in {"OPEN_QUESTION_RAISED", "OPEN_QUESTION_RESOLVED"} -> "question"
      [] type \in {"KNOWLEDGE_CREATED", "KNOWLEDGE_UPDATED", "KNOWLEDGE_DELETED",
                   "KNOWLEDGE_SYNTHESIZED"} -> "knowledge"
      [] type = "MEMORY_RECORDED" -> "memory"
      [] type = "SKILL_EXECUTED" -> "system"
      [] OTHER -> "none"

NormalizeEvent(e, seq) == [sequence |-> seq, type |-> e.type, category |-> Category(e.type)]

\* reduce: the entries of the first n events
EntriesAfter(events) ==
    LET told[n \in 0..Len(events)] ==
            IF n = 0 THEN <<>>
            ELSE IF Category(events[n].type) = "none" THEN told[n - 1]
            ELSE Append(told[n - 1], NormalizeEvent(events[n], n))
    IN  told

Timeline(events) == EntriesAfter(events)[Len(events)]

-----------------------------------------------------------------------------
(* GovernanceProjection *)

\* GovernanceCondition.severities is parsed and never consulted
GovernanceRule(id, version, categories, minimum, severity, action, enabled) ==
    [id |-> id, version |-> version, categories |-> categories, minimum |-> minimum,
     severity |-> severity, action |-> action, enabled |-> enabled]

Key(rule) == <<rule.id, rule.version>>

\* Mutant: a deletion removes every version
RuleStep_DeletesAll(rules, e) ==
    CASE e.type \in {"GOVERNANCE_RULE_CREATED", "GOVERNANCE_RULE_UPDATED"} ->
            {r \in rules : Key(r) # Key(e.rule)} \cup {e.rule}
      [] e.type = "GOVERNANCE_RULE_DELETED" -> {r \in rules : r.id # e.key[1]}
      [] OTHER -> rules

\* reduce: created and updated replace, deleted removes one version
RuleStep(rules, e) ==
    CASE e.type \in {"GOVERNANCE_RULE_CREATED", "GOVERNANCE_RULE_UPDATED"} ->
            {r \in rules : Key(r) # Key(e.rule)} \cup {e.rule}
      [] e.type = "GOVERNANCE_RULE_DELETED" -> {r \in rules : Key(r) # e.key}
      [] OTHER -> rules

RulesAfter(events) ==
    LET rules[n \in 0..Len(events)] == IF n = 0 THEN {} ELSE RuleStep(rules[n - 1], events[n])
    IN  rules

ReduceRules(events) == RulesAfter(events)[Len(events)]

\* _parse_rule raises on an event without an id or with an unknown severity,
\* action or category, and with it every later compile of this stream
Malformed(events) == \E i \in DOMAIN events : events[i].type = "MALFORMED_RULE"

\* DefaultEvidenceProvider.collect
Matches(rule, rec) ==
    /\ rule.categories = Unset \/ rec.category \in rule.categories
    /\ rule.minimum = Unset \/ rec.priority >= rule.minimum

\* evaluate_rules: of enabled rules only; the evidence of all matched
\* recommendations together
EvaluateRule(rule, recs) ==
    LET matched == {r \in recs : Matches(rule, r)}
    IN  [rule |-> rule, matched |-> matched # {}, entities |-> {r.entity : r \in matched},
         evidence |-> UNION {r.evidence : r \in matched}]

EvaluateRules(rules, recs) == {EvaluateRule(r, recs) : r \in {q \in rules : q.enabled}}

\* Mutant: the warning is named after the latest evidence
Trigger_Latest(evidence) == CHOOSE s \in evidence : \A t \in evidence : t <= s

\* evidence[0] of the sorted list
Trigger(evidence) == CHOOSE s \in evidence : \A t \in evidence : s <= t

\* generate_warnings: one per rule and entity
GenerateWarnings(evaluations) ==
    UNION {{[id |-> <<Key(v.rule), entity, Trigger(v.evidence)>>, rule |-> v.rule,
             entity |-> entity, evidence |-> v.evidence] : entity \in v.entities} :
           v \in {u \in evaluations : u.matched}}

\* GovernanceRuntime.search without a limit
SearchWarnings(warnings, severity, action) ==
    {w \in warnings : (severity = Unset \/ w.rule.severity = severity)
                      /\ (action = Unset \/ w.rule.action = action)}

-----------------------------------------------------------------------------
(* governance show *)

GInit == stream = <<>> /\ reading = Idle /\ shown = <<>>

Append1(e) ==
    /\ Len(stream) < MaxStream
    /\ stream' = Append(stream, e)
    /\ UNCHANGED <<reading, shown>>

\* get_projection_state("governance"): on any exception the call goes on with no
\* rules and no recommendations; without a project it has one default rule, and
\* still no recommendations to match it
ReadRules ==
    /\ reading = Idle /\ Len(shown) < MaxShows
    /\ reading' = [at |-> Len(stream), failed |-> Malformed(stream),
                   rules |-> IF Malformed(stream) THEN {} ELSE ReduceRules(stream)]
    /\ UNCHANGED <<stream, shown>>

\* get_projection_state("recommendation"), evaluate_rules, generate_warnings
Show ==
    /\ reading # Idle
    /\ LET recs == IF reading.failed THEN {} ELSE Recommendations(stream)
           warnings == GenerateWarnings(EvaluateRules(reading.rules, recs))
       IN  shown' = Append(shown, [rulesAt |-> reading.at, recsAt |-> Len(stream),
                                   failed |-> reading.failed, rules |-> reading.rules,
                                   warnings |-> SearchWarnings(warnings, Unset, Unset)])
    /\ reading' = Idle
    /\ UNCHANGED stream

GNext == ReadRules \/ Show \/ \E e \in EventMenu : Append1(e)

GSpec == GInit /\ [][GNext]_gvars

-----------------------------------------------------------------------------
(* Properties *)

Prefix(n) == SubSeq(stream, 1, n)

\* of the first n events the k-th is the last word on the rule it creates or updates
InForce(events, k, n) ==
    /\ events[k].type \in {"GOVERNANCE_RULE_CREATED", "GOVERNANCE_RULE_UPDATED"}
    /\ \A l \in k + 1..n :
          /\ events[l].type = "GOVERNANCE_RULE_DELETED" => events[l].key # Key(events[k].rule)
          /\ events[l].type \in {"GOVERNANCE_RULE_CREATED", "GOVERNANCE_RULE_UPDATED"}
                 => Key(events[l].rule) # Key(events[k].rule)

\* the entities the rule asks for
Asked(rule, recs) ==
    {r.entity : r \in {q \in recs : /\ rule.categories = Unset \/ q.category \in rule.categories
                                    /\ rule.minimum = Unset \/ ~ (q.priority < rule.minimum)}}

Due(s) ==
    UNION {{<<Key(stream[k].rule), x>> : x \in Asked(stream[k].rule, Recommendations(Prefix(s.recsAt)))} :
              k \in {j \in 1..s.rulesAt : InForce(stream, j, s.rulesAt) /\ stream[j].rule.enabled}}

\* A call that reads rules and recommendations at two moments warns of exactly
\* the entities some event up to the second moment gives a recommendation for
\* that an enabled rule of the first moment asks for.  What asks for what is
\* said here again, over the events.
WarningsExact ==
    \A i \in DOMAIN shown :
        {<<Key(w.rule), w.entity>> : w \in shown[i].warnings} = IF shown[i].failed THEN {} ELSE Due(shown[i])

\* A warning keeps its id as long as its rule is in force: whatever is appended
\* in between, a later call shows every warning of an earlier one again, unless
\* the rule was changed or a malformed rule event arrived.
WarningsPersist ==
    \A i, j \in DOMAIN shown : i < j /\ ~ shown[j].failed =>
        \A w \in shown[i].warnings :
            w.rule \in shown[j].rules => \E v \in shown[j].warnings : v.id = w.id

\* What a search leaves out for one rule is never newer than what it returns.
FreshFirst ==
    LET recs == Recommendations(stream)
        now == Len(stream)
    IN  \A top \in SUBSET recs :
            IsSearchResult(top, recs, Unset, Unset, now, 1) =>
                \A r \in recs \ top : \A s \in top :
                    r.category = s.category => r.created <= s.created

\* Every event that gives a recommendation is told by the timeline, and entries
\* are in the order of the stream.
AdviceNarrated ==
    LET entries == Timeline(stream) IN
    /\ \A r \in Recommendations(stream) : \A s \in r.evidence :
          \E i \in DOMAIN entries : entries[i].sequence = s
    /\ \A i, j \in DOMAIN entries : i < j => entries[i].sequence < entries[j].sequence

\* The warnings shown are those of the rules and the events shown, they stay
\* until an event settles them, the freshest come first and each is explained
\* (governance/runtime.py, recommendation/).
GovernanceSound == WarningsExact /\ WarningsPersist /\ FreshFirst /\ AdviceNarrated

\* The rule of a warning is still in force when it is shown: refuted by a
\* deletion between the two compiles.
RuleStillInForce ==
    \A i \in DOMAIN shown : \A w \in shown[i].warnings :
        w.rule \in ReduceRules(Prefix(shown[i].recsAt))

\* A malformed rule event does not silence the other rules: refuted.
OthersStillWarn == \A i \in DOMAIN shown : ~ shown[i].failed
=============================================================================
