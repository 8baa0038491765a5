------------------------- MODULE KnowledgePromotion -------------------------
(***************************************************************************)
(* The promotion of what was learned to knowledge                          *)
(* (knowledge/promotion_pipeline.py, promotion_models.py,                  *)
(* promotion_materializer.py, promotion_events.py): a candidate gathers    *)
(* evidence, is assessed, gated by a policy and decided on, and an         *)
(* approved one becomes a knowledge object.                                *)
(*                                                                         *)
(* Confidences are percents.  An id is the tuple that is hashed, so equal  *)
(* ids are equal times and sources.                                        *)
(***************************************************************************)
EXTENDS Integers, Sequences, FiniteSets

CONSTANTS
    Confidences,    \* the confidences a candidate may have
    Policies,       \* the gate policies in use
    Domains,        \* knowledge domains
    Wordings,       \* texts a candidate may have
    MaxEvidence,    \* bound on the evidence of one kind
    MaxReports,     \* bound on the pipeline runs
    MaxTime         \* bound on the clock

\* what gates a promotion
PromotionGatePolicy == [min_confidence : Int, min_supporting : Int, max_contradicting : Int, no_contradictions : BOOLEAN]

\* what the proofs need of the constants
PromotionAssumption == Confidences \subseteq Int /\ Policies \subseteq PromotionGatePolicy

VARIABLES
    clock,      \* created_at
    candidate,  \* the promotion candidate being prepared
    reports,    \* the reports made, oldest first
    knowledge   \* the objects materialized from them

promotionVars == <<clock, candidate, reports, knowledge>>

-----------------------------------------------------------------------------
(* promotion_models.py *)

PromotionDecisionType == {"APPROVE", "REJECT", "DEFER"}

\* neither the title nor the content reaches the id
CandidateId(c, now) == <<"PROMO", c.sources, c.type, now>>
DecisionId(cid, decision, now) == <<"PD", cid, decision, now>>
KnowledgeCandidateId(did, type, now) == <<"KCAN", did, type, now>>
ReportId(did, now) == <<"PREP", did, now>>

-----------------------------------------------------------------------------
(* promotion_pipeline.py *)

\* PromotionAssessor.assess; the ratio in percent
Assess(c) ==
    LET total == c.supporting + c.contradicting
    IN [confidence |-> c.confidence, supporting |-> c.supporting, contradicting |-> c.contradicting,
        ratio |-> IF total = 0 THEN 0 ELSE (100 * c.supporting) \div total,
        warnings |-> (IF c.contradicting > 0 THEN {"contradictions"} ELSE {})
                     \cup (IF c.confidence < 50 THEN {"low confidence"} ELSE {})]

Violations_AnyEvidence(a, policy) ==
    (IF a.confidence < policy.min_confidence THEN {"confidence"} ELSE {})
    \cup (IF a.supporting + a.contradicting < policy.min_supporting THEN {"supporting"} ELSE {})
    \cup (IF a.contradicting > policy.max_contradicting THEN {"contradicting"} ELSE {})

\* PromotionGate.apply; the types are enumerations, so always valid
Violations(a, policy) ==
    (IF a.confidence < policy.min_confidence THEN {"confidence"} ELSE {})
    \cup (IF a.supporting < policy.min_supporting THEN {"supporting"} ELSE {})
    \cup (IF a.contradicting > policy.max_contradicting THEN {"contradicting"} ELSE {})
    \cup (IF policy.no_contradictions /\ a.contradicting > 0 THEN {"contradictions"} ELSE {})

\* the gate never defers
Gate(a, policy) == IF Violations(a, policy) = {} THEN "APPROVE" ELSE "REJECT"

Importance(confidence, ratio) ==
    IF confidence + ratio >= 170 THEN "high" ELSE IF confidence + ratio >= 130 THEN "medium" ELSE "low"

Transferability(domain) ==
    CASE domain = "ARCHITECTURE" -> "REUSABLE" [] domain = "PROCESS" -> "ORGANIZATIONAL" [] OTHER -> "LOCAL_ONLY"

\* PromotionDecider.decide; the knowledge candidate only of an approval
Decide(c, a, decision, now) ==
    LET did == DecisionId(c.id, decision, now)
    IN [id |-> did, decision |-> decision,
        made |-> IF decision # "APPROVE" THEN {}
                 ELSE {[id |-> KnowledgeCandidateId(did, c.type, now), decision |-> did, source |-> c,
                        importance |-> Importance(c.confidence, a.ratio),
                        transferability |-> Transferability(c.domain)]}]

\* PromotionPipeline.run
Report(c, policy, now) ==
    LET a == Assess(c)
        d == Decide(c, a, Gate(a, policy), now)
    IN [id |-> ReportId(d.id, now), candidate |-> c, policy |-> policy, violations |-> Violations(a, policy),
        decision |-> d]

\* to_event_payloads: four events, each naming the one before
Payloads(r, now) ==
    LET assessment == <<"PASSMT", r.candidate.id, now>>
        gate == <<"PGATE", assessment, r.decision.decision, now>>
    IN <<[id |-> r.candidate.id, of |-> {}], [id |-> assessment, of |-> {r.candidate.id}],
         [id |-> gate, of |-> {assessment, r.candidate.id}], [id |-> r.decision.id, of |-> {gate, r.candidate.id}]>>

-----------------------------------------------------------------------------
(* promotion_materializer.py *)

InitialStatus_Ratio(confidence, supporting, contradicting) ==
    IF contradicting > supporting THEN "CONFLICTED"
    ELSE IF confidence >= 80 /\ supporting >= 3 THEN "VALIDATED" ELSE "PROPOSED"

InitialStatus(confidence, supporting, contradicting) ==
    IF contradicting > 0 THEN "CONFLICTED"
    ELSE IF confidence >= 80 /\ supporting >= 3 THEN "VALIDATED"
    ELSE "PROPOSED"

\* the id of the object is made of its content, so equal content is one object
Materialize(kc) ==
    LET c == kc.source
    IN [id |-> <<c.type, c.content>>, supporting |-> c.supporting, contradicting |-> c.contradicting,
        confidence |-> c.confidence, decision |-> kc.decision, importance |-> kc.importance,
        transferability |-> kc.transferability, lifecycle |-> "ACTIVE",
        status |-> InitialStatus(c.confidence, c.supporting, c.contradicting)]

-----------------------------------------------------------------------------
NewCandidate(confidence, domain, content, now) ==
    LET c == [sources |-> {"REFL-1"}, type |-> "LESSON", domain |-> domain, content |-> content,
              confidence |-> confidence, supporting |-> 0, contradicting |-> 0]
    IN [id |-> CandidateId(c, now), type |-> c.type, domain |-> domain, content |-> content,
        confidence |-> confidence, supporting |-> 0, contradicting |-> 0]

PromotionInit ==
    /\ clock = 0
    /\ candidate \in {NewCandidate(p, d, x, 0) : p \in Confidences, d \in Domains, x \in Wordings}
    /\ reports = <<>>
    /\ knowledge = {}

Tick == clock < MaxTime /\ clock' = clock + 1 /\ UNCHANGED <<candidate, reports, knowledge>>

AddEvidence ==
    /\ \/ candidate.supporting < MaxEvidence /\ candidate' = [candidate EXCEPT !.supporting = @ + 1]
       \/ candidate.contradicting < MaxEvidence /\ candidate' = [candidate EXCEPT !.contradicting = @ + 1]
    /\ UNCHANGED <<clock, reports, knowledge>>

Replace(confidence, domain, content) ==
    /\ reports # <<>> /\ Len(reports) < MaxReports
    /\ candidate' = NewCandidate(confidence, domain, content, clock)
    /\ candidate' # candidate
    /\ UNCHANGED <<clock, reports, knowledge>>

Run(policy) ==
    /\ Len(reports) < MaxReports
    /\ reports' = Append(reports, Report(candidate, policy, clock))
    /\ UNCHANGED <<clock, candidate, knowledge>>

\* materialize and store: the object with the same id is replaced
StoreMaterialized(i) ==
    \E kc \in reports[i].decision.made :
        /\ knowledge' = {k \in knowledge : k.id # Materialize(kc).id} \cup {Materialize(kc)}
        /\ knowledge' # knowledge
        /\ UNCHANGED <<clock, candidate, reports>>

PromotionNext ==
    \/ Tick \/ AddEvidence
    \/ \E p \in Confidences, d \in Domains, x \in Wordings : Replace(p, d, x)
    \/ \E policy \in Policies : Run(policy)
    \/ \E i \in DOMAIN reports : StoreMaterialized(i)

PromotionSpec == PromotionInit /\ [][PromotionNext]_promotionVars

-----------------------------------------------------------------------------
(* Properties *)

\* Only what the policy lets through becomes knowledge, and more support never
\* hurts: the same candidate with one more supporting item is approved too, with
\* one more contradicting item a rejection stays one (promotion_pipeline.py:119-170).
PromotionEarned ==
    \A i \in DOMAIN reports :
        LET r == reports[i]
            More(c) == [c EXCEPT !.supporting = @ + 1]
            Against(c) == [c EXCEPT !.contradicting = @ + 1]
        IN /\ (r.decision.decision = "APPROVE") <=> (r.decision.made # {})
           /\ r.decision.decision = "APPROVE" =>
                /\ r.candidate.supporting >= r.policy.min_supporting
                /\ Gate(Assess(More(r.candidate)), r.policy) = "APPROVE"
           /\ r.decision.decision = "REJECT" => Gate(Assess(Against(r.candidate)), r.policy) = "REJECT"

\* Knowledge is stored as validated only on three supporting items, none against
\* it, and a decision of the log approved it (promotion_materializer.py:130-148).
ValidatedOnEvidence ==
    \A k \in knowledge :
        /\ k.status = "VALIDATED" => k.supporting >= 3 /\ k.contradicting = 0 /\ k.confidence >= 80
        /\ k.contradicting > 0 => k.status = "CONFLICTED"
        /\ \E i \in DOMAIN reports : reports[i].decision.id = k.decision /\ reports[i].decision.decision = "APPROVE"

\* Knowledge is promoted and validated on evidence only.
PromotionSound == PromotionEarned /\ ValidatedOnEvidence

-----------------------------------------------------------------------------
(* Statements the code does not keep *)

\* A report id names one report: two candidates of one moment share it, since
\* neither title nor content is hashed (promotion_models.py:79-87).
ReportIdsDistinct ==
    \A i, j \in DOMAIN reports : reports[i].id = reports[j].id => reports[i].candidate.content = reports[j].candidate.content

=============================================================================
