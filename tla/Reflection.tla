----------------------------- MODULE Reflection -----------------------------
(***************************************************************************)
(* Reflections on learning records (skill_platform/reflection_engine.py    *)
(* and projections/reflection.py).  A caller collects learning records,    *)
(* projects them together with the REFLECTION_GENERATED events of the      *)
(* ledger, and appends the bundle it gets back before it projects again.   *)
(* Suppression of duplicates goes through text: the target of an earlier   *)
(* reflection is cut out of its rationale, between the first quote and the *)
(* next one, and Quoted is what that yields for a target.                  *)
(***************************************************************************)
EXTENDS Integers, Sequences, FiniteSets, SequencesExt

CONSTANTS
    Targets,          \* skills or planners a record speaks of
    Quoted,           \* target -> what is read back out of "target '...'"
    Artifacts,
    Threshold,        \* ReflectionConfig.confidence_threshold, in hundredths
    EnabledReasons,   \* ReflectionConfig.enabled_reasons
    MaxRecords, MaxHistory

VARIABLES
    records,    \* ExecutionLearningRecords, in order of created_at
    history     \* the REFLECTION_GENERATED events of the ledger

rvars == <<records, history>>

\* What the proofs need of the constants
ReflectionAssumption == IsFiniteSet(Targets) /\ Threshold \in Nat

ReflectionReason == {"OUTCOME_MISMATCH", "LOW_CONFIDENCE", "PERFORMANCE_DEGRADATION"}
ReflectionStatus == {"COMPLETED", "REJECTED"}

\* What build_candidates tells apart in a PlannerFeedback: a rationale about a
\* timeout or performance, a negative adjustment or recommendation, a request
\* for manual review, or none of them
FeedbackKind == {"timeout", "failure", "review", "good"}
LearningRecord == [targets : SUBSET Targets, kind : FeedbackKind, artifact : Artifacts]

\* The event keeps the rationale, hence the target as it is quoted in it
ReflectionGenerated == [candidate : Artifacts \X ReflectionReason, target : Targets, status : ReflectionStatus,
                        supporting : Nat, conflicting : Nat]

-----------------------------------------------------------------------------
(* ReflectionCandidateBuilder *)

About(t, kinds) ==
    {i \in 1..Len(records) : t \in records[i].targets /\ records[i].kind \in kinds}

Supporting(t) == About(t, {"timeout", "failure", "review"})
Conflicting(t) == About(t, {"good"})

Reason(t) ==
    IF Cardinality(About(t, {"timeout"})) >= 2 THEN "PERFORMANCE_DEGRADATION"
    ELSE IF About(t, {"review"}) # {} THEN "LOW_CONFIDENCE"
    ELSE "OUTCOME_MISMATCH"

\* generate_candidate_id does not include the target
CandidateOf(t) ==
    LET latest == CHOOSE i \in Supporting(t) : \A j \in Supporting(t) : j <= i
    IN  [id |-> <<records[latest].artifact, Reason(t)>>, target |-> t,
         supporting |-> Cardinality(Supporting(t)), conflicting |-> Cardinality(Conflicting(t))]

BuildCandidates ==
    {CandidateOf(t) : t \in {u \in Targets : Supporting(u) # {} /\ Reason(u) \in EnabledReasons}}

-----------------------------------------------------------------------------
(* Rules, in hundredths, and their engine *)

Confidence(c) ==
    LET bonus == IF (c.supporting - 1) * 10 > 40 THEN 40 ELSE (c.supporting - 1) * 10
        raw == 50 + bonus - 15 * c.conflicting
    IN  IF raw < 0 THEN 0 ELSE raw

MinSupportingRecordsRule(c) == c.supporting >= 2
RecurrenceThresholdRule(c) == c.supporting >= 2
ConflictingEvidenceRule(c) == c.conflicting = 0 \/ c.conflicting < c.supporting
MinConfidenceRule(c) == Confidence(c) >= Threshold

\* Mutant: only a reflection that is still ACTIVE suppresses another
ActiveTargets_ActiveOnly ==
    {Quoted[history[i].target] : i \in {j \in 1..Len(history) : history[j].status = "ACTIVE"}}

\* projections/reflection.py: the targets read back from the history
ActiveTargets ==
    {Quoted[history[i].target] : i \in {j \in 1..Len(history) : history[j].status = "COMPLETED"}}

DuplicateSuppressionRule(c) == c.target \notin ActiveTargets

\* Mutant: one conflicting record too many is let through
AssessReflection_ConflictLost(c) ==
    /\ MinSupportingRecordsRule(c) /\ RecurrenceThresholdRule(c)
    /\ DuplicateSuppressionRule(c)
    /\ Confidence([c EXCEPT !.conflicting = 0]) >= Threshold

\* ReflectionRuleEngine.assess
AssessReflection(c) ==
    /\ MinSupportingRecordsRule(c) /\ RecurrenceThresholdRule(c)
    /\ ConflictingEvidenceRule(c) /\ MinConfidenceRule(c)
    /\ DuplicateSuppressionRule(c)

\* ReflectionCompiler.compile and compile_generated_payload
CompileReflection(c) ==
    [candidate |-> c.id, target |-> c.target, status |-> IF AssessReflection(c) THEN "COMPLETED" ELSE "REJECTED",
     supporting |-> c.supporting, conflicting |-> c.conflicting]

-----------------------------------------------------------------------------
RInit == records = <<>> /\ history = <<>>

Learn(r) ==
    /\ Len(records) < MaxRecords
    /\ records' = Append(records, r)
    /\ UNCHANGED history

\* ReflectionStateProjection.project, and the caller appends the bundle: one
\* event for every candidate, rejected ones included, in an order of no matter
Project ==
    /\ BuildCandidates # {}
    /\ Len(history) < MaxHistory
    /\ history' = history \o SetToSeq({CompileReflection(c) : c \in BuildCandidates})
    /\ UNCHANGED records

RNext ==
    \/ \E r \in LearningRecord : r.targets # {} /\ Learn(r)
    \/ Project

RSpec == RInit /\ [][RNext]_rvars

-----------------------------------------------------------------------------
(* Properties *)

\* A target is reflected on at most once, whatever is learnt about it later:
\* every later candidate for it is suppressed.  This needs the target to be
\* recovered unchanged from the rationale.
OneReflectionPerTarget ==
    \A i, j \in 1..Len(history) :
        /\ history[i].status = "COMPLETED" /\ history[j].status = "COMPLETED"
        /\ history[i].target = history[j].target /\ Quoted[history[i].target] = history[i].target
        => i = j

\* More support never turns an approval into a rejection, more conflict never a
\* rejection into an approval, and an approved reflection has more records for
\* it than against it, whatever the counts a target has reached.
EvidenceMonotone ==
    \A t \in Targets, s \in 1..6, n \in 0..6 :
        LET With(m, k) == [id |-> CandidateOf(t).id, target |-> t, supporting |-> m, conflicting |-> k] IN
        Supporting(t) # {} /\ t \notin ActiveTargets =>
            /\ AssessReflection(With(s, n)) => AssessReflection(With(s + 1, n)) /\ s > n
            /\ ~ AssessReflection(With(s, n)) => ~ AssessReflection(With(s, n + 1))

\* One reflection stands for a target, with all evidence recorded for it, and
\* evidence never goes away (projections/reflection.py, skill_platform/reflection_engine.py).
ReflectionSound == OneReflectionPerTarget /\ EvidenceMonotone

\* reflection ids of one bundle are distinct: two targets whose latest record
\* names the same artifact share a candidate id, and with it a reflection id
CandidatesDistinct ==
    \A c, d \in BuildCandidates : c.id = d.id => c = d
=============================================================================
