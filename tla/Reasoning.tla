------------------------------ MODULE Reasoning ------------------------------
(***************************************************************************)
(* cognitive_head/engine.py: the knowledge states of the projects are      *)
(* gathered into beliefs, doubts spread along the support graph, and what  *)
(* is believed is classified, ranked and gated into decisions.             *)
(*                                                                         *)
(* Confidences are hundred-thousandths.  A title stands for the title and  *)
(* the content of its first object, which are what a belief is named by.   *)
(***************************************************************************)
EXTENDS Integers, Sequences, FiniteSets, SequencesExt, FiniteSetsExt

CONSTANTS
    KnowledgeMenu,  \* the objects the projects may come to hold
    SupportMenu,    \* pairs of object ids: the first supports the second
    ConflictMenu,   \* pairs of titles that may enter a conflict queue
    Opposed,        \* sets of two object ids that ContradictionEngine.detect finds
    Suppressed,     \* the ones among them that are suppressed
    GatePolicies,   \* DecisionGatePolicy
    MaxInputs       \* bound on objects, supports and conflicts

VARIABLES
    active,     \* active_knowledge of all projects, in the order it came in
    support,    \* the union of the support graphs
    conflicts   \* the conflict queues

reasoningVars == <<active, support, conflicts>>

\* ids, titles and projects are numbers in their order
ReasoningAssumption ==
    /\ \A k \in KnowledgeMenu :
          /\ k.id \in Nat /\ k.title \in Nat /\ k.project \in Nat /\ k.age \in Nat /\ k.confidence \in Int
          /\ IsFiniteSet(k.supporting) /\ IsFiniteSet(k.contradicting)
    /\ \A policy \in GatePolicies : policy.minimum_confidence \in Int /\ policy.max_decisions \in Nat

One == 100000
Capped(x, cap) == IF x < 0 THEN 0 ELSE IF x > cap THEN cap ELSE x
Clamp(x) == Capped(x, One)

-----------------------------------------------------------------------------
(* evidence.py, assessment.py, belief.py *)

Titles == {active[i].title : i \in DOMAIN active}

WithTitle(title) == {i \in DOMAIN active : active[i].title = title}

\* the states are gathered in the order of their project ids
FirstOf(title) ==
    CHOOSE i \in WithTitle(title) : \A j \in WithTitle(title) :
        \/ active[i].project < active[j].project
        \/ (active[i].project = active[j].project /\ i <= j)

\* the confidences of the first n objects that have the title, added up
ConfidenceSums(title) ==
    LET sum[n \in 0 .. Len(active)] ==
            IF n = 0 THEN 0 ELSE sum[n - 1] + (IF active[n].title = title THEN active[n].confidence ELSE 0)
    IN  sum

\* the conflicts that name the title, one that names it twice counted twice
Findings(title) ==
    Cardinality({c \in conflicts : c[1] = title}) + Cardinality({c \in conflicts : c[2] = title})

\* EvidenceAggregator.aggregate: one bundle to a title
Bundle(title) ==
    [concept |-> active[FirstOf(title)].id, title |-> title,
     supporting |-> UNION {active[i].supporting : i \in WithTitle(title)},
     contradicting |-> UNION {active[i].contradicting : i \in WithTitle(title)},
     freshness |-> Min({active[i].age : i \in WithTitle(title)}),
     diversity |-> Cardinality({active[i].project : i \in WithTitle(title)}),
     base |-> ConfidenceSums(title)[Len(active)] \div Cardinality(WithTitle(title)),
     findings |-> Findings(title)]

\* AssessmentEngine.assess with the default ReasoningConfig, and the belief made from it
Believe(b) ==
    LET agreement == Capped((b.diversity - 1) * 10000, 20000)
        corroboration == Capped(Cardinality(b.supporting) * 5000, 20000)
        contradiction == Capped((Cardinality(b.contradicting) + b.findings) * 30000, One)
        staleness == Capped(b.freshness * 1000, 50000)
    IN [title |-> b.title, concept |-> b.concept, supporting |-> b.supporting,
        agreement |-> agreement, corroboration |-> corroboration, staleness |-> staleness,
        local |-> Clamp(b.base + agreement + corroboration - contradiction - staleness), adjustment |-> 0]

LocalBeliefs == [t \in Titles |-> Believe(Bundle(t))]

\* the belief with another confidence
Revalued(b, local, adjustment) ==
    [title |-> b.title, concept |-> b.concept, supporting |-> b.supporting,
     agreement |-> b.agreement, corroboration |-> b.corroboration, staleness |-> b.staleness,
     local |-> local, adjustment |-> adjustment]

Final(b) == Clamp(b.local + b.adjustment)

-----------------------------------------------------------------------------
(* propagation.py *)

\* edges between objects that stand for a belief; the others are passed over
Supports(beliefs, s, t) == <<beliefs[s].concept, beliefs[t].concept>> \in support

Ready(beliefs, order) ==
    {t \in (DOMAIN beliefs) \ ToSet(order) :
        \A s \in DOMAIN beliefs : Supports(beliefs, s, t) => s \in ToSet(order)}

\* the queue is kept sorted, so the next is the least of the ready ones
NextInOrder(beliefs, order) ==
    LET ready == Ready(beliefs, order)
    IN  IF ready = {} THEN order
        ELSE Append(order, CHOOSE t \in ready : \A s \in ready : beliefs[t].concept <= beliefs[s].concept)

\* the order after each turn of the loop
TopoOrders(beliefs) ==
    LET order[n \in 0 .. Cardinality(DOMAIN beliefs)] == IF n = 0 THEN <<>> ELSE NextInOrder(beliefs, order[n - 1])
    IN  order

TopoOrder(beliefs) == TopoOrders(beliefs)[Cardinality(DOMAIN beliefs)]

\* 0.8 of what the parent lacks to certainty
Penalty(parent) == ((Final(parent) - One) * 80) \div 100

Lower(x, y) == IF y < x THEN y ELSE x

\* the children of one parent
PropagateFrom(beliefs, s) ==
    [t \in DOMAIN beliefs |->
        IF Supports(beliefs, s, t)
        THEN Revalued(beliefs[t], beliefs[t].local, Lower(beliefs[t].adjustment, Penalty(beliefs[s])))
        ELSE beliefs[t]]

\* the beliefs after each parent of the order
PropagateAlong(beliefs, order) ==
    LET after[n \in 0 .. Len(order)] == IF n = 0 THEN beliefs ELSE PropagateFrom(after[n - 1], order[n])
    IN  after

Propagate_Unordered(beliefs) ==
    LET order == SetToSortSeq(DOMAIN beliefs, LAMBDA s, t : beliefs[s].concept < beliefs[t].concept)
    IN  IF Len(TopoOrder(beliefs)) # Len(order) THEN beliefs ELSE PropagateAlong(beliefs, order)[Len(order)]

\* a cycle anywhere stops the propagation everywhere
Propagate(beliefs) ==
    LET order == TopoOrder(beliefs)
    IN  IF Len(order) # Cardinality(DOMAIN beliefs) THEN beliefs ELSE PropagateAlong(beliefs, order)[Len(order)]

-----------------------------------------------------------------------------
(* engine.py reason, reasoning_report.py *)

\* the contradictions among the objects, by the ids of the objects
Contradictions == {pair \in Opposed : pair \subseteq {k.id : k \in ToSet(active)}}

Live == Contradictions \ Suppressed

\* the report looks at the first evidence of every belief when a live
\* contradiction makes it look, and raises IndexError when there is none
ReportRaises(beliefs) == Live # {} /\ \E t \in DOMAIN beliefs : beliefs[t].supporting = {}

StatusOf(b) ==
    IF \E pair \in Live : Min(b.supporting) \in pair THEN "conflicted"
    ELSE IF Final(b) >= 95000 THEN "invariant" ELSE IF Final(b) >= 70000 THEN "validated" ELSE "other"

Summary(beliefs) ==
    [status \in {"conflicted", "invariant", "validated", "other"} |->
        Cardinality({t \in DOMAIN beliefs : StatusOf(beliefs[t]) = status})]

ReasoningReport ==
    LET beliefs == Propagate(LocalBeliefs)
    IN [beliefs |-> beliefs, raised |-> ReportRaises(beliefs),
        summary |-> IF ReportRaises(beliefs) THEN <<>> ELSE Summary(beliefs)]

-----------------------------------------------------------------------------
(* synthesis.py *)

\* The contradictions of a belief are sought by the ids of its evidence.
ActiveContradictions(b) == {pair \in Live : pair \cap b.supporting # {}}

Classify(b, contradicted) ==
    IF Final(b) < 40000 THEN "DEFER"
    ELSE IF contradicted THEN (IF Final(b) >= 50000 THEN "CHALLENGE" ELSE "RESOLVE")
    ELSE IF Final(b) >= 80000 THEN "AFFIRM" ELSE "MONITOR"

Reasons(b, contradicted) ==
    {r \in {"ACTIVE_CONTRADICTION", "STALE", "DEPENDENCY_DEGRADED", "HIGH_CORROBORATION"} :
        \/ r = "ACTIVE_CONTRADICTION" /\ contradicted
        \/ r = "STALE" /\ b.staleness > 10000
        \/ r = "DEPENDENCY_DEGRADED" /\ b.adjustment < -5000
        \/ r = "HIGH_CORROBORATION" /\ b.corroboration >= 15000}
    \cup (IF Final(b) < 40000 THEN {"LOW_CONFIDENCE"}
          ELSE IF contradicted THEN {}
          ELSE {IF Final(b) >= 80000 THEN "HIGH_CONFIDENCE" ELSE "MODERATE_CONFIDENCE"})

Impact(b) ==
    Clamp((b.corroboration * 50 + Min({One, Cardinality(b.supporting) * 20000}) * 30 + b.agreement * 20) \div 100)

\* 0 CRITICAL, 1 HIGH, 2 NORMAL, 3 LOW
Priority(b) ==
    LET urgency == (Impact(b) * (Final(b) \div 100)) \div 1000
    IN IF urgency >= 72000 THEN 0 ELSE IF urgency >= 48000 THEN 1 ELSE IF urgency >= 24000 THEN 2 ELSE 3

Candidate(b) ==
    LET contradicted == ActiveContradictions(b) # {}
    IN [title |-> b.title, category |-> Classify(b, contradicted), reasons |-> Reasons(b, contradicted),
        confidence |-> Final(b), impact |-> Impact(b), priority |-> Priority(b),
        contradictions |-> ActiveContradictions(b)]

\* by priority, then confidence; the bundles come sorted by title
RanksBefore(b, c) ==
    \/ Priority(b) < Priority(c)
    \/ Priority(b) = Priority(c) /\ Final(b) > Final(c)
    \/ Priority(b) = Priority(c) /\ Final(b) = Final(c) /\ b.title < c.title

NextRanked(beliefs, ranked) ==
    LET left == (DOMAIN beliefs) \ ToSet(ranked)
    IN  Append(ranked, CHOOSE t \in left : \A s \in left \ {t} : RanksBefore(beliefs[t], beliefs[s]))

\* the titles of the first n candidates of the sorted list
Ranked(beliefs) ==
    LET ranked[n \in 0 .. Cardinality(DOMAIN beliefs)] == IF n = 0 THEN <<>> ELSE NextRanked(beliefs, ranked[n - 1])
    IN  ranked

Ranking(beliefs) == Ranked(beliefs)[Cardinality(DOMAIN beliefs)]

Items(beliefs) ==
    LET ranking == Ranking(beliefs) IN [i \in 1 .. Len(ranking) |-> Candidate(beliefs[ranking[i]])]

-----------------------------------------------------------------------------
(* decision.py *)

Passes(item, policy) ==
    /\ item.category # "DEFER"
    /\ item.confidence >= policy.minimum_confidence
    /\ ~ (policy.block_if_contradicted /\ item.contradictions # {})

GateStep(sorted, item, policy) ==
    IF Passes(item, policy)
    THEN [passed |-> Append(sorted.passed, item), blocked |-> sorted.blocked]
    ELSE [passed |-> sorted.passed, blocked |-> Append(sorted.blocked, item)]

\* what passed and what did not, of the first n items
GateLoop(items, policy) ==
    LET sorted[n \in 0 .. Len(items)] ==
            IF n = 0 THEN [passed |-> <<>>, blocked |-> <<>>] ELSE GateStep(sorted[n - 1], items[n], policy)
    IN  sorted

\* what passes beyond max_decisions joins the blocked, after them
DecisionGate(items, policy) ==
    LET sorted == GateLoop(items, policy)[Len(items)]
        n == Len(sorted.passed)
        max == policy.max_decisions
    IN  IF max > 0 /\ n > max
        THEN [decisions |-> [i \in 1 .. max |-> sorted.passed[i]],
              blocked |-> sorted.blocked \o [i \in 1 .. n - max |-> sorted.passed[max + i]]]
        ELSE [decisions |-> sorted.passed, blocked |-> sorted.blocked]

DecideOn(policy) == DecisionGate(Items(ReasoningReport.beliefs), policy)

-----------------------------------------------------------------------------
RInit == active = <<>> /\ support = {} /\ conflicts = {}

InputCount == Len(active) + Cardinality(support) + Cardinality(conflicts)

\* a project's knowledge projection lists another active object
Learn(k) ==
    /\ InputCount < MaxInputs /\ \A i \in DOMAIN active : active[i].id # k.id
    /\ active' = Append(active, k)
    /\ UNCHANGED <<support, conflicts>>

Connect(edge) ==
    /\ InputCount < MaxInputs /\ edge \notin support
    /\ support' = support \cup {edge}
    /\ UNCHANGED <<active, conflicts>>

Queue(pair) ==
    /\ InputCount < MaxInputs /\ pair \notin conflicts
    /\ conflicts' = conflicts \cup {pair}
    /\ UNCHANGED <<active, support>>

ReasonNext ==
    \/ \E k \in KnowledgeMenu : Learn(k)
    \/ \E edge \in SupportMenu : Connect(edge)
    \/ \E pair \in ConflictMenu : Queue(pair)

ReasonSpec == RInit /\ [][ReasonNext]_reasoningVars

-----------------------------------------------------------------------------
(* Properties *)

SupportCycle(beliefs, S) == S # {} /\ \A t \in S : \E s \in S : Supports(beliefs, s, t)

\* When the support graph has no cycle every belief ends exactly as far below its
\* own evidence as its worst supporter, taken at that one's final confidence,
\* drags it; with a cycle nothing moves (propagation.py:32-100).
PropagationExact ==
    LET bs == Propagate(LocalBeliefs)
        Dragged(t) == {Penalty(bs[s]) : s \in {s \in DOMAIN bs : Supports(bs, s, t)}} \cup {0}
        acyclic == \A S \in SUBSET DOMAIN bs : ~ SupportCycle(bs, S)
    IN \A t \in DOMAIN bs : bs[t].adjustment = IF acyclic THEN Min(Dragged(t)) ELSE 0

\* the beliefs with less confidence in one of them
Doubt(beliefs, t) ==
    [s \in DOMAIN beliefs |->
        IF s = t THEN Revalued(beliefs[s], Clamp(beliefs[s].local - 30000), beliefs[s].adjustment) ELSE beliefs[s]]

NoCeiling(policy) ==
    [minimum_confidence |-> policy.minimum_confidence, block_if_contradicted |-> policy.block_if_contradicted,
     max_decisions |-> 0]

Belief ==
    [title : Titles, concept : {active[i].id : i \in DOMAIN active},
     supporting : SUBSET UNION {active[i].supporting : i \in DOMAIN active},
     agreement : 0 .. One, corroboration : 0 .. One, staleness : 0 .. One,
     local : 0 .. One, adjustment : (-One) .. 0]

\* Every belief stays one of its title with a confidence in its range; every
\* candidate is either decided or blocked, the decided ones are the most
\* pressing of those the policy lets through, and less confidence in a belief
\* never gets anything decided that was not (decision.py:138-199, synthesis.py:408).
GateSound ==
    LET beliefs == Propagate(LocalBeliefs)
        items == Items(beliefs)
    IN /\ beliefs \in [Titles -> Belief]
       /\ \A policy \in GatePolicies :
            LET gate == DecisionGate(items, policy)
            IN /\ Len(gate.decisions) + Len(gate.blocked) = Len(items)
               /\ ToSet(gate.decisions) \cup ToSet(gate.blocked) = ToSet(items)
               /\ \A d \in ToSet(gate.decisions), b \in ToSet(gate.blocked) :
                    Passes(b, policy) => d.priority <= b.priority
       /\ \A t \in DOMAIN beliefs :
            LET doubted == Items(Doubt(beliefs, t))
            IN \A policy \in GatePolicies :
                 \A d \in ToSet(DecisionGate(doubted, NoCeiling(policy)).decisions) :
                    \E e \in ToSet(DecisionGate(items, NoCeiling(policy)).decisions) : e.title = d.title

\* Confidence reaches what is supported along every path, once, and the gate
\* places every decision exactly once (propagation.py:6-102, decision.py:35-219).
ReasoningSound == PropagationExact /\ GateSound

-----------------------------------------------------------------------------
(* Statements the code does not keep *)

\* "items with active contradictions are blocked" (decision.py:45): contradictions
\* name objects, the evidence of a belief names memories, so none is ever found.
ContradictedAreBlocked ==
    \A policy \in GatePolicies : policy.block_if_contradicted =>
        \A d \in ToSet(DecideOn(policy).decisions) :
            \A pair \in Live : ~ \E k \in ToSet(active) : k.title = d.title /\ k.id \in pair

\* Reasoning over any knowledge gives a report: an object without evidence makes
\* it raise once a contradiction is live (reasoning_report.py:47).
ReportsAlways == ~ ReasoningReport.raised
=============================================================================
