---------------------------- MODULE DerivedProofs ----------------------------
(***************************************************************************)
(* Proofs about components that derive something from the ledger or run on *)
(* what was derived: the embedding builder, the promotion of knowledge,    *)
(* the projection compiler, the tools of the MCP runtime, reflections,     *)
(* skills, governance, context packages and rebuild plans, each for any    *)
(* nodes, policies, projections, dependencies, outputs, events and stores. *)
(***************************************************************************)
EXTENDS Embedding, KnowledgePromotion, ProjectionCompiler, McpTools, Reflection, SkillExecution, Governance,
        ContextPackage, ProjectionPlan,
        FiniteSetTheorems, WellFoundedInduction, TLAPS

-----------------------------------------------------------------------------
(* Embedding *)

\* The cache knows exactly which text and provider each vector was made from,
\* all vectors are of the provider seen last, and so was the last build fresh.
EmbeddingInv ==
    /\ DOMAIN vectors = DOMAIN cache
    /\ \A n \in DOMAIN cache :
          /\ vectors[n] = [text |-> cache[n].hash, provider |-> cache[n].provider]
          /\ cache[n].provider = lastProvider
    /\ BuiltFresh

\* A build, also one whose embed call raises, keeps cache and vectors together.
LEMMA BuildKeepsEmbedding ==
    ASSUME EmbeddingInv, NEW fails \in BOOLEAN, Build(fails)
    PROVE  EmbeddingInv'
<1> DEFINE kept == IF ProviderChanged THEN NoNodes ELSE cache
           old == IF ProviderChanged THEN NoNodes ELSE vectors
           changed == {n \in DOMAIN nodes : Stale(kept, n)}
           new == IF fails THEN {} ELSE changed
<1>1. /\ DOMAIN old = DOMAIN kept
      /\ \A n \in DOMAIN kept :
            /\ old[n] = [text |-> kept[n].hash, provider |-> kept[n].provider]
            /\ kept[n].provider = provider
    <2>1. CASE ProviderChanged
        BY <2>1 DEF NoNodes
    <2>2. CASE ~ProviderChanged
        BY <2>2 DEF EmbeddingInv, ProviderChanged
    <2> QED BY <2>1, <2>2
<1>2. /\ lastProvider' = provider
      /\ cache' = [n \in DOMAIN kept \cup new |->
                      IF n \in new THEN [hash |-> nodes[n], provider |-> provider] ELSE kept[n]]
      /\ vectors' = [n \in DOMAIN old \cup new |->
                        IF n \in new THEN [text |-> nodes[n], provider |-> provider] ELSE old[n]]
      /\ built' = IF fails THEN built
                  ELSE [done |-> TRUE, nodes |-> nodes, provider |-> provider, vectors |-> vectors']
    BY DEF Build
<1>3. \A n \in DOMAIN nodes : n \notin changed =>
         n \in DOMAIN kept /\ kept[n] = [hash |-> nodes[n], provider |-> provider]
    BY DEF Stale
<1> HIDE DEF kept, old, changed
<1>4. DOMAIN vectors' = DOMAIN cache'
    BY <1>1, <1>2
<1>5. ASSUME NEW n \in DOMAIN cache'
      PROVE  /\ vectors'[n] = [text |-> cache'[n].hash, provider |-> cache'[n].provider]
             /\ cache'[n].provider = lastProvider'
    <2>1. CASE n \in new
        BY <1>2, <1>4, <2>1
    <2>2. CASE n \notin new
        BY <1>1, <1>2, <1>4, <2>2
    <2> QED BY <2>1, <2>2
<1>6. BuiltFresh'
    <2>1. CASE fails
        BY <1>2, <2>1 DEF EmbeddingInv, BuiltFresh
    <2>2. CASE ~fails
        <3>1. built' = [done |-> TRUE, nodes |-> nodes, provider |-> provider, vectors |-> vectors']
            BY <1>2, <2>2
        <3>2. ASSUME NEW n \in DOMAIN nodes
              PROVE  n \in DOMAIN vectors' /\ vectors'[n] = [text |-> nodes[n], provider |-> provider]
            <4>1. CASE n \in changed
                BY <1>2, <2>2, <4>1
            <4>2. CASE n \notin changed
                <5>1. n \in DOMAIN old /\ n \notin new
                    BY <1>1, <1>3, <2>2, <4>2
                <5>2. n \in DOMAIN kept /\ kept[n] = [hash |-> nodes[n], provider |-> provider]
                    BY <1>3, <4>2
                <5>3. kept[n].hash = nodes[n] /\ kept[n].provider = provider
                    BY <5>2
                <5>4. old[n] = [text |-> nodes[n], provider |-> provider]
                    BY <1>1, <5>2, <5>3
                <5> QED BY <1>2, <5>1, <5>4
            <4> QED BY <4>1, <4>2
        <3> QED BY <3>1, <3>2 DEF BuiltFresh
    <2> QED BY <2>1, <2>2
<1> QED BY <1>4, <1>5, <1>6 DEF EmbeddingInv

\* After a build every node has the vector of its present text by the present
\* provider, and all vectors held are of one provider, through updates, deletions,
\* re-creations, changes of provider and failed builds, for any number of nodes
\* (embedding/builder.py, projection.py).
THEOREM EmbeddingIsFresh == ESpec => []VectorsFresh
<1>1. EInit => EmbeddingInv
    BY DEF EInit, EmbeddingInv, BuiltFresh, NoNodes
<1>2. EmbeddingInv /\ [ENext]_evars => EmbeddingInv'
    <2> SUFFICES ASSUME EmbeddingInv, [ENext]_evars PROVE EmbeddingInv'
        OBVIOUS
    <2>1. ASSUME UNCHANGED <<cache, vectors, lastProvider, built>> PROVE EmbeddingInv'
        BY <2>1 DEF EmbeddingInv, BuiltFresh
    <2>2. ASSUME NEW n, NEW type, NEW t, KnowledgeEvent(n, type, t) PROVE EmbeddingInv'
        BY <2>1, <2>2 DEF KnowledgeEvent
    <2>3. ASSUME NEW p, SwitchProvider(p) PROVE EmbeddingInv'
        BY <2>1, <2>3 DEF SwitchProvider
    <2>4. CASE UNCHANGED evars
        BY <2>1, <2>4 DEF evars
    <2> QED BY <2>2, <2>3, <2>4, BuildKeepsEmbedding DEF ENext
<1>3. EmbeddingInv => VectorsFresh
    BY DEF EmbeddingInv, VectorsFresh, OneProvider
<1> QED BY <1>1, <1>2, <1>3, PTL DEF ESpec

-----------------------------------------------------------------------------
(* Promotion of knowledge *)

\* The candidates a caller may prepare
PromotionCandidate ==
    [id : {CandidateId([sources |-> {"REFL-1"}, type |-> "LESSON"], n) : n \in Nat},
     type : {"LESSON"}, domain : Domains, content : Wordings, confidence : Confidences,
     supporting : Nat, contradicting : Nat]

\* What PromotionPipeline.run returns
PromotionReport == {Report(c, policy, n) : c \in PromotionCandidate, policy \in Policies, n \in Nat}

\* Knowledge is what was materialized from a report of the log.
PromotionInv ==
    /\ clock \in Nat
    /\ candidate \in PromotionCandidate
    /\ reports \in Seq(PromotionReport)
    /\ \A k \in knowledge : \E i \in DOMAIN reports : \E kc \in reports[i].decision.made : k = Materialize(kc)

\* The gate approves what meets every threshold of the policy.
LEMMA GateApproves ==
    ASSUME PromotionAssumption, NEW c \in PromotionCandidate, NEW policy \in Policies
    PROVE  /\ Gate(Assess(c), policy) \in {"APPROVE", "REJECT"}
           /\ Gate(Assess(c), policy) = "APPROVE" <=>
                /\ c.confidence >= policy.min_confidence
                /\ c.supporting >= policy.min_supporting
                /\ c.contradicting <= policy.max_contradicting
                /\ ~(policy.no_contradictions /\ c.contradicting > 0)
<1> DEFINE a == Assess(c)
<1>1. /\ c.confidence \in Int /\ c.supporting \in Nat /\ c.contradicting \in Nat
      /\ policy.min_confidence \in Int /\ policy.min_supporting \in Int
      /\ policy.max_contradicting \in Int /\ policy.no_contradictions \in BOOLEAN
    BY DEF PromotionAssumption, PromotionCandidate, PromotionGatePolicy
<1>2. a.confidence = c.confidence /\ a.supporting = c.supporting /\ a.contradicting = c.contradicting
    BY DEF Assess
<1> HIDE DEF a
<1>3. Violations(a, policy) = {} <=>
        /\ ~(a.confidence < policy.min_confidence)
        /\ ~(a.supporting < policy.min_supporting)
        /\ ~(a.contradicting > policy.max_contradicting)
        /\ ~(policy.no_contradictions /\ a.contradicting > 0)
    BY DEF Violations
<1> QED BY <1>1, <1>2, <1>3 DEF Gate, a

\* What a report says of its candidate, its policy and its decision.
LEMMA ReportFields ==
    ASSUME NEW c, NEW policy, NEW n
    PROVE  /\ Report(c, policy, n).candidate = c
           /\ Report(c, policy, n).policy = policy
           /\ Report(c, policy, n).decision.decision = Gate(Assess(c), policy)
           /\ \A kc \in Report(c, policy, n).decision.made :
                 kc.source = c /\ kc.decision = Report(c, policy, n).decision.id
           /\ (Report(c, policy, n).decision.made # {}) <=> (Gate(Assess(c), policy) = "APPROVE")
<1> DEFINE g == Gate(Assess(c), policy)
           d == Decide(c, Assess(c), g, n)
<1>1. Report(c, policy, n).candidate = c /\ Report(c, policy, n).policy = policy /\ Report(c, policy, n).decision = d
    BY DEF Report
<1> HIDE DEF g
<1>2. d.decision = g /\ d.id = DecisionId(c.id, g, n)
    BY DEF Decide
<1>3. CASE g = "APPROVE"
    <2> DEFINE kc == [id |-> KnowledgeCandidateId(d.id, c.type, n), decision |-> d.id, source |-> c,
                      importance |-> Importance(c.confidence, Assess(c).ratio),
                      transferability |-> Transferability(c.domain)]
    <2>1. d.made = {kc}
        BY <1>2, <1>3 DEF Decide
    <2>2. kc.source = c /\ kc.decision = d.id
        OBVIOUS
    <2> HIDE DEF kc, d
    <2> QED BY <1>1, <1>2, <1>3, <2>1, <2>2 DEF g
<1>4. CASE g # "APPROVE"
    <2>1. d.made = {}
        BY <1>4 DEF Decide
    <2> QED BY <1>1, <1>2, <1>4, <2>1 DEF g
<1> QED BY <1>3, <1>4

\* Evidence is added and candidates are replaced by candidates.
LEMMA CandidateTypes ==
    ASSUME PromotionAssumption, PromotionInv
    PROVE  /\ [candidate EXCEPT !.supporting = @ + 1] \in PromotionCandidate
           /\ [candidate EXCEPT !.contradicting = @ + 1] \in PromotionCandidate
           /\ \A p \in Confidences, d \in Domains, x \in Wordings, n \in Nat :
                 NewCandidate(p, d, x, n) \in PromotionCandidate
<1>1. candidate \in PromotionCandidate
    BY DEF PromotionInv
<1>2. [candidate EXCEPT !.supporting = @ + 1] \in PromotionCandidate
    BY <1>1 DEF PromotionCandidate
<1>3. [candidate EXCEPT !.contradicting = @ + 1] \in PromotionCandidate
    BY <1>1 DEF PromotionCandidate
<1>4. \A p \in Confidences, d \in Domains, x \in Wordings, n \in Nat :
         NewCandidate(p, d, x, n) \in PromotionCandidate
    BY DEF PromotionCandidate, NewCandidate, CandidateId
<1> QED BY <1>2, <1>3, <1>4

\* Every step of the pipeline, and every object stored, keeps the invariant.
LEMMA PromotionStep ==
    ASSUME PromotionAssumption, PromotionInv, [PromotionNext]_promotionVars
    PROVE  PromotionInv'
<1> USE DEF PromotionInv
<1>0. Len(reports) \in Nat /\ DOMAIN reports = 1..Len(reports)
    OBVIOUS
<1>1. CASE Tick
    BY <1>1 DEF Tick
<1>2. CASE AddEvidence
    BY <1>2, CandidateTypes DEF AddEvidence
<1>3. ASSUME NEW p \in Confidences, NEW d \in Domains, NEW x \in Wordings, Replace(p, d, x) PROVE PromotionInv'
    BY <1>3, CandidateTypes DEF Replace
<1>4. ASSUME NEW policy \in Policies, Run(policy) PROVE PromotionInv'
    <2> DEFINE r == Report(candidate, policy, clock)
    <2>1. r \in PromotionReport
        BY DEF PromotionReport
    <2> HIDE DEF r
    <2>2. reports' = Append(reports, r) /\ UNCHANGED <<clock, candidate, knowledge>>
        BY <1>4 DEF Run, r
    <2>3. reports' \in Seq(PromotionReport) /\ \A i \in DOMAIN reports : i \in DOMAIN reports' /\ reports'[i] = reports[i]
        BY <1>0, <2>1, <2>2
    <2> QED BY <2>2, <2>3
<1>5. ASSUME NEW i \in DOMAIN reports, StoreMaterialized(i) PROVE PromotionInv'
    BY <1>5 DEF StoreMaterialized
<1>6. CASE UNCHANGED promotionVars
    BY <1>6 DEF promotionVars
<1> QED BY <1>1, <1>2, <1>3, <1>4, <1>5, <1>6 DEF PromotionNext

\* Only what a policy lets through becomes knowledge, more support never turns an
\* approval into a rejection nor more contradiction a rejection into an approval,
\* and nothing is validated without three supporting items and none against it,
\* for any policies, confidences and numbers of items (promotion_pipeline.py,
\* promotion_materializer.py).
THEOREM PromotionOnEvidence == ASSUME PromotionAssumption PROVE PromotionSpec => []PromotionSound
<1>1. PromotionInit => PromotionInv
    <2> SUFFICES ASSUME PromotionInit PROVE PromotionInv
        OBVIOUS
    <2>1. candidate \in PromotionCandidate
        BY DEF PromotionInit, PromotionCandidate, NewCandidate, CandidateId
    <2> QED BY <2>1 DEF PromotionInit, PromotionInv
<1>2. PromotionInv /\ [PromotionNext]_promotionVars => PromotionInv'
    BY PromotionStep
<1>3. PromotionInv => PromotionSound
    <2> SUFFICES ASSUME PromotionInv PROVE PromotionEarned /\ ValidatedOnEvidence
        BY DEF PromotionSound
    <2>1. \A i \in DOMAIN reports : \E c \in PromotionCandidate, policy \in Policies, n \in Nat :
             reports[i] = Report(c, policy, n)
        BY DEF PromotionInv, PromotionReport
    <2>2. PromotionEarned
        <3> SUFFICES ASSUME NEW i \in DOMAIN reports
                     PROVE  LET r == reports[i]
                                More(c) == [c EXCEPT !.supporting = @ + 1]
                                Against(c) == [c EXCEPT !.contradicting = @ + 1]
                            IN /\ (r.decision.decision = "APPROVE") <=> (r.decision.made # {})
                               /\ r.decision.decision = "APPROVE" =>
                                    /\ r.candidate.supporting >= r.policy.min_supporting
                                    /\ Gate(Assess(More(r.candidate)), r.policy) = "APPROVE"
                               /\ r.decision.decision = "REJECT" => Gate(Assess(Against(r.candidate)), r.policy) = "REJECT"
            BY DEF PromotionEarned
        <3>1. PICK c \in PromotionCandidate, policy \in Policies, n \in Nat : reports[i] = Report(c, policy, n)
            BY <2>1
        <3>2. /\ reports[i].candidate = c /\ reports[i].policy = policy
              /\ reports[i].decision.decision = Gate(Assess(c), policy)
              /\ (reports[i].decision.made # {}) <=> (Gate(Assess(c), policy) = "APPROVE")
            BY <3>1, ReportFields
        <3> DEFINE more == [c EXCEPT !.supporting = @ + 1]
                   against == [c EXCEPT !.contradicting = @ + 1]
        <3>3. /\ c.supporting \in Nat /\ c.contradicting \in Nat /\ c.confidence \in Int
              /\ policy.min_supporting \in Int /\ policy.max_contradicting \in Int /\ policy.min_confidence \in Int
            BY DEF PromotionCandidate, PromotionAssumption, PromotionGatePolicy
        <3>4. more \in PromotionCandidate /\ against \in PromotionCandidate
            BY DEF PromotionCandidate
        <3>5. /\ more.confidence = c.confidence /\ more.supporting = c.supporting + 1 /\ more.contradicting = c.contradicting
              /\ against.confidence = c.confidence /\ against.supporting = c.supporting
              /\ against.contradicting = c.contradicting + 1
            BY DEF PromotionCandidate
        <3> HIDE DEF more, against
        <3>6. /\ Gate(Assess(c), policy) = "APPROVE" <=>
                    /\ c.confidence >= policy.min_confidence /\ c.supporting >= policy.min_supporting
                    /\ c.contradicting <= policy.max_contradicting
                    /\ ~(policy.no_contradictions /\ c.contradicting > 0)
              /\ Gate(Assess(more), policy) = "APPROVE" <=>
                    /\ more.confidence >= policy.min_confidence /\ more.supporting >= policy.min_supporting
                    /\ more.contradicting <= policy.max_contradicting
                    /\ ~(policy.no_contradictions /\ more.contradicting > 0)
              /\ Gate(Assess(against), policy) = "APPROVE" <=>
                    /\ against.confidence >= policy.min_confidence /\ against.supporting >= policy.min_supporting
                    /\ against.contradicting <= policy.max_contradicting
                    /\ ~(policy.no_contradictions /\ against.contradicting > 0)
              /\ Gate(Assess(c), policy) \in {"APPROVE", "REJECT"}
              /\ Gate(Assess(against), policy) \in {"APPROVE", "REJECT"}
            BY <3>4, GateApproves
        <3>7. Gate(Assess(c), policy) = "APPROVE" =>
                 c.supporting >= policy.min_supporting /\ Gate(Assess(more), policy) = "APPROVE"
            BY <3>3, <3>5, <3>6
        <3>8. Gate(Assess(c), policy) = "REJECT" => Gate(Assess(against), policy) = "REJECT"
            BY <3>3, <3>5, <3>6
        <3> QED BY <3>2, <3>7, <3>8 DEF more, against
    <2>3. ValidatedOnEvidence
        <3> SUFFICES ASSUME NEW k \in knowledge
                     PROVE  /\ k.status = "VALIDATED" => k.supporting >= 3 /\ k.contradicting = 0 /\ k.confidence >= 80
                            /\ k.contradicting > 0 => k.status = "CONFLICTED"
                            /\ \E i \in DOMAIN reports :
                                  reports[i].decision.id = k.decision /\ reports[i].decision.decision = "APPROVE"
            BY DEF ValidatedOnEvidence
        <3>0. PICK i \in DOMAIN reports : \E kc \in reports[i].decision.made : k = Materialize(kc)
            BY DEF PromotionInv
        <3>1. PICK kc \in reports[i].decision.made : k = Materialize(kc)
            BY <3>0
        <3>2. PICK c \in PromotionCandidate, policy \in Policies, n \in Nat : reports[i] = Report(c, policy, n)
            BY <2>1
        <3>3. kc.source = c /\ kc.decision = reports[i].decision.id /\ reports[i].decision.decision = "APPROVE"
            BY <3>1, <3>2, ReportFields
        <3>4. c.supporting \in Nat /\ c.contradicting \in Nat /\ c.confidence \in Int
            BY DEF PromotionCandidate, PromotionAssumption
        <3>5. /\ k.supporting = c.supporting /\ k.contradicting = c.contradicting /\ k.confidence = c.confidence
              /\ k.decision = kc.decision
              /\ k.status = InitialStatus(c.confidence, c.supporting, c.contradicting)
            BY <3>1, <3>3 DEF Materialize
        <3> QED BY <3>3, <3>4, <3>5 DEF InitialStatus
    <2> QED BY <2>2, <2>3
<1> QED BY <1>1, <1>2, <1>3, PTL DEF PromotionSpec

-----------------------------------------------------------------------------
(* The projection compiler *)

\* The types of the compiler's variables
CompilerTypes ==
    /\ dependencies \in [Projections -> Seq(ProjectionDependency)]
    /\ registered \in SUBSET Projections
    /\ health \in [Projections -> ProjectionHealth]
    /\ stack \in Seq(Frame)
    /\ todo \in Seq(Projections)
    /\ latest \in Nat
    /\ snapshot \in [Projections -> Nat]

\* A snapshot, and what a frame has read of one, is of a committed sequence; a
\* state about to be returned reduces all that was committed when the call of
\* its frame began.
FrameSound(f, now) ==
    /\ f.begun <= now
    /\ f.from <= now
    /\ f.pc = "save" => f.begun <= f.upto /\ f.upto <= now

\* Whoever is BUILDING has a frame on the stack that will settle it.
BuildingOnStack ==
    \A p \in Projections : health[p] = "building" => \E i \in DOMAIN stack : stack[i].id = p

\* The inductive invariant of the compiler, but for the acyclic registry
CompilerInv ==
    /\ CompilerTypes
    /\ \A p \in Projections : snapshot[p] <= latest
    /\ \A i \in DOMAIN stack : FrameSound(stack[i], latest)
    /\ BuildingOnStack
    /\ ResultIsCurrent

\* An enumeration of a finite set lists its elements.
LEMMA SetToSeqType == ASSUME NEW S, IsFiniteSet(S) PROVE SetToSeq(S) \in Seq(S) /\ IsInjective(SetToSeq(S))
<1>1. Cardinality(S) \in Nat /\ ExistsBijection(1..Cardinality(S), S)
    BY FS_CardinalityType
<1>2. PICK f : f \in Bijection(1..Cardinality(S), S)
    BY <1>1 DEF ExistsBijection
<1>3. f \in [1..Cardinality(S) -> S] /\ IsInjective(f)
    BY <1>2 DEF Bijection, Injection, IsInjective
<1>4. SetToSeq(S) \in [1..Cardinality(S) -> S] /\ IsInjective(SetToSeq(S))
    BY <1>3 DEF SetToSeq
<1> QED BY <1>1, <1>4

\* The top frame is a frame, and a new one is sound.
LEMMA StackFacts ==
    ASSUME CompilerTypes
    PROVE  /\ Len(stack) \in Nat /\ DOMAIN stack = 1..Len(stack)
           /\ stack # <<>> => Len(stack) \in DOMAIN stack /\ Top \in Frame
           /\ \A p \in Projections : NewFrame(p) \in Frame /\ NewFrame(p).id = p /\ FrameSound(NewFrame(p), latest)
<1> USE DEF CompilerTypes
<1>1. Len(stack) \in Nat /\ DOMAIN stack = 1..Len(stack)
    OBVIOUS
<1>2. stack # <<>> => Len(stack) \in DOMAIN stack /\ Top \in Frame
    BY DEF Top
<1>3. ASSUME NEW p \in Projections
      PROVE  NewFrame(p) \in Frame /\ NewFrame(p).id = p /\ FrameSound(NewFrame(p), latest)
    BY DEF NewFrame, Frame, FrameSound
<1> QED BY <1>1, <1>2, <1>3

\* A failure settles every projection the stack was building.
LEMMA FailedKeeps ==
    ASSUME CompilerInv, NEW kind, Failed(kind), UNCHANGED <<dependencies, registered, latest, snapshot>>
    PROVE  CompilerInv'
<1>1. /\ health' = [p \in Projections |-> IF \E i \in DOMAIN stack : stack[i].id = p THEN "failed" ELSE health[p]]
      /\ stack' = <<>> /\ todo' = <<>> /\ result' = [ok |-> FALSE, id |-> stack[1].id, kind |-> kind]
    BY DEF Failed
<1>2. CompilerTypes'
    BY <1>1 DEF CompilerInv, CompilerTypes, ProjectionHealth
<1>3. \A p \in Projections : health'[p] # "building"
    BY <1>1 DEF CompilerInv, BuildingOnStack
<1>4. ResultIsCurrent'
    BY <1>1 DEF ResultIsCurrent
<1> QED BY <1>1, <1>2, <1>3, <1>4 DEF CompilerInv, BuildingOnStack

\* A return settles the top frame's projection and leaves the others their frames.
LEMMA ReadyKeeps ==
    ASSUME CompilerInv, stack # <<>>, NEW upto \in Nat, Top.begun <= upto, upto <= latest,
           Ready(upto), UNCHANGED <<dependencies, registered, latest, snapshot>>
    PROVE  CompilerInv'
<1> USE DEF CompilerInv
<1>0. /\ Len(stack) \in Nat /\ DOMAIN stack = 1..Len(stack) /\ Len(stack) \in DOMAIN stack
      /\ Top \in Frame /\ Top.id \in Projections
    BY StackFacts DEF Frame
<1>1. /\ health' = [health EXCEPT ![Top.id] = "ready"]
      /\ stack' = SubSeq(stack, 1, Len(stack) - 1)
      /\ result' = IF Len(stack) = 1
                   THEN [ok |-> TRUE, id |-> Top.id, begun |-> Top.begun, upto |-> upto, ended |-> latest]
                   ELSE result
      /\ todo' = todo
    BY DEF Ready, Front
<1>2. /\ stack' \in Seq(Frame) /\ DOMAIN stack' = 1..(Len(stack) - 1)
      /\ \A i \in DOMAIN stack' : stack'[i] = stack[i] /\ i \in DOMAIN stack
    BY <1>0, <1>1 DEF CompilerTypes
<1>3. CompilerTypes'
    BY <1>0, <1>1, <1>2 DEF CompilerTypes, ProjectionHealth
<1>4. \A i \in DOMAIN stack' : FrameSound(stack'[i], latest')
    BY <1>2 DEF FrameSound
<1>5. BuildingOnStack'
    <2> SUFFICES ASSUME NEW p \in Projections, health'[p] = "building"
                 PROVE  \E i \in DOMAIN stack' : stack'[i].id = p
        BY DEF BuildingOnStack
    <2>1. p # Top.id /\ health[p] = "building"
        BY <1>0, <1>1 DEF CompilerTypes
    <2>2. PICK i \in DOMAIN stack : stack[i].id = p
        BY <2>1 DEF BuildingOnStack
    <2>3. i # Len(stack)
        BY <2>1, <2>2 DEF Top
    <2> QED BY <1>0, <1>2, <2>2, <2>3
<1>6. ResultIsCurrent'
    BY <1>1 DEF ResultIsCurrent
<1> QED BY <1>1, <1>3, <1>4, <1>5, <1>6

\* The top frame may be replaced by a sound one of the same projection.
LEMMA SetTopStack ==
    ASSUME CompilerInv, stack # <<>>, NEW f \in Frame, f.id = Top.id, FrameSound(f, latest)
    PROVE  /\ SetTop(f) \in Seq(Frame) /\ DOMAIN SetTop(f) = DOMAIN stack
           /\ \A i \in DOMAIN stack : SetTop(f)[i].id = stack[i].id /\ FrameSound(SetTop(f)[i], latest)
<1> USE DEF CompilerInv
<1>0. Len(stack) \in Nat /\ DOMAIN stack = 1..Len(stack) /\ Len(stack) \in DOMAIN stack
    BY StackFacts
<1>1. stack \in Seq(Frame)
    BY DEF CompilerTypes
<1>2. SetTop(f) \in Seq(Frame) /\ DOMAIN SetTop(f) = DOMAIN stack
    BY <1>0, <1>1 DEF SetTop
<1>3. \A i \in DOMAIN stack : SetTop(f)[i] = IF i = Len(stack) THEN f ELSE stack[i]
    BY <1>0, <1>1 DEF SetTop
<1> QED BY <1>2, <1>3 DEF Top

\* A step inside the innermost call keeps the invariant if its frame stays sound.
LEMMA SetTopKeeps ==
    ASSUME CompilerInv, stack # <<>>, NEW f \in Frame, f.id = Top.id, FrameSound(f, latest),
           stack' = SetTop(f), UNCHANGED <<dependencies, registered, health, todo, latest, snapshot, result>>
    PROVE  CompilerInv'
<1> USE DEF CompilerInv
<1>1. /\ stack' \in Seq(Frame) /\ DOMAIN stack' = DOMAIN stack
      /\ \A i \in DOMAIN stack : stack'[i].id = stack[i].id /\ FrameSound(stack'[i], latest)
    BY SetTopStack
<1>2. CompilerTypes'
    BY <1>1 DEF CompilerTypes
<1>3. BuildingOnStack'
    BY <1>1 DEF BuildingOnStack
<1>4. ResultIsCurrent'
    BY DEF ResultIsCurrent
<1> QED BY <1>1, <1>2, <1>3, <1>4

\* A call marks its projection BUILDING and pushes the frame that will settle it.
LEMMA PushKeeps ==
    ASSUME CompilerInv, NEW s \in Seq(Frame),
           \A i \in DOMAIN s : FrameSound(s[i], latest),
           \A i \in DOMAIN stack : \E j \in DOMAIN s : s[j].id = stack[i].id,
           NEW p \in Projections, stack' = Append(s, NewFrame(p)), health' = [health EXCEPT ![p] = "building"],
           todo' \in Seq(Projections), UNCHANGED <<dependencies, registered, latest, snapshot, result>>
    PROVE  CompilerInv'
<1> USE DEF CompilerInv
<1> DEFINE f == NewFrame(p)
<1>1. f \in Frame /\ f.id = p /\ FrameSound(f, latest)
    BY StackFacts
<1> HIDE DEF f
<1>2. /\ Len(s) \in Nat /\ DOMAIN s = 1..Len(s)
      /\ stack' \in Seq(Frame) /\ DOMAIN stack' = 1..(Len(s) + 1)
      /\ stack'[Len(s) + 1] = f
      /\ \A i \in DOMAIN s : i \in DOMAIN stack' /\ stack'[i] = s[i]
    BY <1>1 DEF f
<1>3. CompilerTypes'
    BY <1>2 DEF CompilerTypes, ProjectionHealth
<1>4. ASSUME NEW i \in DOMAIN stack' PROVE FrameSound(stack'[i], latest')
    <2>1. CASE i \in DOMAIN s
        BY <1>2, <2>1
    <2>2. CASE i \notin DOMAIN s
        <3>1. i = Len(s) + 1
            BY <1>2, <2>2
        <3> QED BY <1>1, <1>2, <3>1
    <2> QED BY <2>1, <2>2
<1>5. BuildingOnStack'
    <2> SUFFICES ASSUME NEW q \in Projections, health'[q] = "building"
                 PROVE  \E i \in DOMAIN stack' : stack'[i].id = q
        BY DEF BuildingOnStack
    <2>1. CASE q = p
        BY <1>1, <1>2, <2>1
    <2>2. CASE q # p
        <3>1. health[q] = "building"
            BY <2>2 DEF CompilerTypes
        <3>2. PICK i \in DOMAIN stack : stack[i].id = q
            BY <3>1 DEF BuildingOnStack
        <3>3. PICK j \in DOMAIN s : s[j].id = q
            BY <3>2
        <3> QED BY <1>2, <3>3
    <2> QED BY <2>1, <2>2
<1>6. ResultIsCurrent'
    BY DEF ResultIsCurrent
<1> QED BY <1>3, <1>4, <1>5, <1>6

\* A non-empty list is an element of its kind and a list.
LEMMA HeadTail ==
    ASSUME NEW T, NEW q \in Seq(T), q # <<>>
    PROVE  Head(q) \in T /\ Tail(q) \in Seq(T)
OBVIOUS

\* The loop over the dependencies: pass over, compile, or fail on an unknown one.
LEMMA NextDependencyKeeps == ASSUME CompilerInv, NextDependency PROVE CompilerInv'
<1> USE DEF CompilerInv
<1> DEFINE dep == Head(Top.rest).id
           f == [Top EXCEPT !.rest = Tail(@)]
<1>1. stack # <<>> /\ Top \in Frame /\ Top.rest # <<>>
    BY StackFacts DEF NextDependency
<1>2. Top.rest \in Seq(ProjectionDependency)
    BY <1>1 DEF Frame
<1>a. Head(Top.rest) \in ProjectionDependency /\ Tail(Top.rest) \in Seq(ProjectionDependency)
    BY <1>1, <1>2, HeadTail
<1>3. dep \in Projections
    BY <1>a DEF ProjectionDependency
<1>4. f \in Frame
    <2>1. ASSUME NEW t \in Seq(ProjectionDependency) PROVE [Top EXCEPT !.rest = t] \in Frame
        BY <1>1 DEF Frame
    <2> QED BY <1>a, <2>1
<1>5. f.id = Top.id /\ f.begun = Top.begun /\ f.from = Top.from /\ f.pc = Top.pc /\ f.upto = Top.upto
    BY <1>1 DEF Frame
<1>6. FrameSound(Top, latest)
    BY <1>1, StackFacts DEF Top
<1>7. FrameSound(f, latest)
    BY <1>5, <1>6 DEF FrameSound
<1> HIDE DEF f, dep
<1>8. CASE ~Needed(dep)
    <2>1. stack' = SetTop(f) /\ UNCHANGED <<dependencies, registered, health, todo, latest, snapshot, result>>
        BY <1>8 DEF NextDependency, f, dep
    <2> QED BY <1>1, <1>4, <1>5, <1>7, <2>1, SetTopKeeps
<1>9. CASE Needed(dep) /\ dep \in registered
    <2>1. /\ health' = [health EXCEPT ![dep] = "building"]
          /\ stack' = Append(SetTop(f), NewFrame(dep))
          /\ UNCHANGED <<dependencies, registered, todo, latest, snapshot, result>>
        BY <1>9 DEF NextDependency, f, dep
    <2>2. /\ SetTop(f) \in Seq(Frame) /\ DOMAIN SetTop(f) = DOMAIN stack
          /\ \A i \in DOMAIN stack : SetTop(f)[i].id = stack[i].id /\ FrameSound(SetTop(f)[i], latest)
        BY <1>1, <1>4, <1>5, <1>7, SetTopStack
    <2>3. todo' \in Seq(Projections)
        BY <2>1 DEF CompilerTypes
    <2>4. \A i \in DOMAIN SetTop(f) : FrameSound(SetTop(f)[i], latest)
        BY <2>2
    <2>5. \A i \in DOMAIN stack : \E j \in DOMAIN SetTop(f) : SetTop(f)[j].id = stack[i].id
        BY <2>2
    <2> QED BY <1>3, <2>1, <2>2, <2>3, <2>4, <2>5, PushKeeps
<1>10. CASE Needed(dep) /\ dep \notin registered
    <2>1. Failed("not_found") /\ UNCHANGED <<dependencies, registered, latest, snapshot>>
        BY <1>10 DEF NextDependency, dep
    <2> QED BY <2>1, FailedKeeps
<1> QED BY <1>8, <1>9, <1>10

\* The reads of the store, the fast path, the reduction and the return.
LEMMA BuildKeeps ==
    ASSUME CompilerInv, LoadSnapshot \/ ReadLatest \/ ReadEvents \/ SaveSnapshot
    PROVE  CompilerInv'
<1> USE DEF CompilerInv
<1>0. stack # <<>> /\ Top \in Frame /\ FrameSound(Top, latest)
    BY StackFacts DEF LoadSnapshot, ReadLatest, ReadEvents, SaveSnapshot, Top
<1>1. /\ Top.id \in Projections /\ Top.begun \in Nat /\ Top.from \in Nat /\ Top.upto \in Nat
      /\ latest \in Nat /\ snapshot[Top.id] \in Nat /\ snapshot[Top.id] <= latest
    BY <1>0 DEF Frame, CompilerTypes
<1>2. CASE LoadSnapshot
    <2> DEFINE f == [Top EXCEPT !.pc = "latest", !.from = snapshot[Top.id]]
    <2>1. f \in Frame /\ f.id = Top.id /\ f.begun = Top.begun /\ f.pc = "latest" /\ f.from = snapshot[Top.id]
        BY <1>0, <1>1 DEF Frame
    <2>2. FrameSound(f, latest)
        BY <1>0, <1>1, <2>1 DEF FrameSound
    <2> HIDE DEF f
    <2>3. stack' = SetTop(f) /\ UNCHANGED <<dependencies, registered, health, todo, latest, snapshot, result>>
        BY <1>2 DEF LoadSnapshot, f
    <2> QED BY <1>0, <2>1, <2>2, <2>3, SetTopKeeps
<1>3. CASE ReadLatest
    <2>1. CASE Current(Top.from)
        <3>1. Ready(Top.from) /\ UNCHANGED <<dependencies, registered, latest, snapshot>>
            BY <1>3, <2>1 DEF ReadLatest
        <3>2. Top.begun <= Top.from /\ Top.from <= latest
            BY <1>0, <1>1, <2>1 DEF Current, FrameSound
        <3> QED BY <1>0, <1>1, <3>1, <3>2, ReadyKeeps
    <2>2. CASE ~Current(Top.from)
        <3> DEFINE f == [Top EXCEPT !.pc = "events", !.seen = latest]
        <3>1. f \in Frame /\ f.id = Top.id /\ f.begun = Top.begun /\ f.pc = "events" /\ f.from = Top.from
            BY <1>0, <1>1 DEF Frame
        <3>2. FrameSound(f, latest)
            BY <1>0, <1>1, <3>1 DEF FrameSound
        <3> HIDE DEF f
        <3>3. stack' = SetTop(f) /\ UNCHANGED <<dependencies, registered, health, todo, latest, snapshot, result>>
            BY <1>3, <2>2 DEF ReadLatest, f
        <3> QED BY <1>0, <3>1, <3>2, <3>3, SetTopKeeps
    <2> QED BY <2>1, <2>2
<1>4. CASE ReadEvents
    <2> DEFINE f == [Top EXCEPT !.pc = "save", !.upto = latest]
    <2>1. f \in Frame /\ f.id = Top.id /\ f.begun = Top.begun /\ f.pc = "save" /\ f.from = Top.from /\ f.upto = latest
        BY <1>0, <1>1 DEF Frame
    <2>2. FrameSound(f, latest)
        BY <1>0, <1>1, <2>1 DEF FrameSound
    <2> HIDE DEF f
    <2>3. /\ UNCHANGED <<dependencies, registered, latest, snapshot>>
          /\ \/ Failed("attribute_error") \/ Failed("missing_bootstrap")
             \/ stack' = SetTop(f) /\ UNCHANGED <<health, todo, result>>
        BY <1>4 DEF ReadEvents, f
    <2> QED BY <1>0, <2>1, <2>2, <2>3, SetTopKeeps, FailedKeeps
<1>5. CASE SaveSnapshot
    <2>1. Ready(Top.upto) /\ UNCHANGED <<dependencies, registered, latest, snapshot>>
        BY <1>5 DEF SaveSnapshot
    <2>2. Top.begun <= Top.upto /\ Top.upto <= latest
        BY <1>0, <1>5 DEF SaveSnapshot, FrameSound
    <2> QED BY <1>0, <1>1, <2>1, <2>2, ReadyKeeps
<1> QED BY <1>2, <1>3, <1>4, <1>5

\* The registry, the calls, and what other processes write.
LEMMA CallsKeep ==
    ASSUME CompilerAssumption, CompilerInv,
           \/ Freeze \/ CompileAll \/ CompileNext \/ AppendEvent
           \/ \E p \in Projections : Register(p) \/ Compile(p) \/ LegacySnapshot(p)
    PROVE  CompilerInv'
<1> USE DEF CompilerInv
<1>0. /\ latest \in Nat /\ \A p \in Projections : snapshot[p] \in Nat
      /\ \A i \in DOMAIN stack : stack[i].begun \in Nat /\ stack[i].from \in Nat /\ stack[i].upto \in Nat
    <2>1. \A i \in DOMAIN stack : stack[i] \in Frame
        BY StackFacts DEF CompilerTypes
    <2> QED BY <2>1 DEF CompilerTypes, Frame
<1>1. CASE Freeze \/ (\E p \in Projections : Register(p))
    BY <1>1 DEF Freeze, Register, CompilerTypes, BuildingOnStack, ResultIsCurrent
<1>2. CASE CompileAll
    <2>1. SetToSeq(registered) \in Seq(registered)
        BY FS_Subset, SetToSeqType DEF CompilerAssumption, CompilerTypes
    <2>2. SetToSeq(registered) \in Seq(Projections)
        BY <2>1 DEF CompilerTypes
    <2> QED BY <1>2, <2>2 DEF CompileAll, CompilerTypes, BuildingOnStack, ResultIsCurrent
<1>3. ASSUME NEW p \in Projections, stack = <<>>, stack' = <<NewFrame(p)>>, health' = [health EXCEPT ![p] = "building"],
             todo' \in Seq(Projections), UNCHANGED <<dependencies, registered, latest, snapshot, result>>
      PROVE  CompilerInv'
    <2> DEFINE s == <<>>
    <2>1. s \in Seq(Frame) /\ DOMAIN s = {} /\ stack' = Append(s, NewFrame(p)) /\ DOMAIN stack = {}
        BY <1>3
    <2> HIDE DEF s
    <2> QED BY <1>3, <2>1, PushKeeps
<1>4. CASE CompileNext
    <2>1. Head(todo) \in Projections /\ Tail(todo) \in Seq(Projections)
        BY <1>4, HeadTail DEF CompileNext, CompilerTypes
    <2> QED BY <1>3, <1>4, <2>1 DEF CompileNext
<1>5. ASSUME NEW p \in Projections, Compile(p) PROVE CompilerInv'
    <2>1. CASE p \in registered
        BY <1>3, <1>5, <2>1 DEF Compile, CompilerTypes
    <2>2. CASE p \notin registered
        BY <1>5, <2>2 DEF Compile, CompilerTypes, BuildingOnStack, ResultIsCurrent
    <2> QED BY <2>1, <2>2
<1>6. CASE AppendEvent
    <2>1. latest' = latest + 1 /\ UNCHANGED <<dependencies, registered, health, stack, todo, snapshot, result>>
        BY <1>6 DEF AppendEvent
    <2>2. \A i \in DOMAIN stack : FrameSound(stack[i], latest + 1)
        BY <1>0 DEF FrameSound
    <2> QED BY <1>0, <2>1, <2>2 DEF CompilerTypes, BuildingOnStack, ResultIsCurrent
<1>7. ASSUME NEW p \in Projections, LegacySnapshot(p) PROVE CompilerInv'
    BY <1>0, <1>7 DEF LegacySnapshot, CompilerTypes, BuildingOnStack, ResultIsCurrent
<1> QED BY <1>1, <1>2, <1>4, <1>5, <1>6, <1>7

\* The invariant of the compiler, for any projections and any dependencies,
\* cyclic ones included.
LEMMA CompilerInvHolds == ASSUME CompilerAssumption PROVE PSpec => []CompilerInv
<1>1. PInit => CompilerInv
    BY DEF PInit, CompilerInv, CompilerTypes, CompilerAssumption, ProjectionHealth, BuildingOnStack, ResultIsCurrent
<1>2. CompilerInv /\ [PNext]_pvars => CompilerInv'
    <2> SUFFICES ASSUME CompilerInv, [PNext]_pvars PROVE CompilerInv'
        OBVIOUS
    <2>1. CASE UNCHANGED pvars
        BY <2>1 DEF pvars, CompilerInv, CompilerTypes, BuildingOnStack, ResultIsCurrent
    <2>2. CASE PNext
        BY <2>2, CallsKeep, NextDependencyKeeps, BuildKeeps DEF PNext, CompilerStep
    <2> QED BY <2>1, <2>2
<1> QED BY <1>1, <1>2, PTL DEF PSpec

-----------------------------------------------------------------------------
(* The tools of the MCP server *)

\* The types of the tables and of a call
MCPToolDef == [id : ToolIds, name : Names, fails : BOOLEAN, version : Nat]
MCPBinding == [id : ToolIds \X Workspaces, tool : ToolIds, workspace : Workspaces, session : Sessions]
MCPResult == [tool : ToolIds \cup {<<"UNKNOWN", "">>}, success : BOOLEAN, version : Nat]
MCPCall ==
    [asked : [name : Names, bound : {FALSE}] \cup [name : Names, bound : {TRUE}, binding : ToolIds \X Workspaces],
     result : MCPResult]

\* Every name that is found has a first tool, which is of that name.
ToolsSound(d, n) ==
    /\ \A i \in DOMAIN d : d[i].id[1] = d[i].name /\ d[i].version > 0 /\ d[i].version <= n
    /\ \A name \in Names : Named(d, name) => \E i \in DOMAIN d : IsFirst(d, name, i)

\* A binding is kept under the id of what it binds
BindingsSound(d) == \A i \in DOMAIN d : d[i].id = BindingId(d[i].tool, d[i].workspace)

\* What a call ran is still the first tool of its name, at a version no older,
\* and the binding it came through is still there.
CallSound(c, d, b) ==
    /\ c.result.version > 0 =>
          \E i \in DOMAIN d : /\ IsFirst(d, c.asked.name, i)
                              /\ d[i].id = c.result.tool /\ c.result.version <= d[i].version
    /\ c.asked.bound /\ c.result.version > 0 => c.asked.binding \in Ids(b)

\* The inductive invariant of the tool tables and the calls made through them
ToolsInv ==
    /\ tools \in Seq(MCPToolDef) /\ bindings \in Seq(MCPBinding) /\ calls \in Seq(MCPCall)
    /\ made \in [tools : Nat, bindings : Nat]
    /\ ToolsSound(tools, made.tools)
    /\ BindingsSound(bindings)
    /\ \A k \in DOMAIN calls : CallSound(calls[k], tools, bindings)
    /\ NameKeepsMeaning

\* There is one first tool of a name, and get_tool_by_name returns it.
LEMMA FirstIs ==
    ASSUME NEW T, NEW d \in Seq(T), NEW name, NEW i \in DOMAIN d, IsFirst(d, name, i)
    PROVE  GetToolByName(d, name) = d[i]
<1>1. DOMAIN d = 1..Len(d) /\ Len(d) \in Nat
    OBVIOUS
<1>2. \A j \in DOMAIN d : IsFirst(d, name, j) => j = i
    <2> SUFFICES ASSUME NEW j \in DOMAIN d, IsFirst(d, name, j), j # i PROVE FALSE
        OBVIOUS
    <2>1. CASE j < i
        BY <1>1, <2>1 DEF IsFirst
    <2>2. CASE i < j
        BY <1>1, <2>2 DEF IsFirst
    <2> QED BY <1>1, <2>1, <2>2
<1> QED BY <1>2 DEF GetToolByName

\* dict[key] = value keeps the places of what is there and what it is of.
LEMMA PutKeeps ==
    ASSUME NEW T, NEW d \in Seq(T), NEW v \in T
    PROVE  /\ Put(d, v) \in Seq(T)
           /\ DOMAIN d \subseteq DOMAIN Put(d, v)
           /\ \A i \in DOMAIN d : Put(d, v)[i] = IF d[i].id = v.id THEN v ELSE d[i]
           /\ \A i \in DOMAIN Put(d, v) : i \notin DOMAIN d =>
                 Put(d, v)[i] = v /\ i = Len(d) + 1 /\ v.id \notin Ids(d)
<1>0. DOMAIN d = 1..Len(d) /\ Len(d) \in Nat
    OBVIOUS
<1>1. CASE v.id \in Ids(d)
    <2>1. Put(d, v) = [i \in DOMAIN d |-> IF d[i].id = v.id THEN v ELSE d[i]]
        BY <1>1 DEF Put
    <2>2. Put(d, v) \in [1..Len(d) -> T]
        BY <1>0, <2>1
    <2> QED BY <1>0, <2>1, <2>2
<1>2. CASE v.id \notin Ids(d)
    <2>1. Put(d, v) = Append(d, v)
        BY <1>2 DEF Put
    <2>2. \A i \in DOMAIN d : d[i].id # v.id
        BY <1>2 DEF Ids
    <2> QED BY <1>0, <1>2, <2>1, <2>2
<1> QED BY <1>1, <1>2

\* What has an entry keeps one.
LEMMA PutKeepsIds ==
    ASSUME NEW T, NEW d \in Seq(T), NEW v \in T
    PROVE  Ids(d) \subseteq Ids(Put(d, v))
<1> SUFFICES ASSUME NEW i \in DOMAIN d PROVE d[i].id \in Ids(Put(d, v))
    BY DEF Ids
<1>1. DOMAIN d \subseteq DOMAIN Put(d, v)
    BY PutKeeps
<1>2. \A j \in DOMAIN d : Put(d, v)[j] = IF d[j].id = v.id THEN v ELSE d[j]
    BY PutKeeps
<1>3. Put(d, v)[i].id = d[i].id
    BY <1>2
<1> QED BY <1>1, <1>3 DEF Ids

\* Registering a tool, again or for the first time, leaves every name its first
\* tool, at a version no older.
LEMMA PutKeepsFirst ==
    ASSUME NEW d \in Seq(MCPToolDef), NEW v \in MCPToolDef, NEW n \in Nat, ToolsSound(d, n),
           v.id[1] = v.name, v.version = n + 1
    PROVE  /\ \A name \in Names : \A i \in DOMAIN d :
                 IsFirst(d, name, i) =>
                    /\ i \in DOMAIN Put(d, v) /\ IsFirst(Put(d, v), name, i)
                    /\ Put(d, v)[i].id = d[i].id /\ d[i].version <= Put(d, v)[i].version
           /\ ToolsSound(Put(d, v), n + 1)
<1> DEFINE e == Put(d, v)
<1>0. DOMAIN d = 1..Len(d) /\ Len(d) \in Nat /\ \A i \in DOMAIN d : d[i] \in MCPToolDef
    OBVIOUS
<1>1. /\ e \in Seq(MCPToolDef) /\ DOMAIN d \subseteq DOMAIN e
      /\ \A i \in DOMAIN d : e[i] = IF d[i].id = v.id THEN v ELSE d[i]
      /\ \A i \in DOMAIN e : i \notin DOMAIN d => e[i] = v /\ i = Len(d) + 1 /\ v.id \notin Ids(d)
    BY PutKeeps
<1> HIDE DEF e
<1>2. DOMAIN e = 1..Len(e) /\ Len(e) \in Nat
    BY <1>1
<1>3. \A i \in DOMAIN d : e[i].id = d[i].id /\ e[i].name = d[i].name /\ e[i].version >= d[i].version
    <2> SUFFICES ASSUME NEW i \in DOMAIN d
                 PROVE  e[i].id = d[i].id /\ e[i].name = d[i].name /\ e[i].version >= d[i].version
        OBVIOUS
    <2>1. d[i].version \in Nat /\ d[i].version <= n /\ d[i].id[1] = d[i].name
        BY <1>0 DEF ToolsSound, MCPToolDef
    <2> QED BY <1>1, <2>1
<1>4. ASSUME NEW name \in Names, NEW i \in DOMAIN d, IsFirst(d, name, i)
      PROVE  /\ i \in DOMAIN e /\ IsFirst(e, name, i)
             /\ e[i].id = d[i].id /\ d[i].version <= e[i].version
    <2>1. \A j \in 1..(i - 1) : j \in DOMAIN d
        BY <1>0
    <2>2. d[i].version \in Nat /\ e[i].version \in Nat
        BY <1>0, <1>1 DEF MCPToolDef
    <2> QED BY <1>1, <1>3, <1>4, <2>1, <2>2 DEF IsFirst
<1>5. \A i \in DOMAIN e : e[i].id[1] = e[i].name /\ e[i].version > 0 /\ e[i].version <= n + 1
    <2> SUFFICES ASSUME NEW i \in DOMAIN e
                 PROVE  e[i].id[1] = e[i].name /\ e[i].version > 0 /\ e[i].version <= n + 1
        OBVIOUS
    <2>1. CASE e[i] = v
        BY <2>1
    <2>2. CASE e[i] # v
        <3>1. i \in DOMAIN d /\ e[i] = d[i]
            BY <1>1, <2>2
        <3>2. d[i].id[1] = d[i].name /\ d[i].version > 0 /\ d[i].version <= n /\ d[i].version \in Nat
            BY <1>0, <3>1 DEF ToolsSound, MCPToolDef
        <3> QED BY <3>1, <3>2
    <2> QED BY <2>1, <2>2
<1>6. ASSUME NEW name \in Names, Named(e, name) PROVE \E i \in DOMAIN e : IsFirst(e, name, i)
    <2>1. CASE Named(d, name)
        <3>1. PICK i \in DOMAIN d : IsFirst(d, name, i)
            BY <2>1 DEF ToolsSound
        <3> QED BY <1>4, <3>1
    <2>2. CASE ~Named(d, name)
        <3>1. PICK i \in DOMAIN e : e[i].name = name
            BY <1>6 DEF Named
        <3>2. i \notin DOMAIN d
            BY <1>3, <2>2, <3>1 DEF Named
        <3>3. i = Len(d) + 1
            BY <1>1, <3>2
        <3>4. \A j \in 1..(i - 1) : j \in DOMAIN d
            BY <1>0, <3>3
        <3>5. \A j \in 1..(i - 1) : e[j].name # name
            BY <1>3, <2>2, <3>4 DEF Named
        <3> QED BY <3>1, <3>5 DEF IsFirst
    <2> QED BY <2>1, <2>2
<1>7. ToolsSound(e, n + 1)
    BY <1>5, <1>6 DEF ToolsSound
<1> QED BY <1>4, <1>7 DEF e

\* What a call returns ran the first tool of the name, at its present version, or
\* ran nothing.
RanFirst(r, name, d) ==
    r.version > 0 =>
        \E i \in DOMAIN d : IsFirst(d, name, i) /\ d[i].id = r.tool /\ d[i].version = r.version

\* execute_tool runs the first tool of the name.
LEMMA ExecuteRuns ==
    ASSUME ToolsInv, NEW name \in Names
    PROVE  ExecuteTool(name) \in MCPResult /\ RanFirst(ExecuteTool(name), name, tools)
<1>1. CASE ~Named(tools, name)
    BY <1>1 DEF ExecuteTool, Unknown, MCPResult, RanFirst
<1>2. CASE Named(tools, name)
    <2>0. tools \in Seq(MCPToolDef)
        BY DEF ToolsInv
    <2>1. PICK i \in DOMAIN tools : IsFirst(tools, name, i)
        BY <1>2 DEF ToolsInv, ToolsSound
    <2>2. GetToolByName(tools, name) = tools[i]
        BY <2>0, <2>1, FirstIs
    <2>3. tools[i] \in MCPToolDef
        BY <2>0
    <2>4. ExecuteTool(name) =
              [tool |-> tools[i].id, success |-> ~tools[i].fails, version |-> tools[i].version]
        BY <1>2, <2>2 DEF ExecuteTool
    <2>5. tools[i].id \in ToolIds /\ tools[i].version \in Nat
        BY <2>3 DEF MCPToolDef
    <2>6. ExecuteTool(name) \in MCPResult
        <3>1. (~tools[i].fails) \in BOOLEAN
            OBVIOUS
        <3>2. ASSUME NEW f \in BOOLEAN
              PROVE  [tool |-> tools[i].id, success |-> f, version |-> tools[i].version] \in MCPResult
            BY <2>5 DEF MCPResult
        <3> QED BY <2>4, <3>1, <3>2, Zenon
    <2>7. ExecuteTool(name).tool = tools[i].id /\ ExecuteTool(name).version = tools[i].version
        BY <2>4
    <2>8. RanFirst(ExecuteTool(name), name, tools)
        BY <2>1, <2>7 DEF RanFirst
    <2> QED BY <2>6, <2>8
<1> QED BY <1>1, <1>2

\* execute_tool_with_binding runs the first tool of the bound tool's name, and
\* only when the binding is there.
LEMMA BindingRuns ==
    ASSUME ToolsInv, NEW t \in ToolIds, NEW w \in Workspaces
    PROVE  /\ ExecuteToolWithBinding(BindingId(t, w)) \in MCPResult
           /\ RanFirst(ExecuteToolWithBinding(BindingId(t, w)), t[1], tools)
           /\ ExecuteToolWithBinding(BindingId(t, w)).version > 0 => BindingId(t, w) \in Ids(bindings)
<1> DEFINE id == BindingId(t, w)
<1>1. CASE id \notin Ids(bindings)
    BY <1>1 DEF ExecuteToolWithBinding, Unknown, MCPResult, RanFirst
<1>2. CASE id \in Ids(bindings) /\ t \notin Ids(tools)
    <2>1. Get(bindings, id).tool = t
        <3>1. PICK i \in DOMAIN bindings : bindings[i].id = id
            BY <1>2 DEF Ids
        <3>2. \A j \in DOMAIN bindings : bindings[j].id = id => bindings[j].tool = t
            BY DEF ToolsInv, BindingsSound, BindingId
        <3> QED BY <3>1, <3>2 DEF Get
    <2>2. ExecuteToolWithBinding(id) = [Unknown EXCEPT !.tool = t]
        BY <1>2, <2>1 DEF ExecuteToolWithBinding
    <2>3. ExecuteToolWithBinding(id) = [tool |-> t, success |-> FALSE, version |-> 0]
        BY <2>2 DEF Unknown
    <2>4. [tool |-> t, success |-> FALSE, version |-> 0] \in MCPResult
        BY DEF MCPResult
    <2>5. ExecuteToolWithBinding(id) \in MCPResult
        BY <2>3, <2>4
    <2>6. ExecuteToolWithBinding(id).version = 0
        BY <2>3
    <2> QED BY <2>5, <2>6 DEF RanFirst
<1>3. CASE id \in Ids(bindings) /\ t \in Ids(tools)
    <2>1. Get(bindings, id).tool = t
        <3>1. PICK i \in DOMAIN bindings : bindings[i].id = id
            BY <1>3 DEF Ids
        <3>2. \A j \in DOMAIN bindings : bindings[j].id = id => bindings[j].tool = t
            BY DEF ToolsInv, BindingsSound, BindingId
        <3> QED BY <3>1, <3>2 DEF Get
    <2>2. Get(tools, t).name = t[1]
        <3>1. PICK i \in DOMAIN tools : tools[i].id = t
            BY <1>3 DEF Ids
        <3>2. \A j \in DOMAIN tools : tools[j].id = t => tools[j].name = t[1]
            BY DEF ToolsInv, ToolsSound
        <3> QED BY <3>1, <3>2 DEF Get
    <2>3. ExecuteToolWithBinding(id) = ExecuteTool(t[1])
        BY <1>3, <2>1, <2>2 DEF ExecuteToolWithBinding
    <2>4. t[1] \in Names
        BY DEF ToolIds, ToolId
    <2> QED BY <1>3, <2>3, <2>4, ExecuteRuns
<1> QED BY <1>1, <1>2, <1>3

\* Registering keeps the invariant: what ran before is still what its name means.
LEMMA RegisterKeeps ==
    ASSUME ToolsInv, NEW n \in Names, NEW c \in Categories, NEW fails \in BOOLEAN, RegisterTool(n, c, fails)
    PROVE  ToolsInv'
<1> DEFINE v == [id |-> ToolId(n, c), name |-> n, fails |-> fails, version |-> made.tools + 1]
<1>1. made.tools \in Nat /\ made.bindings \in Nat
    BY DEF ToolsInv
<1>2. v \in MCPToolDef /\ v.id[1] = v.name /\ v.version = made.tools + 1
    BY <1>1 DEF MCPToolDef, ToolIds, ToolId
<1>3. tools' = Put(tools, v)
    BY DEF RegisterTool
<1>4. made' \in [tools : Nat, bindings : Nat] /\ made'.tools = made.tools + 1
    <2>1. ASSUME NEW m \in Nat PROVE [made EXCEPT !.tools = m] \in [tools : Nat, bindings : Nat]
                                      /\ [made EXCEPT !.tools = m].tools = m
        BY DEF ToolsInv
    <2> QED BY <1>1, <2>1 DEF RegisterTool
<1> HIDE DEF v
<1>5. tools \in Seq(MCPToolDef) /\ ToolsSound(tools, made.tools)
    BY DEF ToolsInv
<1>6. tools' \in Seq(MCPToolDef)
    BY <1>2, <1>3, <1>5, PutKeeps
<1>7. ToolsSound(tools', made'.tools)
    BY <1>1, <1>2, <1>3, <1>4, <1>5, PutKeepsFirst
<1>8. \A name \in Names : \A i \in DOMAIN tools :
          IsFirst(tools, name, i) =>
              /\ i \in DOMAIN tools' /\ IsFirst(tools', name, i)
              /\ tools'[i].id = tools[i].id /\ tools[i].version <= tools'[i].version
    BY <1>1, <1>2, <1>3, <1>5, PutKeepsFirst
<1>9. \A k \in DOMAIN calls : CallSound(calls[k], tools', bindings)
    <2> SUFFICES ASSUME NEW k \in DOMAIN calls PROVE CallSound(calls[k], tools', bindings)
        OBVIOUS
    <2>1. CallSound(calls[k], tools, bindings) /\ calls[k] \in MCPCall
        BY DEF ToolsInv
    <2>2. calls[k].asked.name \in Names /\ calls[k].result.version \in Nat
        BY <2>1 DEF MCPCall, MCPResult
    <2>3. ASSUME calls[k].result.version > 0
          PROVE  \E i \in DOMAIN tools' : /\ IsFirst(tools', calls[k].asked.name, i)
                                          /\ tools'[i].id = calls[k].result.tool
                                          /\ calls[k].result.version <= tools'[i].version
        <3>1. PICK i \in DOMAIN tools : /\ IsFirst(tools, calls[k].asked.name, i)
                                        /\ tools[i].id = calls[k].result.tool
                                        /\ calls[k].result.version <= tools[i].version
            BY <2>1, <2>3 DEF CallSound
        <3>2. /\ i \in DOMAIN tools' /\ IsFirst(tools', calls[k].asked.name, i)
              /\ tools'[i].id = tools[i].id /\ tools[i].version <= tools'[i].version
            BY <1>8, <2>2, <3>1
        <3>3. tools[i].version \in Nat /\ tools'[i].version \in Nat
            <4>1. tools[i] \in MCPToolDef
                BY <1>5
            <4>2. tools'[i] \in MCPToolDef
                BY <1>6, <3>2
            <4> QED BY <4>1, <4>2 DEF MCPToolDef
        <3> QED BY <2>2, <3>1, <3>2, <3>3
    <2> QED BY <2>1, <2>3 DEF CallSound
<1> QED BY <1>4, <1>6, <1>7, <1>9 DEF ToolsInv, RegisterTool, NameKeepsMeaning

\* Binding keeps the invariant: a binding is replaced, never removed.
LEMMA BindKeeps ==
    ASSUME ToolsInv, NEW t \in ToolIds, NEW w \in Workspaces, NEW s \in Sessions, CreateBinding(t, w, s)
    PROVE  ToolsInv'
<1> DEFINE v == [id |-> BindingId(t, w), tool |-> t, workspace |-> w, session |-> s]
<1>1. v \in MCPBinding /\ v.id = BindingId(v.tool, v.workspace)
    BY DEF MCPBinding, BindingId
<1>2. bindings' = Put(bindings, v)
    BY DEF CreateBinding
<1>3. made' \in [tools : Nat, bindings : Nat] /\ made'.tools = made.tools
    <2>1. ASSUME NEW m \in Nat PROVE [made EXCEPT !.bindings = m] \in [tools : Nat, bindings : Nat]
                                      /\ [made EXCEPT !.bindings = m].tools = made.tools
        BY DEF ToolsInv
    <2> QED BY <2>1 DEF CreateBinding, ToolsInv
<1> HIDE DEF v
<1>4. bindings \in Seq(MCPBinding)
    BY DEF ToolsInv
<1>5. bindings' \in Seq(MCPBinding) /\ Ids(bindings) \subseteq Ids(bindings')
    BY <1>1, <1>2, <1>4, PutKeeps, PutKeepsIds
<1>6. BindingsSound(bindings')
    <2> SUFFICES ASSUME NEW i \in DOMAIN bindings'
                 PROVE  bindings'[i].id = BindingId(bindings'[i].tool, bindings'[i].workspace)
        BY DEF BindingsSound
    <2>1. \A j \in DOMAIN bindings : bindings'[j] = IF bindings[j].id = v.id THEN v ELSE bindings[j]
        BY <1>1, <1>2, <1>4, PutKeeps
    <2>2. \A j \in DOMAIN bindings' : j \notin DOMAIN bindings => bindings'[j] = v
        BY <1>1, <1>2, <1>4, PutKeeps
    <2>3. CASE bindings'[i] = v
        BY <1>1, <2>3
    <2>4. CASE bindings'[i] # v
        <3>1. i \in DOMAIN bindings /\ bindings'[i] = bindings[i]
            BY <2>1, <2>2, <2>4
        <3> QED BY <3>1 DEF ToolsInv, BindingsSound
    <2> QED BY <2>3, <2>4
<1>7. \A k \in DOMAIN calls : CallSound(calls[k], tools, bindings')
    BY <1>5 DEF ToolsInv, CallSound
<1> QED BY <1>3, <1>5, <1>6, <1>7 DEF ToolsInv, CreateBinding, NameKeepsMeaning

\* A call keeps the invariant: it runs what the earlier calls of the name ran.
LEMMA CallKeeps ==
    ASSUME ToolsInv, NEW asked, NEW answer, [asked |-> asked, result |-> answer] \in MCPCall,
           RanFirst(answer, asked.name, tools),
           asked.bound /\ answer.version > 0 => asked.binding \in Ids(bindings),
           Call(asked, answer)
    PROVE  ToolsInv'
<1> DEFINE c == [asked |-> asked, result |-> answer]
<1>1. calls \in Seq(MCPCall) /\ calls' = Append(calls, c) /\ c \in MCPCall
    BY DEF Call, ToolsInv
<1>2. c.asked = asked /\ c.result = answer /\ answer.version \in Nat /\ asked.name \in Names
    BY DEF MCPCall, MCPResult
<1> HIDE DEF c
<1>3. /\ calls' \in Seq(MCPCall) /\ DOMAIN calls = 1..Len(calls) /\ Len(calls) \in Nat
      /\ DOMAIN calls' = 1..(Len(calls) + 1)
      /\ calls'[Len(calls) + 1] = c /\ \A k \in DOMAIN calls : calls'[k] = calls[k]
    BY <1>1
<1>4. CallSound(c, tools, bindings)
    <2>1. ASSUME answer.version > 0
          PROVE  \E i \in DOMAIN tools : /\ IsFirst(tools, asked.name, i)
                                         /\ tools[i].id = answer.tool /\ answer.version <= tools[i].version
        BY <1>2, <2>1 DEF RanFirst
    <2> QED BY <1>2, <2>1 DEF CallSound
<1>5. \A k \in DOMAIN calls' : CallSound(calls'[k], tools, bindings)
    BY <1>3, <1>4 DEF ToolsInv
<1>6. ASSUME NEW k \in DOMAIN calls, calls[k].asked.name = asked.name,
             calls[k].result.version > 0, answer.version > 0
      PROVE  calls[k].result.tool = answer.tool /\ calls[k].result.version <= answer.version
    <2>1. PICK i \in DOMAIN tools : /\ IsFirst(tools, asked.name, i)
                                    /\ tools[i].id = calls[k].result.tool
                                    /\ calls[k].result.version <= tools[i].version
        BY <1>6 DEF ToolsInv, CallSound
    <2>2. PICK j \in DOMAIN tools : /\ IsFirst(tools, asked.name, j)
                                    /\ tools[j].id = answer.tool /\ tools[j].version = answer.version
        BY <1>6 DEF RanFirst
    <2>3. tools[i] = tools[j]
        BY <2>1, <2>2, FirstIs DEF ToolsInv
    <2> QED BY <2>1, <2>2, <2>3
<1>7. NameKeepsMeaning'
    <2> SUFFICES ASSUME NEW i \in DOMAIN calls', NEW j \in DOMAIN calls', i < j,
                        calls'[i].asked.name = calls'[j].asked.name,
                        calls'[i].result.version > 0, calls'[j].result.version > 0
                 PROVE  calls'[i].result.tool = calls'[j].result.tool
                        /\ calls'[i].result.version <= calls'[j].result.version
        BY DEF NameKeepsMeaning
    <2>1. i \in DOMAIN calls /\ calls'[i] = calls[i]
        BY <1>3
    <2>2. CASE j \in DOMAIN calls
        BY <1>3, <2>1, <2>2 DEF ToolsInv, NameKeepsMeaning
    <2>3. CASE j \notin DOMAIN calls
        <3>1. calls'[j] = c
            BY <1>3, <2>3
        <3> QED BY <1>2, <1>6, <2>1, <3>1
    <2> QED BY <2>2, <2>3
<1> QED BY <1>3, <1>5, <1>7 DEF ToolsInv, Call

\* A name keeps its meaning whatever is registered between the calls, and a
\* binding runs a tool of the bound name: the order of _tools never changes for
\* the tools already in it, and bindings are never removed.
THEOREM ToolNamesKeepMeaning == MSpec => [](NameKeepsMeaning /\ BoundNameRuns)
<1>1. MInit => ToolsInv
    BY DEF MInit, ToolsInv, ToolsSound, BindingsSound, NameKeepsMeaning, Named
<1>2. ToolsInv /\ [MNext]_vars => ToolsInv'
    <2> SUFFICES ASSUME ToolsInv, [MNext]_vars PROVE ToolsInv'
        OBVIOUS
    <2>1. CASE UNCHANGED vars
        BY <2>1 DEF vars, ToolsInv, NameKeepsMeaning
    <2>2. ASSUME NEW n \in Names, Call([name |-> n, bound |-> FALSE], ExecuteTool(n)) PROVE ToolsInv'
        <3> DEFINE asked == [name |-> n, bound |-> FALSE]
        <3>1. ExecuteTool(n) \in MCPResult /\ RanFirst(ExecuteTool(n), asked.name, tools)
            BY ExecuteRuns
        <3>2. [asked |-> asked, result |-> ExecuteTool(n)] \in MCPCall
            BY <3>1 DEF MCPCall, MCPResult
        <3> QED BY <2>2, <3>1, <3>2, CallKeeps
    <2>3. ASSUME NEW t \in ToolIds, NEW w \in Workspaces,
                 Call([name |-> t[1], bound |-> TRUE, binding |-> BindingId(t, w)],
                      ExecuteToolWithBinding(BindingId(t, w)))
          PROVE  ToolsInv'
        <3> DEFINE asked == [name |-> t[1], bound |-> TRUE, binding |-> BindingId(t, w)]
                   answer == ExecuteToolWithBinding(BindingId(t, w))
        <3>1. /\ answer \in MCPResult /\ RanFirst(answer, asked.name, tools)
              /\ answer.version > 0 => asked.binding \in Ids(bindings)
            BY BindingRuns
        <3>2. t[1] \in Names /\ BindingId(t, w) \in ToolIds \X Workspaces
            BY DEF ToolIds, ToolId, BindingId
        <3>3. Call(asked, answer)
            BY <2>3
        <3> HIDE DEF answer
        <3>4. [asked |-> asked, result |-> answer] \in MCPCall
            BY <3>1, <3>2 DEF MCPCall, MCPResult
        <3> QED BY <3>1, <3>3, <3>4, CallKeeps
    <2> QED BY <2>1, <2>2, <2>3, RegisterKeeps, BindKeeps DEF MNext
<1>3. ToolsInv => NameKeepsMeaning /\ BoundNameRuns
    <2> SUFFICES ASSUME ToolsInv, NEW k \in DOMAIN calls, calls[k].asked.bound, calls[k].result.version > 0
                 PROVE  calls[k].result.tool[1] = calls[k].asked.name /\ calls[k].asked.binding \in Ids(bindings)
        BY DEF BoundNameRuns, ToolsInv
    <2>1. CallSound(calls[k], tools, bindings)
        BY DEF ToolsInv
    <2>2. PICK i \in DOMAIN tools : IsFirst(tools, calls[k].asked.name, i) /\ tools[i].id = calls[k].result.tool
        BY <2>1 DEF CallSound
    <2>3. tools[i].id[1] = tools[i].name
        BY DEF ToolsInv, ToolsSound
    <2> QED BY <2>1, <2>2, <2>3 DEF CallSound, IsFirst
<1> QED BY <1>1, <1>2, <1>3, PTL DEF MSpec

-----------------------------------------------------------------------------
(* Reflection *)

\* The sequence of a finite set lists members of it, none of them twice.
LEMMA SetToSeqListsOnce ==
    ASSUME NEW S, IsFiniteSet(S)
    PROVE  /\ SetToSeq(S) \in Seq(S)
           /\ \A i, j \in DOMAIN SetToSeq(S) : SetToSeq(S)[i] = SetToSeq(S)[j] => i = j
<1>1. Cardinality(S) \in Nat /\ ExistsBijection(1..Cardinality(S), S)
    BY FS_CardinalityType
<1>2. PICK f \in [1..Cardinality(S) -> S] : IsInjective(f)
    BY <1>1 DEF ExistsBijection, Bijection, Injection
<1>3. SetToSeq(S) \in [1..Cardinality(S) -> S] /\ IsInjective(SetToSeq(S))
    BY <1>2 DEF SetToSeq
<1> HIDE DEF SetToSeq
<1>4. SetToSeq(S) \in Seq(S)
    BY <1>1, <1>3
<1> QED BY <1>3, <1>4 DEF IsInjective

\* A bundle is finite, and holds one reflection per target at most; none of them
\* is completed if its target is read back from the history.
LEMMA BundleIsNew ==
    ASSUME ReflectionAssumption
    PROVE  LET bundle == {CompileReflection(c) : c \in BuildCandidates} IN
           /\ IsFiniteSet(bundle)
           /\ \A a, b \in bundle : a.target = b.target => a = b
           /\ \A a \in bundle : a.target \in ActiveTargets => a.status = "REJECTED"
<1> DEFINE spoken == {u \in Targets : Supporting(u) # {} /\ Reason(u) \in EnabledReasons}
           bundle == {CompileReflection(c) : c \in BuildCandidates}
<1>1. \A t : CandidateOf(t).target = t
    BY DEF CandidateOf
<1>2. \A c : CompileReflection(c).target = c.target
    BY DEF CompileReflection
<1>3. \A c : c.target \in ActiveTargets => CompileReflection(c).status = "REJECTED"
    BY DEF CompileReflection, AssessReflection, DuplicateSuppressionRule
<1>4. BuildCandidates = {CandidateOf(t) : t \in spoken}
    BY DEF BuildCandidates
<1>5. IsFiniteSet(spoken)
    <2>1. spoken \subseteq Targets
        OBVIOUS
    <2> QED BY <2>1, FS_Subset DEF ReflectionAssumption
<1> HIDE DEF spoken
<1>6. bundle = {CompileReflection(CandidateOf(t)) : t \in spoken}
    BY <1>4
<1>7. IsFiniteSet(bundle)
    <2> DEFINE f == [t \in spoken |-> CompileReflection(CandidateOf(t))]
    <2>1. f \in Surjection(spoken, bundle)
        BY <1>6 DEF Surjection
    <2> QED BY <1>5, <2>1, FS_Surjection
<1>8. ASSUME NEW a \in bundle, NEW b \in bundle, a.target = b.target PROVE a = b
    <2>1. PICK t \in spoken : a = CompileReflection(CandidateOf(t))
        BY <1>6
    <2>2. PICK u \in spoken : b = CompileReflection(CandidateOf(u))
        BY <1>6
    <2>3. t = u
        BY <1>1, <1>2, <1>8, <2>1, <2>2
    <2> QED BY <2>1, <2>2, <2>3
<1>9. ASSUME NEW a \in bundle, a.target \in ActiveTargets PROVE a.status = "REJECTED"
    <2>1. PICK c \in BuildCandidates : a = CompileReflection(c)
        OBVIOUS
    <2> QED BY <1>2, <1>3, <1>9, <2>1
<1> QED BY <1>7, <1>8, <1>9

\* More support raises the confidence, more conflict lowers it.
LEMMA ConfidenceMoves ==
    ASSUME NEW id, NEW target, NEW s \in Nat, NEW n \in Nat, s > 0
    PROVE  LET C(a, b) == [id |-> id, target |-> target, supporting |-> a, conflicting |-> b] IN
           /\ Confidence(C(s, n)) \in Nat
           /\ Confidence(C(s, n)) <= Confidence(C(s + 1, n))
           /\ Confidence(C(s, n + 1)) <= Confidence(C(s, n))
BY DEF Confidence

\* The inductive invariant of reflections: a history with one completed reflection a target
ReflectionInv ==
    /\ history \in Seq({history[i] : i \in DOMAIN history})
    /\ OneReflectionPerTarget

\* Appending a bundle leaves one completed reflection per target.
LEMMA ProjectKeepsReflection ==
    ASSUME ReflectionAssumption, ReflectionInv, Project
    PROVE  ReflectionInv'
<1> DEFINE bundle == {CompileReflection(c) : c \in BuildCandidates}
           more == SetToSeq(bundle)
           old == {history[i] : i \in DOMAIN history}
<1>1. /\ IsFiniteSet(bundle)
      /\ \A a, b \in bundle : a.target = b.target => a = b
      /\ \A a \in bundle : a.target \in ActiveTargets => a.status = "REJECTED"
    BY BundleIsNew
<1>2. more \in Seq(bundle) /\ \A i, j \in DOMAIN more : more[i] = more[j] => i = j
    BY <1>1, SetToSeqListsOnce
<1>3. history' = history \o more
    BY DEF Project
<1>4. \A i \in 1..Len(history) : history[i].status = "COMPLETED" /\ Quoted[history[i].target] = history[i].target
                                     => history[i].target \in ActiveTargets
    BY DEF ActiveTargets
<1>5. history \in Seq(old) /\ OneReflectionPerTarget
    BY DEF ReflectionInv
<1> HIDE DEF bundle, more, old
<1>6. /\ Len(history') = Len(history) + Len(more)
      /\ Len(history) \in Nat /\ Len(more) \in Nat
      /\ \A i \in 1..Len(history) : history'[i] = history[i]
      /\ \A i \in Len(history) + 1..Len(history) + Len(more) : history'[i] = more[i - Len(history)]
    BY <1>2, <1>3, <1>5
<1>7. \A i \in 1..Len(more) : more[i] \in bundle /\ i \in DOMAIN more
    BY <1>2
<1>8. ASSUME NEW i \in 1..Len(history'), NEW j \in 1..Len(history'), i <= j,
             history'[i].status = "COMPLETED", history'[j].status = "COMPLETED",
             history'[i].target = history'[j].target, Quoted[history'[i].target] = history'[i].target
      PROVE  i = j
    <2>1. CASE j <= Len(history)
        BY <1>5, <1>6, <1>8, <2>1 DEF OneReflectionPerTarget
    <2>2. CASE j > Len(history)
        <3>1. j - Len(history) \in 1..Len(more) /\ history'[j] = more[j - Len(history)]
            BY <1>6, <2>2
        <3>2. history'[j].target \notin ActiveTargets
            BY <1>1, <1>7, <1>8, <3>1
        <3>3. i > Len(history)
            <4>1. i \in Nat /\ (i <= Len(history) => i \in 1..Len(history))
                BY <1>6
            <4>2. ASSUME i \in 1..Len(history) PROVE history'[i].target \in ActiveTargets
                <5>1. history'[i] = history[i]
                    BY <1>6, <4>2
                <5> QED BY <1>4, <1>8, <4>2, <5>1
            <4>3. i \notin 1..Len(history)
                BY <1>8, <3>2, <4>2
            <4> QED BY <1>6, <4>1, <4>3
        <3>4. i - Len(history) \in 1..Len(more) /\ history'[i] = more[i - Len(history)]
            BY <1>6, <3>3
        <3>5. more[i - Len(history)] = more[j - Len(history)]
            BY <1>1, <1>7, <1>8, <3>1, <3>4
        <3>6. i - Len(history) = j - Len(history)
            BY <1>2, <1>7, <3>1, <3>4, <3>5
        <3> QED BY <1>6, <3>6
    <2> QED BY <1>6, <2>1, <2>2
<1>9. \A i, j \in 1..Len(history') :
         /\ history'[i].status = "COMPLETED" /\ history'[j].status = "COMPLETED"
         /\ history'[i].target = history'[j].target /\ Quoted[history'[i].target] = history'[i].target
         => i = j
    <2>1. \A i, j \in 1..Len(history') : i <= j \/ j <= i
        BY <1>6
    <2> QED BY <1>8, <2>1
<1>10. history' \in Seq({history'[i] : i \in DOMAIN history'})
    <2>1. history' \in Seq(old \cup bundle)
        BY <1>2, <1>3, <1>5
    <2>2. ASSUME NEW T, NEW h \in Seq(T) PROVE h \in Seq({h[i] : i \in DOMAIN h})
        OBVIOUS
    <2> QED BY <2>1, <2>2
<1> QED BY <1>9, <1>10 DEF ReflectionInv, OneReflectionPerTarget

\* A target is reflected on once, however many bundles are appended and whatever
\* is learnt in between, and the rules are monotone in the evidence: more support
\* never loses an approval, more conflict never gains one.
THEOREM ReflectionsStand ==
    ASSUME ReflectionAssumption
    PROVE  RSpec => []ReflectionSound
<1>1. RInit => ReflectionInv
    BY DEF RInit, ReflectionInv, OneReflectionPerTarget
<1>2. ReflectionInv /\ [RNext]_rvars => ReflectionInv'
    <2> SUFFICES ASSUME ReflectionInv, [RNext]_rvars PROVE ReflectionInv'
        OBVIOUS
    <2>1. CASE UNCHANGED history
        BY <2>1 DEF ReflectionInv, OneReflectionPerTarget
    <2>2. CASE Project
        BY <2>2, ProjectKeepsReflection
    <2> QED BY <2>1, <2>2 DEF RNext, Learn, rvars
<1>3. EvidenceMonotone
    <2> SUFFICES ASSUME NEW t \in Targets, NEW s \in 1..6, NEW n \in 0..6, t \notin ActiveTargets, NEW id
                 PROVE  LET C(a, b) == [id |-> id, target |-> t, supporting |-> a, conflicting |-> b] IN
                        /\ AssessReflection(C(s, n)) => AssessReflection(C(s + 1, n)) /\ s > n
                        /\ ~ AssessReflection(C(s, n)) => ~ AssessReflection(C(s, n + 1))
        BY DEF EvidenceMonotone
    <2> DEFINE C(a, b) == [id |-> id, target |-> t, supporting |-> a, conflicting |-> b]
    <2>1. /\ Confidence(C(s, n)) \in Nat /\ Confidence(C(s + 1, n)) \in Nat /\ Confidence(C(s, n + 1)) \in Nat
          /\ Confidence(C(s, n)) <= Confidence(C(s + 1, n))
          /\ Confidence(C(s, n + 1)) <= Confidence(C(s, n))
        <3>1. s \in Nat /\ n \in Nat /\ s > 0
            OBVIOUS
        <3>2. ASSUME NEW a \in Nat, NEW b \in Nat PROVE Confidence(C(a, b)) \in Nat
            BY DEF Confidence
        <3>3. Confidence(C(s, n)) <= Confidence(C(s + 1, n)) /\ Confidence(C(s, n + 1)) <= Confidence(C(s, n))
            BY <3>1, ConfidenceMoves
        <3> QED BY <3>1, <3>2, <3>3
    <2>2. \A a, b \in Nat : AssessReflection(C(a, b)) <=>
             a >= 2 /\ (b = 0 \/ b < a) /\ Confidence(C(a, b)) >= Threshold
        BY DEF AssessReflection, MinSupportingRecordsRule, RecurrenceThresholdRule, ConflictingEvidenceRule,
               MinConfidenceRule, DuplicateSuppressionRule
    <2> HIDE DEF C
    <2>3. AssessReflection(C(s, n)) => AssessReflection(C(s + 1, n)) /\ s > n
        BY <2>1, <2>2 DEF ReflectionAssumption
    <2>4. ~ AssessReflection(C(s, n)) => ~ AssessReflection(C(s, n + 1))
        BY <2>1, <2>2 DEF ReflectionAssumption
    <2> QED BY <2>3, <2>4 DEF C
<1>4. ReflectionInv => ReflectionSound
    BY <1>3 DEF ReflectionInv, ReflectionSound
<1> QED BY <1>1, <1>2, <1>4, PTL DEF RSpec

-----------------------------------------------------------------------------
(* Skills *)

\* The types of a run
IsRun(r) ==
    r = [decision |-> r.decision, skill |-> r.skill, limit |-> r.limit, main |-> r.main, thread |-> r.thread,
         output |-> r.output, result |-> r.result, inline |-> r.inline]

\* What a result tells of its run, whatever its thread has done since.
Told(r) ==
    \/ r.inline /\ r.result.status = "RESULT_CREATED" /\ r.result.artifacts = {}
    \/ r.result = Failure("activation") /\ r.thread = "none" /\ r.output = None
    \/ r.result = Denied /\ r.thread = "none" /\ r.output = None
    \/ r.result = Failure("timeout")
    \/ r.result = Failure("raised") /\ r.thread = "done" /\ r.output.raises
    \/ r.result = Failure("invalid")
    \/ /\ r.result.status = "COMPLETED" /\ r.thread = "done" /\ Allowed(r.skill)
       /\ ~ r.output.raises /\ Valid(r.output, r.skill)
       /\ \A a \in r.result.artifacts : [hash |-> a[2], known |-> TRUE] \in r.output.artifacts

\* What holds of a run wherever it stands
RunSound(r) ==
    /\ IsRun(r)
    /\ r.main \in {"waiting", "returned", "recorded", "dead"}
    /\ r.thread \in {"running", "done"} => Allowed(r.skill)
    /\ r.thread = "done" => r.output \in Outputs
    /\ r.result # None \/ r.main \in {"returned", "recorded"} => Told(r)

\* The runs the ledger tells of, and what it tells of one
RecordedRuns(rs) == {i \in 1..Len(rs) : rs[i].main = "recorded"}

EntryOf(rs, i) ==
    [decision |-> rs[i].decision, skill |-> rs[i].skill, state |-> rs[i].result.status,
     error |-> rs[i].result.error, started |-> i]

\* The ledger tells of every recorded run, once, what its result says.
LedgerTells(l, rs) ==
    /\ l \in Seq({l[k] : k \in DOMAIN l})
    /\ \A k \in DOMAIN l : l[k].started \in RecordedRuns(rs) /\ l[k] = EntryOf(rs, l[k].started)
    /\ \A i \in RecordedRuns(rs) : \E k \in DOMAIN l : l[k].started = i
    /\ \A j, k \in DOMAIN l : l[j].started = l[k].started => j = k

\* The inductive invariant of skill execution: runs are sound, and the ledger tells of them
SkillInv ==
    /\ runs \in Seq({runs[i] : i \in DOMAIN runs})
    /\ \A i \in 1..Len(runs) : RunSound(runs[i])
    /\ LedgerTells(ledger, runs)

\* A sequence is one of its own values.
LEMMA SeqOfItself ==
    ASSUME NEW T, NEW q \in Seq(T) PROVE q \in Seq({q[i] : i \in DOMAIN q})
OBVIOUS

\* A thread that ends late changes nothing of what was reported.
LEMMA EndedIsSound ==
    ASSUME NEW r, RunSound(r), r.thread = "running", NEW o \in Outputs, NEW q, q = Ended(r, o)
    PROVE  /\ RunSound(q) /\ q.main = r.main /\ q.result = r.result
           /\ q.decision = r.decision /\ q.skill = r.skill
<1>1. /\ q.thread = "done" /\ q.output = o /\ q.main = r.main /\ q.result = r.result /\ q.inline = r.inline
      /\ q.decision = r.decision /\ q.skill = r.skill /\ q.limit = r.limit /\ IsRun(q)
    BY DEF Ended, RunSound, IsRun
<1>2. Told(r) => Told(q)
    BY <1>1 DEF Told
<1> QED BY <1>1, <1>2 DEF RunSound

\* execute returns with a result that tells the truth.
LEMMA ReturnedIsSound ==
    ASSUME NEW r, RunSound(r), NEW outcome, NEW q, q = Returned(r, outcome)
    PROVE  /\ Told(q) => RunSound(q)
           /\ q.main = "returned" /\ q.result = outcome /\ q.thread = r.thread /\ q.output = r.output
           /\ q.inline = r.inline /\ q.skill = r.skill
<1>1. /\ q.main = "returned" /\ q.result = outcome /\ q.thread = r.thread /\ q.output = r.output
      /\ q.inline = r.inline /\ q.decision = r.decision /\ q.skill = r.skill /\ q.limit = r.limit /\ IsRun(q)
    BY DEF Returned, RunSound, IsRun
<1> QED BY <1>1 DEF RunSound

\* What the wait collects is told as it was: an exception, an output that does not
\* validate, or artifacts of an output that does.
LEMMA OutcomeTells ==
    ASSUME SkillAssumption, NEW r, RunSound(r), r.thread = "done", NEW q, q = Returned(r, Outcome(r))
    PROVE  RunSound(q)
<1>1. /\ Told(q) => RunSound(q)
      /\ q.result = Outcome(r) /\ q.thread = "done" /\ q.output = r.output /\ q.skill = r.skill
    BY ReturnedIsSound
<1>2. r.output \in Outputs /\ Allowed(r.skill)
    BY DEF RunSound
<1>3. CASE r.output.raises
    BY <1>1, <1>3 DEF Outcome, Told
<1>4. CASE ~ r.output.raises /\ ~ Valid(r.output, r.skill)
    BY <1>1, <1>4 DEF Outcome, Told
<1>5. CASE ~ r.output.raises /\ Valid(r.output, r.skill)
    <2> DEFINE passed == ExecutionGate(SingleEvaluation(r)) = "PASS" /\ ~ ManifestOf[r.skill].base
               promoted == {<<r.skill, a.hash>> : a \in {b \in r.output.artifacts : b.known}}
    <2>1. Outcome(r) = [status |-> "COMPLETED", error |-> "none", artifacts |-> IF passed THEN promoted ELSE {}]
        BY <1>5 DEF Outcome
    <2>2. ASSUME NEW a \in promoted PROVE [hash |-> a[2], known |-> TRUE] \in r.output.artifacts
        <3>1. PICK b \in r.output.artifacts : b.known /\ a = <<r.skill, b.hash>>
            OBVIOUS
        <3>2. b \in ArtifactCandidate
            BY <1>2 DEF SkillAssumption, SkillOutput
        <3>3. b = [hash |-> a[2], known |-> TRUE]
            BY <3>1, <3>2 DEF ArtifactCandidate
        <3> QED BY <3>3
    <2> HIDE DEF passed, promoted
    <2>3. \A a \in q.result.artifacts : [hash |-> a[2], known |-> TRUE] \in q.output.artifacts
        <3>1. q.result.artifacts = IF passed THEN promoted ELSE {}
            BY <1>1, <2>1
        <3>2. q.result.artifacts \subseteq promoted
            BY <3>1
        <3> QED BY <1>1, <2>2, <3>2
    <2>4. q.result.status = "COMPLETED"
        BY <1>1, <2>1
    <2> QED BY <1>1, <1>2, <1>5, <2>3, <2>4 DEF Told
<1> QED BY <1>3, <1>4, <1>5

\* A run that was recorded, or whose process dies, keeps what was told of it.
LEMMA LateIsSound ==
    ASSUME NEW r, RunSound(r), NEW q, (q = Recorded(r) /\ r.main = "returned") \/ q = Killed(r)
    PROVE  /\ RunSound(q) /\ q.result = r.result /\ q.decision = r.decision /\ q.skill = r.skill
           /\ q.main = IF q = Killed(r) THEN IF r.main = "recorded" THEN "recorded" ELSE "dead" ELSE "recorded"
<1>1. CASE q = Killed(r)
    <2>1. /\ q.main = IF r.main = "recorded" THEN "recorded" ELSE "dead"
          /\ q.thread = IF r.thread = "running" THEN "dead" ELSE r.thread
          /\ q.result = r.result /\ q.output = r.output /\ q.inline = r.inline
          /\ q.decision = r.decision /\ q.skill = r.skill /\ q.limit = r.limit /\ IsRun(q)
        BY <1>1 DEF Killed, RunSound, IsRun
    <2>2. Told(r) => Told(q)
        BY <2>1 DEF Told
    <2> QED BY <1>1, <2>1, <2>2 DEF RunSound
<1>2. CASE q # Killed(r)
    <2>1. /\ q.main = "recorded" /\ q.thread = r.thread /\ r.main = "returned"
          /\ q.result = r.result /\ q.output = r.output /\ q.inline = r.inline
          /\ q.decision = r.decision /\ q.skill = r.skill /\ q.limit = r.limit /\ IsRun(q)
        BY <1>2 DEF Recorded, RunSound, IsRun
    <2>2. Told(r) => Told(q)
        BY <2>1 DEF Told
    <2> QED BY <1>2, <2>1, <2>2 DEF RunSound
<1> QED BY <1>1, <1>2

\* Where the recorded runs stay as they are, the ledger stays true of them.
LEMMA LedgerStays ==
    ASSUME NEW l, NEW rs, NEW qs, LedgerTells(l, rs), RecordedRuns(qs) = RecordedRuns(rs),
           \A i \in RecordedRuns(rs) : /\ qs[i].result = rs[i].result /\ qs[i].decision = rs[i].decision
                                       /\ qs[i].skill = rs[i].skill
    PROVE  LedgerTells(l, qs)
<1>1. \A i \in RecordedRuns(rs) : EntryOf(qs, i) = EntryOf(rs, i)
    BY DEF EntryOf
<1> QED BY <1>1 DEF LedgerTells

\* The caller appends the event of a run that was not recorded before.
LEMMA RecordTells ==
    ASSUME NEW l, NEW rs, NEW qs, LedgerTells(l, rs), NEW i \in 1..Len(rs), i \notin RecordedRuns(rs),
           RecordedRuns(qs) = RecordedRuns(rs) \cup {i},
           \A j \in RecordedRuns(qs) : EntryOf(qs, j) = EntryOf(rs, j)
    PROVE  LedgerTells(Append(l, EntryOf(rs, i)), qs)
<1> DEFINE e == EntryOf(rs, i)
           m == Append(l, e)
           T == {l[k] : k \in DOMAIN l}
<1>1. e.started = i /\ e = EntryOf(qs, i)
    BY DEF EntryOf
<1>2. l \in Seq(T)
    BY DEF LedgerTells
<1> HIDE DEF T, e
<1>3. /\ DOMAIN l = 1..Len(l) /\ Len(l) \in Nat /\ DOMAIN m = 1..(Len(l) + 1)
      /\ m[Len(l) + 1] = e /\ \A k \in 1..Len(l) : m[k] = l[k]
      /\ m \in Seq(T \cup {e})
    BY <1>2
<1> HIDE DEF m
<1>4. m \in Seq({m[k] : k \in DOMAIN m})
    BY <1>3, SeqOfItself
<1>5. ASSUME NEW k \in DOMAIN m
      PROVE  m[k].started \in RecordedRuns(qs) /\ m[k] = EntryOf(qs, m[k].started)
    <2>1. CASE k \in 1..Len(l)
        BY <1>3, <2>1 DEF LedgerTells
    <2>2. CASE k = Len(l) + 1
        BY <1>1, <1>3, <2>2
    <2> QED BY <1>3, <2>1, <2>2
<1>6. ASSUME NEW j \in RecordedRuns(qs) PROVE \E k \in DOMAIN m : m[k].started = j
    <2>1. CASE j = i
        BY <1>1, <1>3, <2>1
    <2>2. CASE j # i
        <3>1. PICK k \in DOMAIN l : l[k].started = j
            BY <2>2 DEF LedgerTells
        <3> QED BY <1>3, <3>1
    <2> QED BY <2>1, <2>2
<1>7. \A k \in 1..Len(l) : l[k].started # i
    BY <1>3 DEF LedgerTells
<1>8. ASSUME NEW j \in DOMAIN m, NEW k \in DOMAIN m, m[j].started = m[k].started PROVE j = k
    <2>1. CASE j \in 1..Len(l) /\ k \in 1..Len(l)
        <3>1. l[j].started = l[k].started
            BY <1>3, <1>8, <2>1
        <3> QED BY <1>3, <2>1, <3>1 DEF LedgerTells
    <2>2. CASE j = Len(l) + 1 /\ k \in 1..Len(l)
        BY <1>1, <1>3, <1>7, <1>8, <2>2
    <2>3. CASE j \in 1..Len(l) /\ k = Len(l) + 1
        BY <1>1, <1>3, <1>7, <1>8, <2>3
    <2> QED BY <1>3, <2>1, <2>2, <2>3
<1>9. LedgerTells(m, qs)
    BY <1>4, <1>5, <1>6, <1>8 DEF LedgerTells
<1> QED BY <1>9 DEF m, e

\* The entries and the recorded runs with one of these states
EntriesIn(l, states) == {k \in DOMAIN l : l[k].state \in states}

RunsIn(rs, states) == {i \in RecordedRuns(rs) : rs[i].result.status \in states}

\* As many events of some states as there are recorded runs with these results.
LEMMA SameCount ==
    ASSUME NEW l, NEW rs, LedgerTells(l, rs), NEW states, Len(rs) \in Nat
    PROVE  IsFiniteSet(RunsIn(rs, states)) /\ Cardinality(EntriesIn(l, states)) = Cardinality(RunsIn(rs, states))
<1> DEFINE S == {k \in DOMAIN l : l[k].state \in states}
           R == {i \in RecordedRuns(rs) : rs[i].result.status \in states}
           f == [k \in S |-> l[k].started]
<1>1. IsFiniteSet(S)
    <2>1. DOMAIN l = 1..Len(l) /\ Len(l) \in Nat
        BY DEF LedgerTells
    <2>2. IsFiniteSet(1..Len(l)) /\ S \in SUBSET (1..Len(l))
        BY <2>1, FS_Interval
    <2> QED BY <2>2, FS_Subset
<1>2. \A k \in DOMAIN l : /\ l[k].started \in RecordedRuns(rs)
                          /\ l[k].state = rs[l[k].started].result.status
    BY DEF LedgerTells, EntryOf
<1>3. \A k \in S : f[k] \in R
    BY <1>2
<1>4. \A j, k \in S : f[j] = f[k] => j = k
    BY DEF LedgerTells
<1>5. ASSUME NEW i \in R PROVE \E k \in S : f[k] = i
    <2>1. PICK k \in DOMAIN l : l[k].started = i
        BY DEF LedgerTells
    <2> QED BY <1>2, <2>1
<1>6. f \in Bijection(S, R)
    <2>1. f \in [S -> R] /\ DOMAIN f = S
        BY <1>3
    <2> HIDE DEF f, S, R
    <2> QED BY <1>4, <1>5, <2>1 DEF Bijection, Injection, Surjection, IsInjective
<1>7. ExistsBijection(S, R)
    BY <1>6 DEF ExistsBijection
<1> HIDE DEF S, R
<1>8. IsFiniteSet(R) /\ Cardinality(R) = Cardinality(S)
    BY <1>1, <1>7, FS_Bijection
<1> QED BY <1>1, <1>8 DEF S, R, EntriesIn, RunsIn

\* Disjoint finite sets have together as many members as apart.
LEMMA DisjointCount ==
    ASSUME NEW S, NEW T, IsFiniteSet(S), IsFiniteSet(T), S \cap T = {}
    PROVE  IsFiniteSet(S \cup T) /\ Cardinality(S \cup T) = Cardinality(S) + Cardinality(T)
<1>1. /\ IsFiniteSet(S \cup T)
      /\ Cardinality(S \cup T) = Cardinality(S) + Cardinality(T) - Cardinality(S \cap T)
    BY FS_Union
<1>2. Cardinality(S \cap T) = 0 /\ Cardinality(S) \in Nat /\ Cardinality(T) \in Nat
    BY FS_EmptySet, FS_CardinalityType
<1> QED BY <1>1, <1>2

\* A sequence of sound runs
SoundRuns(rs) == rs \in Seq({rs[i] : i \in DOMAIN rs}) /\ \A i \in 1..Len(rs) : RunSound(rs[i])

\* One run changes and stays sound.
LEMMA OneChanges ==
    ASSUME NEW rs, SoundRuns(rs), NEW i \in 1..Len(rs), NEW q, RunSound(q)
    PROVE  LET qs == [rs EXCEPT ![i] = q] IN
           /\ SoundRuns(qs) /\ Len(qs) = Len(rs)
           /\ qs[i] = q /\ \A j \in 1..Len(rs) : j # i => qs[j] = rs[j]
<1> DEFINE T == {rs[j] : j \in DOMAIN rs}
           qs == [rs EXCEPT ![i] = q]
<1>1. rs \in Seq(T)
    BY DEF SoundRuns
<1> HIDE DEF T
<1>2. /\ qs \in Seq(T \cup {q}) /\ Len(qs) = Len(rs)
      /\ qs[i] = q /\ \A j \in 1..Len(rs) : j # i => qs[j] = rs[j]
    BY <1>1
<1> HIDE DEF qs
<1>3. qs \in Seq({qs[j] : j \in DOMAIN qs})
    BY <1>2, SeqOfItself
<1>4. \A j \in 1..Len(qs) : RunSound(qs[j])
    BY <1>2 DEF SoundRuns
<1> QED BY <1>2, <1>3, <1>4 DEF SoundRuns, qs

\* A run begins, or ends at once.
LEMMA RunBegins ==
    ASSUME SkillInv, NEW q, RunSound(q), q.main \in {"waiting", "returned"},
           runs' = Append(runs, q), ledger' = ledger
    PROVE  SkillInv'
<1> DEFINE T == {runs[j] : j \in DOMAIN runs}
<1>1. runs \in Seq(T)
    BY DEF SkillInv
<1> HIDE DEF T
<1>2. /\ runs' \in Seq(T \cup {q}) /\ Len(runs') = Len(runs) + 1 /\ Len(runs) \in Nat
      /\ runs'[Len(runs) + 1] = q /\ \A j \in 1..Len(runs) : runs'[j] = runs[j]
    BY <1>1
<1>3. runs' \in Seq({runs'[j] : j \in DOMAIN runs'})
    <2>1. runs' \in Seq(T \cup {q})
        BY <1>2
    <2> QED BY <2>1, SeqOfItself
<1>4. \A j \in 1..Len(runs') : RunSound(runs'[j])
    BY <1>2 DEF SkillInv
<1>5. RecordedRuns(runs') = RecordedRuns(runs)
    BY <1>2 DEF RecordedRuns
<1>6. \A j \in RecordedRuns(runs) : runs'[j] = runs[j]
    BY <1>2 DEF RecordedRuns
<1>7. LedgerTells(ledger, runs')
    BY <1>5, <1>6, LedgerStays DEF SkillInv
<1> QED BY <1>3, <1>4, <1>7 DEF SkillInv

\* A run changes and keeps what was recorded of it.
LEMMA RunGoesOn ==
    ASSUME NEW l, NEW rs, LedgerTells(l, rs), SoundRuns(rs), NEW i \in 1..Len(rs), NEW q, RunSound(q),
           q.main = "recorded" <=> rs[i].main = "recorded",
           q.main = "recorded" => /\ q.result = rs[i].result /\ q.decision = rs[i].decision
                                  /\ q.skill = rs[i].skill
    PROVE  SoundRuns([rs EXCEPT ![i] = q]) /\ LedgerTells(l, [rs EXCEPT ![i] = q])
<1> DEFINE qs == [rs EXCEPT ![i] = q]
<1>1. /\ SoundRuns(qs) /\ Len(qs) = Len(rs)
      /\ qs[i] = q /\ \A j \in 1..Len(rs) : j # i => qs[j] = rs[j]
    BY OneChanges
<1> HIDE DEF qs
<1>2. RecordedRuns(qs) = RecordedRuns(rs)
    BY <1>1 DEF RecordedRuns
<1>3. \A j \in RecordedRuns(rs) : /\ qs[j].result = rs[j].result /\ qs[j].decision = rs[j].decision
                                  /\ qs[j].skill = rs[j].skill
    BY <1>1 DEF RecordedRuns
<1>4. LedgerTells(l, qs)
    BY <1>2, <1>3, LedgerStays
<1> QED BY <1>1, <1>4 DEF qs

\* execute is called: the plan is refused, or the sandbox's thread starts.
LEMMA ExecuteKeeps ==
    ASSUME SkillAssumption, SkillInv, NEW d \in Decisions, NEW t \in Timeouts, Execute(d, t)
    PROVE  SkillInv'
<1> DEFINE s == SelectBest(FindByCategory(CategoryOf[d]))
           outcome == IF ~ Activates(s) THEN Failure("activation") ELSE IF ~ Allowed(s) THEN Denied ELSE None
           limit == ValidateTimeout(t, ManifestOf[s].timeout)
           q == [decision |-> d, skill |-> s, limit |-> limit,
                 main |-> IF outcome = None THEN "waiting" ELSE "returned",
                 thread |-> IF outcome = None THEN "running" ELSE "none",
                 output |-> None, result |-> outcome, inline |-> FALSE]
<1>1. runs' = Append(runs, q) /\ ledger' = ledger
    BY DEF Execute
<1>2. Failure("activation") # None /\ Denied # None
    <2>1. Failure("activation") \in SkillResult /\ Denied \in SkillResult
        BY DEF Failure, Denied, SkillResult, SkillResultStatus, ErrorKind
    <2> QED BY <2>1 DEF SkillAssumption
<1> HIDE DEF s, limit
<1>3. RunSound(q) /\ q.main \in {"waiting", "returned"}
    <2>1. CASE ~ Activates(s)
        <3>1. outcome = Failure("activation")
            BY <2>1
        <3> HIDE DEF outcome
        <3> QED BY <1>2, <3>1 DEF RunSound, IsRun, Told
    <2>2. CASE Activates(s) /\ ~ Allowed(s)
        <3>1. outcome = Denied
            BY <2>2
        <3> HIDE DEF outcome
        <3> QED BY <1>2, <3>1 DEF RunSound, IsRun, Told
    <2>3. CASE Activates(s) /\ Allowed(s)
        <3>1. outcome = None
            BY <2>3
        <3> HIDE DEF outcome
        <3> QED BY <2>3, <3>1 DEF RunSound, IsRun
    <2> QED BY <2>1, <2>2, <2>3
<1> HIDE DEF q
<1> QED BY <1>1, <1>3, RunBegins

\* The older path reports RESULT_CREATED and promotes nothing.
LEMMA RunInlineKeeps ==
    ASSUME SkillInv, NEW d \in Decisions, NEW o \in Outputs, NEW late \in BOOLEAN, RunInline(d, o, late)
    PROVE  SkillInv'
<1> DEFINE s == SelectBest(FindByCategory(CategoryOf[d]))
           error == IF ~ Allowed(s) THEN "denied" ELSE IF o.raises THEN "raised"
                    ELSE IF late /\ ManifestOf[s].timeout > 0 THEN "timeout" ELSE "none"
           q == [decision |-> d, skill |-> s, limit |-> ManifestOf[s].timeout, main |-> "returned",
                 thread |-> "none", output |-> o, inline |-> TRUE,
                 result |-> [status |-> "RESULT_CREATED", error |-> error, artifacts |-> {}]]
<1>1. runs' = Append(runs, q) /\ ledger' = ledger
    BY DEF RunInline
<1> HIDE DEF s, error
<1>2. RunSound(q) /\ q.main = "returned"
    BY DEF RunSound, IsRun, Told
<1> HIDE DEF q
<1> QED BY <1>1, <1>2, RunBegins

\* The caller's wait ends in time, the time limit wins, or the skill ends.
LEMMA ThreadsKeep ==
    ASSUME SkillAssumption, SkillInv, NEW i \in 1..Len(runs),
           TimesOut(i) \/ Collect(i) \/ \E o \in Outputs : SkillEnds(i, o)
    PROVE  SkillInv'
<1>0. RunSound(runs[i]) /\ SoundRuns(runs) /\ LedgerTells(ledger, runs)
    BY DEF SkillInv, SoundRuns
<1>1. CASE TimesOut(i)
    <2> DEFINE q == Returned(runs[i], Failure("timeout"))
    <2>1. runs' = [runs EXCEPT ![i] = q] /\ ledger' = ledger /\ runs[i].main = "waiting"
        BY <1>1 DEF TimesOut
    <2>2. (Told(q) => RunSound(q)) /\ q.main = "returned" /\ q.result = Failure("timeout")
        BY <1>0, ReturnedIsSound
    <2> HIDE DEF q
    <2>3. RunSound(q)
        BY <2>2 DEF Told
    <2>4. SoundRuns([runs EXCEPT ![i] = q]) /\ LedgerTells(ledger, [runs EXCEPT ![i] = q])
        BY <1>0, <2>1, <2>2, <2>3, RunGoesOn
    <2> QED BY <2>1, <2>2, <2>3, <2>4 DEF SkillInv, SoundRuns
<1>2. CASE Collect(i)
    <2> DEFINE q == Returned(runs[i], Outcome(runs[i]))
    <2>1. runs' = [runs EXCEPT ![i] = q] /\ ledger' = ledger /\ runs[i].main = "waiting" /\ runs[i].thread = "done"
        BY <1>2 DEF Collect
    <2>2. RunSound(q) /\ q.main = "returned"
        BY <1>0, <2>1, ReturnedIsSound, OutcomeTells
    <2> HIDE DEF q
    <2>4. SoundRuns([runs EXCEPT ![i] = q]) /\ LedgerTells(ledger, [runs EXCEPT ![i] = q])
        BY <1>0, <2>1, <2>2, RunGoesOn
    <2> QED BY <2>1, <2>2, <2>4 DEF SkillInv, SoundRuns
<1>3. CASE \E o \in Outputs : SkillEnds(i, o)
    <2>1. PICK o \in Outputs : SkillEnds(i, o)
        BY <1>3
    <2> DEFINE q == Ended(runs[i], o)
    <2>2. runs' = [runs EXCEPT ![i] = q] /\ ledger' = ledger /\ runs[i].thread = "running"
        BY <2>1 DEF SkillEnds
    <2>3. /\ RunSound(q) /\ q.main = runs[i].main /\ q.result = runs[i].result
          /\ q.decision = runs[i].decision /\ q.skill = runs[i].skill
        BY <1>0, <2>2, EndedIsSound
    <2> HIDE DEF q
    <2>4. SoundRuns([runs EXCEPT ![i] = q]) /\ LedgerTells(ledger, [runs EXCEPT ![i] = q])
        BY <1>0, <2>2, <2>3, RunGoesOn
    <2> QED BY <2>2, <2>3, <2>4 DEF SkillInv, SoundRuns
<1> QED BY <1>1, <1>2, <1>3

\* The event of a run that returned is appended once.
LEMMA RecordKeeps ==
    ASSUME SkillInv, NEW i \in 1..Len(runs), Record(i)
    PROVE  SkillInv'
<1> DEFINE q == Recorded(runs[i])
<1>1. /\ runs' = [runs EXCEPT ![i] = q] /\ runs[i].main = "returned"
      /\ ledger' = Append(ledger, EventOf(i))
    BY DEF Record
<1>2. EventOf(i) = EntryOf(runs, i)
    BY DEF EventOf, EntryOf
<1>3. RunSound(runs[i]) /\ SoundRuns(runs)
    BY DEF SkillInv, SoundRuns
<1>4. /\ RunSound(q) /\ q.result = runs[i].result /\ q.decision = runs[i].decision /\ q.skill = runs[i].skill
      /\ q.main = "recorded"
    BY <1>1, <1>3, LateIsSound DEF Recorded, RunSound, IsRun
<1> HIDE DEF q
<1>5. /\ SoundRuns(runs') /\ Len(runs') = Len(runs)
      /\ runs'[i] = q /\ \A j \in 1..Len(runs) : j # i => runs'[j] = runs[j]
    <2> DEFINE qs == [runs EXCEPT ![i] = q]
    <2>1. /\ SoundRuns(qs) /\ Len(qs) = Len(runs)
          /\ qs[i] = q /\ \A j \in 1..Len(runs) : j # i => qs[j] = runs[j]
        BY <1>3, <1>4, OneChanges
    <2>2. runs' = qs
        BY <1>1
    <2> HIDE DEF qs
    <2> QED BY <2>1, <2>2
<1>6. i \notin RecordedRuns(runs) /\ RecordedRuns(runs') = RecordedRuns(runs) \cup {i}
    BY <1>1, <1>4, <1>5 DEF RecordedRuns
<1>7. \A j \in RecordedRuns(runs') : EntryOf(runs', j) = EntryOf(runs, j)
    BY <1>4, <1>5 DEF RecordedRuns, EntryOf
<1>8. LedgerTells(ledger, runs)
    BY DEF SkillInv
<1>9. LedgerTells(ledger', runs')
    <2>1. LedgerTells(Append(ledger, EntryOf(runs, i)), runs')
        BY <1>6, <1>7, <1>8, RecordTells
    <2> QED BY <1>1, <1>2, <2>1
<1> QED BY <1>5, <1>9 DEF SkillInv, SoundRuns

\* A process that dies takes its unrecorded runs with it, and nothing else.
LEMMA CrashKeeps == ASSUME SkillInv, Crash PROVE SkillInv'
<1>1. runs' = [i \in 1..Len(runs) |-> Killed(runs[i])] /\ ledger' = ledger
    BY DEF Crash
<1>2. \A i \in 1..Len(runs) :
         /\ RunSound(Killed(runs[i])) /\ Killed(runs[i]).result = runs[i].result
         /\ Killed(runs[i]).decision = runs[i].decision /\ Killed(runs[i]).skill = runs[i].skill
         /\ Killed(runs[i]).main = IF runs[i].main = "recorded" THEN "recorded" ELSE "dead"
    BY LateIsSound DEF SkillInv
<1>3. Len(runs) \in Nat
    BY DEF SkillInv
<1>4. /\ Len(runs') = Len(runs) /\ runs' \in Seq({runs'[i] : i \in DOMAIN runs'})
      /\ \A i \in 1..Len(runs) : runs'[i] = Killed(runs[i])
    BY <1>1, <1>3
<1>5. RecordedRuns(runs') = RecordedRuns(runs)
    BY <1>2, <1>4 DEF RecordedRuns
<1>6. \A j \in RecordedRuns(runs) : /\ runs'[j].result = runs[j].result /\ runs'[j].decision = runs[j].decision
                                    /\ runs'[j].skill = runs[j].skill
    BY <1>2, <1>4 DEF RecordedRuns
<1>7. LedgerTells(ledger, runs')
    BY <1>5, <1>6, LedgerStays DEF SkillInv
<1> QED BY <1>1, <1>2, <1>4, <1>7 DEF SkillInv

\* The invariant of the runs and the ledger.
LEMMA SkillInvHolds == ASSUME SkillAssumption PROVE SSpec => []SkillInv
<1>1. SInit => SkillInv
    BY DEF SInit, SkillInv, LedgerTells, RecordedRuns
<1>2. SkillInv /\ [SNext]_svars => SkillInv'
    <2> SUFFICES ASSUME SkillInv, [SNext]_svars PROVE SkillInv'
        OBVIOUS
    <2>1. CASE UNCHANGED <<runs, ledger>>
        BY <2>1 DEF SkillInv, LedgerTells, RecordedRuns, EntryOf
    <2>2. ASSUME NEW d \in Decisions, NEW t \in Timeouts, Execute(d, t) PROVE SkillInv'
        BY <2>2, ExecuteKeeps
    <2>3. ASSUME NEW d \in Decisions, NEW o \in Outputs, NEW late \in BOOLEAN, RunInline(d, o, late) PROVE SkillInv'
        BY <2>3, RunInlineKeeps
    <2>4. ASSUME NEW i \in 1..Len(runs), TimesOut(i) \/ Collect(i) \/ \E o \in Outputs : SkillEnds(i, o)
          PROVE  SkillInv'
        BY <2>4, ThreadsKeep
    <2>5. ASSUME NEW i \in 1..Len(runs), Record(i) PROVE SkillInv'
        BY <2>5, RecordKeeps
    <2>6. CASE Crash
        BY <2>6, CrashKeeps
    <2> QED BY <2>1, <2>2, <2>3, <2>4, <2>5, <2>6 DEF SNext, RegisterManifest, RegisterPlugin, SetStatus, svars
<1> QED BY <1>1, <1>2, PTL DEF SSpec

\* A result is of one of four states.
LEMMA ToldStates ==
    ASSUME NEW r, Told(r) PROVE r.result.status \in {"COMPLETED", "FAILED", "DENIED", "RESULT_CREATED"}
BY DEF Told, Failure, Denied

\* The projection counts what was recorded.
LEMMA ProjectionAgrees == ASSUME SkillInv PROVE LedgerAgrees
<1> DEFINE recorded == RecordedRuns(runs)
           Of(status) == {i \in recorded : runs[i].result.status = status}
           rest == {i \in recorded : runs[i].result.status \in {"FAILED", "RESULT_CREATED"}}
           three == {"COMPLETED", "TIMEOUT", "DENIED"}
           known == {"COMPLETED", "FAILED", "DENIED", "RESULT_CREATED"}
<1>1. LedgerTells(ledger, runs) /\ Len(runs) \in Nat
    BY DEF SkillInv
<1>2. \A i \in recorded : runs[i].result.status \in known
    BY ToldStates DEF RecordedRuns, SkillInv, RunSound
<1>3. \A k \in DOMAIN ledger : /\ ledger[k].started \in recorded
                               /\ ledger[k].state = runs[ledger[k].started].result.status
                               /\ ledger[k].decision = runs[ledger[k].started].decision
    BY <1>1 DEF LedgerTells, EntryOf
<1>4. \A k \in DOMAIN ledger : ledger[k].state \in known
    BY <1>2, <1>3
<1>5. Cardinality(Only(ledger, "COMPLETED")) = Cardinality(Of("COMPLETED")) /\ IsFiniteSet(Of("COMPLETED"))
    <2>1. EntriesIn(ledger, {"COMPLETED"}) = Only(ledger, "COMPLETED") /\ RunsIn(runs, {"COMPLETED"}) = Of("COMPLETED")
        BY DEF Only, EntriesIn, RunsIn
    <2> HIDE DEF Of
    <2> QED BY <1>1, <2>1, SameCount
<1>6. Cardinality(Only(ledger, "DENIED")) = Cardinality(Of("DENIED")) /\ IsFiniteSet(Of("DENIED"))
    <2>1. EntriesIn(ledger, {"DENIED"}) = Only(ledger, "DENIED") /\ RunsIn(runs, {"DENIED"}) = Of("DENIED")
        BY DEF Only, EntriesIn, RunsIn
    <2> HIDE DEF Of
    <2> QED BY <1>1, <2>1, SameCount
<1>7. Cardinality(Unrecognized(ledger)) = Cardinality(rest) /\ IsFiniteSet(rest)
    <2>1. EntriesIn(ledger, {"FAILED", "RESULT_CREATED"}) = Unrecognized(ledger) /\ RunsIn(runs, {"FAILED", "RESULT_CREATED"}) = rest
        BY <1>4 DEF Unrecognized, EntriesIn, RunsIn
    <2> HIDE DEF rest
    <2> QED BY <1>1, <2>1, SameCount
<1>8. Only(ledger, "TIMEOUT") = {}
    BY <1>4 DEF Only
<1>9. /\ IsFiniteSet(Of("FAILED")) /\ IsFiniteSet(Of("RESULT_CREATED"))
      /\ Cardinality(rest) = Cardinality(Of("FAILED")) + Cardinality(Of("RESULT_CREATED"))
    <2>1. rest = Of("FAILED") \cup Of("RESULT_CREATED") /\ Of("FAILED") \cap Of("RESULT_CREATED") = {}
        OBVIOUS
    <2>2. IsFiniteSet(Of("FAILED")) /\ IsFiniteSet(Of("RESULT_CREATED"))
        BY <1>7, <2>1, FS_Subset
    <2> HIDE DEF Of, rest
    <2> QED BY <2>1, <2>2, DisjointCount
<1>10. Cardinality(recorded) = Cardinality(Of("COMPLETED")) + Cardinality(rest) + Cardinality(Of("DENIED"))
    <2>1. /\ recorded = (Of("COMPLETED") \cup rest) \cup Of("DENIED")
          /\ (Of("COMPLETED") \cup rest) \cap Of("DENIED") = {} /\ Of("COMPLETED") \cap rest = {}
        BY <1>2
    <2> HIDE DEF Of, rest, recorded
    <2>2. IsFiniteSet(Of("COMPLETED") \cup rest) /\
          Cardinality(Of("COMPLETED") \cup rest) = Cardinality(Of("COMPLETED")) + Cardinality(rest)
        BY <1>5, <1>7, <2>1, DisjointCount
    <2>3. Cardinality((Of("COMPLETED") \cup rest) \cup Of("DENIED")) =
              Cardinality(Of("COMPLETED") \cup rest) + Cardinality(Of("DENIED"))
        BY <1>6, <2>1, <2>2, DisjointCount
    <2> QED BY <2>1, <2>2, <2>3
<1>11. Decisions \ {ledger[k].decision : k \in DOMAIN ledger} = Decisions \ {runs[i].decision : i \in recorded}
    <2>1. {ledger[k].decision : k \in DOMAIN ledger} \subseteq {runs[i].decision : i \in recorded}
        BY <1>3
    <2>2. ASSUME NEW i \in recorded PROVE runs[i].decision \in {ledger[k].decision : k \in DOMAIN ledger}
        <3>1. PICK k \in DOMAIN ledger : ledger[k].started = i
            BY <1>1 DEF LedgerTells
        <3> QED BY <1>3, <3>1
    <2> QED BY <2>1, <2>2
<1> DEFINE state == Reduce(ledger, Decisions)
<1>12. /\ state.completed = Only(ledger, "COMPLETED") /\ state.denied = Only(ledger, "DENIED")
       /\ state.failed = Unrecognized(ledger) /\ state.timeout = {}
       /\ state.pending = Decisions \ {runs[i].decision : i \in recorded}
    BY <1>8, <1>11 DEF Reduce
<1> HIDE DEF state
<1>13. Total(state) = Cardinality(recorded)
    <2>1. /\ Cardinality(Of("COMPLETED")) \in Nat /\ Cardinality(rest) \in Nat /\ Cardinality(Of("DENIED")) \in Nat
          /\ Cardinality({}) = 0
        BY <1>5, <1>6, <1>7, FS_CardinalityType, FS_EmptySet
    <2> HIDE DEF Of, rest, recorded
    <2> QED BY <1>5, <1>6, <1>7, <1>10, <1>12, <2>1 DEF Total
<1> QED BY <1>5, <1>6, <1>7, <1>9, <1>12, <1>13 DEF LedgerAgrees, RecordedRuns, state

\* Advice to run again is for runs that may end differently.
LEMMA AdviceHelps == ASSUME SkillInv PROVE RetryAdviceSound
<1> SUFFICES ASSUME NEW k \in DOMAIN ledger, ledger[k].state # "COMPLETED",
                    RetryDecision(ledger[k]) # "PERMANENT_FAILURE", ~ runs[ledger[k].started].inline
             PROVE  LET r == runs[ledger[k].started] IN
                    /\ r.result.status = "FAILED"
                    /\ r.output # None /\ ~ r.output.raises => r.result.error = "timeout"
    <2>1. ASSUME NEW a \in RetryRecommendations(ledger)
          PROVE  \E k \in DOMAIN ledger : /\ a.entry = ledger[k] /\ a.decision = RetryDecision(ledger[k])
                                          /\ ledger[k].state # "COMPLETED"
        BY DEF RetryRecommendations, Reduce, Only, Unrecognized
    <2> QED BY <2>1 DEF RetryAdviceSound
<1> DEFINE r == runs[ledger[k].started]
<1>1. ledger[k].state = r.result.status /\ ledger[k].error = r.result.error /\ Told(r)
    <2>1. ledger[k].started \in RecordedRuns(runs) /\ ledger[k] = EntryOf(runs, ledger[k].started)
        BY DEF SkillInv, LedgerTells
    <2>2. ledger[k].started \in 1..Len(runs) /\ r.main = "recorded"
        BY <2>1 DEF RecordedRuns
    <2>3. RunSound(r)
        BY <2>2 DEF SkillInv
    <2>4. Told(r)
        BY <2>2, <2>3 DEF RunSound
    <2>5. ledger[k].state = r.result.status /\ ledger[k].error = r.result.error
        BY <2>1 DEF EntryOf
    <2> QED BY <2>4, <2>5
<1> HIDE DEF r
<1>2. ~ r.inline
    BY DEF r
<1>3. r.result.error \notin {"invalid", "denied"} /\ r.result.status # "COMPLETED"
    BY <1>1 DEF RetryDecision, Told, Failure, Denied
<1> QED BY <1>1, <1>2, <1>3 DEF Told, Failure, Denied, r

\* Whatever skills end late and whatever processes die: artifacts are promoted
\* only by runs that earned it, the execution history read from the ledger agrees
\* with the results that were reported, and advice to retry can help.
THEOREM ExecutionsAccounted ==
    ASSUME SkillAssumption
    PROVE  SSpec => [](ArtifactsEarned /\ LedgerAgrees /\ RetryAdviceSound)
<1>1. SkillInv => ArtifactsEarned
    <2> SUFFICES ASSUME SkillInv, NEW i \in 1..Len(runs), runs[i].result # None, runs[i].result.artifacts # {}
                 PROVE  LET r == runs[i] IN
                        /\ r.result.status = "COMPLETED" /\ r.thread = "done"
                        /\ Allowed(r.skill) /\ ~ r.output.raises /\ Valid(r.output, r.skill)
                        /\ \A a \in r.result.artifacts : [hash |-> a[2], known |-> TRUE] \in r.output.artifacts
        BY DEF ArtifactsEarned
    <2>1. Told(runs[i])
        BY DEF SkillInv, RunSound
    <2> QED BY <2>1 DEF Told, Failure, Denied
<1>2. SkillInv => LedgerAgrees /\ RetryAdviceSound
    BY ProjectionAgrees, AdviceHelps
<1> QED BY <1>1, <1>2, SkillInvHolds, PTL

-----------------------------------------------------------------------------
(* Governance *)

\* The order of the natural numbers, which is well-founded
Precedes == {p \in Nat \X Nat : p[1] < p[2]}

\* A set of natural numbers that is not empty has a least element.
LEMMA LeastOf ==
    ASSUME NEW S, S \subseteq Nat, S # {}
    PROVE  \E n \in S : \A m \in S : n <= m
<1>1. IsWellFoundedOn(Precedes, Nat)
    BY NatLessThanWellFounded, Zenon DEF OpToRel, Precedes
<1>2. \E x \in S : \A y \in S : ~(<<y, x>> \in Precedes)
    BY <1>1, WFMin
<1>3. \A x, y \in S : ~(<<y, x>> \in Precedes) => x <= y
    BY DEF Precedes
<1> QED BY <1>2, <1>3

\* f is what the recursion of RulesAfter says, up to m
RulesFold(f, m, events) ==
    f = [n \in 0..m |-> IF n = 0 THEN {} ELSE RuleStep(f[n - 1], events[n])]

\* The recursion over the stream defines the rules after each event.
LEMMA RulesAfterIs ==
    ASSUME NEW T, NEW events \in Seq(T)
    PROVE  /\ RulesAfter(events)[0] = {}
           /\ \A n \in 1..Len(events) : RulesAfter(events)[n] = RuleStep(RulesAfter(events)[n - 1], events[n])
<1> DEFINE Bad == {k \in 0..Len(events) : ~\E f : RulesFold(f, k, events)}
<1>1. ASSUME Bad # {} PROVE FALSE
    <2>1. Bad \subseteq Nat
        OBVIOUS
    <2>2. PICK k \in Bad : \A j \in Bad : k <= j
        BY <1>1, <2>1, LeastOf
    <2>3. CASE k = 0
        <3>1. RulesFold([n \in 0..0 |-> {}], 0, events)
            BY DEF RulesFold
        <3> QED BY <2>3, <3>1
    <2>4. CASE k # 0
        <3>1. k - 1 \in 0..Len(events) /\ k - 1 \notin Bad
            BY <2>2, <2>4
        <3>2. PICK g : RulesFold(g, k - 1, events)
            BY <3>1
        <3> DEFINE f == [n \in 0..k |-> IF n = k THEN RuleStep(g[k - 1], events[k]) ELSE g[n]]
        <3>3. \A n \in 0..k : f[n] = IF n = 0 THEN {} ELSE RuleStep(f[n - 1], events[n])
            <4>1. k \in Nat /\ k > 0 /\ 0..(k - 1) \subseteq 0..k
                BY <2>1, <2>4
            <4>2. \A n \in 0..(k - 1) : g[n] = IF n = 0 THEN {} ELSE RuleStep(g[n - 1], events[n])
                BY <3>2 DEF RulesFold
            <4> HIDE DEF Bad
            <4>3. \A n \in 0..(k - 1) : f[n] = g[n]
                BY <4>1
            <4>4. f[k] = RuleStep(f[k - 1], events[k])
                BY <4>1, <4>3
            <4> HIDE DEF f
            <4> QED BY <4>1, <4>2, <4>3, <4>4
        <3>4. RulesFold(f, k, events)
            BY <3>3 DEF RulesFold
        <3> QED BY <3>4
    <2> QED BY <2>3, <2>4
<1>2. Len(events) \in Nat /\ Len(events) \in 0..Len(events)
    OBVIOUS
<1>3. \E f : RulesFold(f, Len(events), events)
    BY <1>1, <1>2
<1>4. RulesFold(RulesAfter(events), Len(events), events)
    BY <1>3 DEF RulesAfter, RulesFold
<1> DEFINE h == RulesAfter(events)
<1>5. \A n \in 0..Len(events) : h[n] = IF n = 0 THEN {} ELSE RuleStep(h[n - 1], events[n])
    BY <1>4 DEF RulesFold
<1> HIDE DEF h, Bad
<1>6. h[0] = {} /\ \A n \in 1..Len(events) : h[n] = RuleStep(h[n - 1], events[n])
    BY <1>2, <1>5
<1> QED BY <1>6 DEF h

\* the rules that are in force after n events
RulesInForce(events, n) == {events[k].rule : k \in {j \in 1..n : InForce(events, j, n)}}

\* One more event: its rule replaces the one of its key, a deletion removes one.
LEMMA NextInForce ==
    ASSUME NEW T, NEW events \in Seq(T), NEW n \in 1..Len(events)
    PROVE  RulesInForce(events, n) = RuleStep(RulesInForce(events, n - 1), events[n])
<1> DEFINE e == events[n]
           Ruling == {"GOVERNANCE_RULE_CREATED", "GOVERNANCE_RULE_UPDATED"}
           Was == {j \in 1..(n - 1) : InForce(events, j, n - 1)}
           Is == {j \in 1..n : InForce(events, j, n)}
<1>1. Len(events) \in Nat /\ n \in Nat /\ n - 1 \in Nat
    OBVIOUS
<1>2. \A k \in 1..(n - 1) : k + 1..n = (k + 1..(n - 1)) \cup {n}
    BY <1>1
<1>3. n + 1..n = {} /\ 1..n = (1..(n - 1)) \cup {n}
    BY <1>1
<1>4. \A k \in 1..(n - 1) : InForce(events, k, n) <=>
         /\ InForce(events, k, n - 1)
         /\ e.type = "GOVERNANCE_RULE_DELETED" => e.key # Key(events[k].rule)
         /\ e.type \in Ruling => Key(e.rule) # Key(events[k].rule)
    BY <1>2 DEF InForce
<1>5. InForce(events, n, n) <=> e.type \in Ruling
    BY <1>3 DEF InForce
<1>6. CASE e.type \in Ruling
    <2>1. Is = {k \in Was : Key(events[k].rule) # Key(e.rule)} \cup {n}
        BY <1>3, <1>4, <1>5, <1>6
    <2>2. RuleStep(RulesInForce(events, n - 1), e) =
              {r \in RulesInForce(events, n - 1) : Key(r) # Key(e.rule)} \cup {e.rule}
        BY <1>6 DEF RuleStep
    <2> HIDE DEF Is, Was
    <2>3. {events[k].rule : k \in Is} = {r \in {events[k].rule : k \in Was} : Key(r) # Key(e.rule)} \cup {e.rule}
        BY <2>1
    <2> QED BY <2>2, <2>3 DEF RulesInForce, Is, Was
<1>7. CASE e.type = "GOVERNANCE_RULE_DELETED"
    <2>1. Is = {k \in Was : Key(events[k].rule) # e.key}
        BY <1>3, <1>4, <1>5, <1>7
    <2>2. RuleStep(RulesInForce(events, n - 1), e) = {r \in RulesInForce(events, n - 1) : Key(r) # e.key}
        BY <1>7 DEF RuleStep
    <2> HIDE DEF Is, Was
    <2>3. {events[k].rule : k \in Is} = {r \in {events[k].rule : k \in Was} : Key(r) # e.key}
        BY <2>1
    <2> QED BY <2>2, <2>3 DEF RulesInForce, Is, Was
<1>8. CASE e.type \notin Ruling \cup {"GOVERNANCE_RULE_DELETED"}
    <2>1. Is = Was
        BY <1>3, <1>4, <1>5, <1>8
    <2>2. RuleStep(RulesInForce(events, n - 1), e) = RulesInForce(events, n - 1)
        BY <1>8 DEF RuleStep
    <2> QED BY <2>1, <2>2 DEF RulesInForce
<1> QED BY <1>6, <1>7, <1>8

\* The reducer computes the rules whose last word stands, at every event.
LEMMA RulesAreInForce ==
    ASSUME NEW T, NEW events \in Seq(T), NEW m \in 0..Len(events)
    PROVE  RulesAfter(events)[m] = RulesInForce(events, m)
<1> DEFINE Bad == {n \in 0..Len(events) : RulesAfter(events)[n] # RulesInForce(events, n)}
<1> SUFFICES ASSUME Bad # {} PROVE FALSE
    OBVIOUS
<1>1. Bad \subseteq Nat /\ Len(events) \in Nat
    OBVIOUS
<1>2. PICK n \in Bad : \A l \in Bad : n <= l
    BY <1>1, LeastOf
<1>3. RulesInForce(events, 0) = {}
    BY DEF RulesInForce
<1>4. n # 0
    BY <1>3, RulesAfterIs
<1>5. n \in 1..Len(events) /\ n - 1 \in 0..Len(events) /\ n - 1 \notin Bad
    BY <1>1, <1>2, <1>4
<1>6. RulesAfter(events)[n - 1] = RulesInForce(events, n - 1)
    BY <1>5
<1>7. RulesAfter(events)[n] = RuleStep(RulesAfter(events)[n - 1], events[n])
    BY <1>5, RulesAfterIs
<1>8. RulesInForce(events, n) = RuleStep(RulesInForce(events, n - 1), events[n])
    BY <1>5, NextInForce
<1> QED BY <1>6, <1>7, <1>8


\* The recommendations of the first n events
RecsUpTo(events, n) == UNION {Rules(events[i], i) : i \in 1..n}

\* A recommendation names the event it was made from, that event is of a kind the
\* timeline tells, and its priority is that of its category.
LEMMA RuleGives ==
    ASSUME NEW e, NEW seq, NEW r \in Rules(e, seq)
    PROVE  /\ r.created = seq /\ r.evidence = {seq} /\ Category(e.type) # "none"
           /\ \/ r.category = "knowledge_gap" /\ r.priority = 85
              \/ r.category = "follow_up" /\ r.priority = 65
              \/ r.category = "optimization" /\ r.priority = 55
              \/ r.category = "next_action" /\ r.priority = 75
              \/ r.category = "risk" /\ r.priority = 45
<1>1. CASE r \in KnowledgeGapRule(e, seq)
    BY <1>1 DEF KnowledgeGapRule, Advise, Category
<1>2. CASE r \in TaskFollowUpRule(e, seq)
    BY <1>2 DEF TaskFollowUpRule, Advise, Category
<1>3. CASE r \in DecisionReviewRule(e, seq)
    BY <1>3 DEF DecisionReviewRule, Advise, Category
<1>4. CASE r \in QuestionResolutionRule(e, seq)
    BY <1>4 DEF QuestionResolutionRule, Advise, Category
<1>5. CASE r \in KnowledgeDeletionRiskRule(e, seq)
    BY <1>5 DEF KnowledgeDeletionRiskRule, Advise, Category
<1> QED BY <1>1, <1>2, <1>3, <1>4, <1>5 DEF Rules

\* The recommendations of a stretch of the stream, with what is known of each.
LEMMA RecsGive ==
    ASSUME NEW events, NEW n \in Nat, NEW r \in RecsUpTo(events, n)
    PROVE  /\ r.created \in 1..n /\ r.evidence = {r.created} /\ Category(events[r.created].type) # "none"
           /\ r \in Rules(events[r.created], r.created)
           /\ \/ r.category = "knowledge_gap" /\ r.priority = 85
              \/ r.category = "follow_up" /\ r.priority = 65
              \/ r.category = "optimization" /\ r.priority = 55
              \/ r.category = "next_action" /\ r.priority = 75
              \/ r.category = "risk" /\ r.priority = 45
<1>1. PICK i \in 1..n : r \in Rules(events[i], i)
    BY DEF RecsUpTo
<1> QED BY <1>1, RuleGives

\* The recommendations of a prefix are those of the stream up to its end.
LEMMA RecsOfPrefix ==
    ASSUME NEW T, NEW events \in Seq(T), NEW n \in 0..Len(events)
    PROVE  /\ Recommendations(SubSeq(events, 1, n)) = RecsUpTo(events, n)
           /\ Recommendations(events) = RecsUpTo(events, Len(events))
<1>1. DOMAIN SubSeq(events, 1, n) = 1..n /\ \A i \in 1..n : SubSeq(events, 1, n)[i] = events[i]
    OBVIOUS
<1>2. DOMAIN events = 1..Len(events)
    OBVIOUS
<1> HIDE DEF Rules
<1>3. Recommendations(SubSeq(events, 1, n)) = RecsUpTo(events, n)
    BY <1>1 DEF Recommendations, RecsUpTo
<1> QED BY <1>2, <1>3 DEF Recommendations, RecsUpTo

\* Of two recommendations of one category the newer outranks the older, whatever
\* the time.
LEMMA NewerFirst == ASSUME stream \in Seq(EventMenu) PROVE FreshFirst
<1> DEFINE now == Len(stream)
           recs == RecsUpTo(stream, now)
<1>1. Recommendations(stream) = recs /\ now \in Nat
    BY RecsOfPrefix
<1>2. ASSUME NEW r \in recs, NEW s \in recs, ~ Outranks(r, s, now), r.category = s.category
      PROVE  r.created <= s.created
    <2>1. r.created \in 1..now /\ s.created \in 1..now /\ r.priority = s.priority
          /\ r.priority \in {85, 65, 55, 75, 45}
        BY <1>1, <1>2, RecsGive
    <2>2. ~ (r.priority * (10 + now - s.created) > s.priority * (10 + now - r.created))
        BY <1>2 DEF Outranks
    <2> HIDE DEF recs
    <2>3. ASSUME NEW a \in Int, NEW b \in Int, NEW p \in {85, 65, 55, 75, 45}, ~ (p * a > p * b) PROVE a <= b
        BY <2>3
    <2>4. 10 + now - s.created \in Int /\ 10 + now - r.created \in Int
        BY <1>1, <2>1
    <2>5. 10 + now - s.created <= 10 + now - r.created
        BY <2>1, <2>2, <2>3, <2>4
    <2> QED BY <1>1, <2>1, <2>5
<1> HIDE DEF recs, now
<1>3. ASSUME NEW top \in SUBSET recs, IsSearchResult(top, recs, Unset, Unset, now, 1),
             NEW r \in recs \ top, NEW s \in top
      PROVE  ~ Outranks(r, s, now)
    BY <1>3 DEF IsSearchResult, Filter
<1> QED BY <1>1, <1>2, <1>3 DEF FreshFirst, now

\* f is what the recursion of EntriesAfter says, up to m
EntriesFold(f, m, events) ==
    f = [n \in 0..m |-> IF n = 0 THEN <<>>
                        ELSE IF Category(events[n].type) = "none" THEN f[n - 1]
                        ELSE Append(f[n - 1], NormalizeEvent(events[n], n))]

\* what the entries of the first n events are
Narrates(told, n, events) ==
    /\ told \in Seq({told[i] : i \in DOMAIN told})
    /\ \A i \in DOMAIN told : told[i].sequence \in 1..n
    /\ \A i, j \in DOMAIN told : i < j => told[i].sequence < told[j].sequence
    /\ \A k \in 1..n : Category(events[k].type) # "none" => \E i \in DOMAIN told : told[i].sequence = k


\* The recursion over the stream defines the entries after each event.
LEMMA EntriesAfterIs ==
    ASSUME NEW T, NEW events \in Seq(T)
    PROVE  /\ EntriesAfter(events)[0] = <<>>
           /\ \A n \in 1..Len(events) :
                 EntriesAfter(events)[n] =
                     IF Category(events[n].type) = "none" THEN EntriesAfter(events)[n - 1]
                     ELSE Append(EntriesAfter(events)[n - 1], NormalizeEvent(events[n], n))
<1> DEFINE Bad == {k \in 0..Len(events) : ~\E f : EntriesFold(f, k, events)}
           Entered(f, n) == IF Category(events[n].type) = "none" THEN f[n - 1]
                            ELSE Append(f[n - 1], NormalizeEvent(events[n], n))
<1>1. ASSUME Bad # {} PROVE FALSE
    <2>1. Bad \subseteq Nat
        OBVIOUS
    <2>2. PICK k \in Bad : \A j \in Bad : k <= j
        BY <1>1, <2>1, LeastOf
    <2>3. CASE k = 0
        <3>1. EntriesFold([n \in 0..0 |-> <<>>], 0, events)
            BY DEF EntriesFold
        <3> QED BY <2>3, <3>1
    <2>4. CASE k # 0
        <3>1. k - 1 \in 0..Len(events) /\ k - 1 \notin Bad
            BY <2>2, <2>4
        <3>2. PICK g : EntriesFold(g, k - 1, events)
            BY <3>1
        <3> DEFINE f == [n \in 0..k |-> IF n = k THEN Entered(g, k) ELSE g[n]]
        <3>3. \A n \in 0..k : f[n] = IF n = 0 THEN <<>> ELSE Entered(f, n)
            <4>1. k \in Nat /\ k > 0 /\ 0..(k - 1) \subseteq 0..k
                BY <2>1, <2>4
            <4>2. \A n \in 0..(k - 1) : g[n] = IF n = 0 THEN <<>> ELSE Entered(g, n)
                BY <3>2 DEF EntriesFold
            <4> HIDE DEF Bad
            <4>3. \A n \in 0..(k - 1) : f[n] = g[n]
                BY <4>1
            <4>4. f[k] = Entered(g, k)
                BY <4>1
            <4> HIDE DEF f
            <4>5. \A n \in 1..k : f[n - 1] = g[n - 1]
                BY <4>1, <4>3
            <4>6. \A n \in 1..k : Entered(f, n) = Entered(g, n)
                BY <4>5
            <4> HIDE DEF Entered
            <4> QED BY <4>1, <4>2, <4>3, <4>4, <4>6
        <3>4. EntriesFold(f, k, events)
            BY <3>3 DEF EntriesFold
        <3> QED BY <3>4
    <2> QED BY <2>3, <2>4
<1>2. Len(events) \in Nat /\ Len(events) \in 0..Len(events)
    OBVIOUS
<1>3. \E f : EntriesFold(f, Len(events), events)
    BY <1>1, <1>2
<1>4. EntriesFold(EntriesAfter(events), Len(events), events)
    BY <1>3 DEF EntriesAfter, EntriesFold
<1> DEFINE h == EntriesAfter(events)
<1>5. \A n \in 0..Len(events) : h[n] = IF n = 0 THEN <<>> ELSE Entered(h, n)
    BY <1>4 DEF EntriesFold
<1> HIDE DEF h, Bad, Entered
<1>6. h[0] = <<>> /\ \A n \in 1..Len(events) : h[n] = Entered(h, n)
    BY <1>2, <1>5
<1> QED BY <1>6 DEF h, Entered

\* One more event is told at the end, or not at all.
LEMMA NarratesOn ==
    ASSUME NEW events, NEW n \in Nat \ {0}, NEW told, Narrates(told, n - 1, events)
    PROVE  Narrates(IF Category(events[n].type) = "none" THEN told
                    ELSE Append(told, NormalizeEvent(events[n], n)), n, events)
<1>1. 1..n = (1..(n - 1)) \cup {n}
    OBVIOUS
<1>2. CASE Category(events[n].type) = "none"
    <2>1. /\ \A i \in DOMAIN told : told[i].sequence \in 1..n
          /\ \A k \in 1..n : Category(events[k].type) # "none" => \E i \in DOMAIN told : told[i].sequence = k
        BY <1>1, <1>2 DEF Narrates
    <2> QED BY <1>2, <2>1 DEF Narrates
<1>3. CASE Category(events[n].type) # "none"
    <2> DEFINE x == NormalizeEvent(events[n], n)
               more == Append(told, x)
               m == Len(told)
    <2>1. x.sequence = n
        BY DEF NormalizeEvent
    <2> HIDE DEF x
    <2>2. told \in Seq({told[i] : i \in DOMAIN told}) /\ m \in Nat /\ DOMAIN told = 1..m
        BY DEF Narrates
    <2>3. /\ more \in Seq({told[i] : i \in DOMAIN told} \cup {x}) /\ DOMAIN more = 1..(m + 1)
          /\ more[m + 1] = x /\ \A i \in 1..m : more[i] = told[i]
        BY <2>2
    <2>4. more \in Seq({more[i] : i \in DOMAIN more})
        BY <2>3, SeqOfItself
    <2> HIDE DEF more, m
    <2>5. 1..(m + 1) = (1..m) \cup {m + 1}
        BY <2>2
    <2>6. \A i \in DOMAIN more : more[i].sequence \in 1..n
        BY <1>1, <2>1, <2>2, <2>3, <2>5 DEF Narrates
    <2>7. ASSUME NEW i \in DOMAIN more, NEW j \in DOMAIN more, i < j
          PROVE  more[i].sequence < more[j].sequence
        <3>1. i \in 1..m /\ more[i] = told[i] /\ told[i].sequence \in 1..(n - 1)
            BY <2>2, <2>3, <2>7 DEF Narrates
        <3>2. CASE j = m + 1
            BY <2>1, <2>3, <3>1, <3>2
        <3>3. CASE j \in 1..m
            BY <2>2, <2>3, <2>7, <3>1, <3>3 DEF Narrates
        <3> QED BY <2>3, <2>5, <3>2, <3>3
    <2>8. ASSUME NEW k \in 1..n, Category(events[k].type) # "none"
          PROVE  \E i \in DOMAIN more : more[i].sequence = k
        <3>1. CASE k = n
            BY <2>1, <2>2, <2>3, <3>1
        <3>2. CASE k \in 1..(n - 1)
            <4>1. PICK i \in DOMAIN told : told[i].sequence = k
                BY <2>8, <3>2 DEF Narrates
            <4> QED BY <2>2, <2>3, <2>5, <4>1
        <3> QED BY <1>1, <3>1, <3>2
    <2>9. Narrates(more, n, events)
        BY <2>4, <2>6, <2>7, <2>8 DEF Narrates
    <2> QED BY <1>3, <2>9 DEF more, x
<1> QED BY <1>2, <1>3

\* The timeline tells every event of a told kind, in order.
LEMMA TimelineNarrates ==
    ASSUME NEW T, NEW events \in Seq(T)
    PROVE  Narrates(Timeline(events), Len(events), events)
<1> DEFINE h == EntriesAfter(events)
           Bad == {n \in 0..Len(events) : ~ Narrates(h[n], n, events)}
<1>1. Bad \subseteq Nat /\ Len(events) \in Nat
    OBVIOUS
<1>2. ASSUME Bad # {} PROVE FALSE
    <2>1. PICK n \in Bad : \A l \in Bad : n <= l
        BY <1>1, <1>2, LeastOf
    <2>2. Narrates(<<>>, 0, events)
        BY DEF Narrates
    <2>3. n # 0
        BY <2>2, EntriesAfterIs
    <2>4. n \in 1..Len(events) /\ n - 1 \in 0..Len(events) /\ n - 1 \notin Bad /\ n \in Nat \ {0}
        BY <1>1, <2>1, <2>3
    <2>5. Narrates(h[n - 1], n - 1, events)
        BY <2>4
    <2>6. h[n] = IF Category(events[n].type) = "none" THEN h[n - 1]
                 ELSE Append(h[n - 1], NormalizeEvent(events[n], n))
        BY <2>4, EntriesAfterIs
    <2> HIDE DEF h
    <2>7. Narrates(h[n], n, events)
        BY <2>4, <2>5, <2>6, NarratesOn
    <2> QED BY <2>7
<1> QED BY <1>1, <1>2 DEF Timeline

\* Whatever is recommended, the timeline tells the event behind it.
LEMMA AdviceIsNarrated == ASSUME stream \in Seq(EventMenu) PROVE AdviceNarrated
<1>1. Narrates(Timeline(stream), Len(stream), stream) /\ Len(stream) \in Nat
    BY TimelineNarrates
<1>2. Recommendations(stream) = RecsUpTo(stream, Len(stream))
    BY <1>1, RecsOfPrefix
<1>3. ASSUME NEW r \in RecsUpTo(stream, Len(stream)), NEW s \in r.evidence
      PROVE  \E i \in DOMAIN Timeline(stream) : Timeline(stream)[i].sequence = s
    <2>1. s \in 1..Len(stream) /\ Category(stream[s].type) # "none"
        BY <1>1, <1>3, RecsGive
    <2> QED BY <1>1, <2>1 DEF Narrates
<1> QED BY <1>1, <1>2, <1>3 DEF AdviceNarrated, Narrates


\* What a rule matches, its evidence, and the warning of it for one entity
MatchedBy(rule, recs) == {r \in recs : Matches(rule, r)}
EvidenceFor(rule, recs) == UNION {r.evidence : r \in MatchedBy(rule, recs)}
WarningOf(rule, entity, recs) ==
    [id |-> <<Key(rule), entity, Trigger(EvidenceFor(rule, recs))>>, rule |-> rule,
     entity |-> entity, evidence |-> EvidenceFor(rule, recs)]
WarningsFor(rules, recs) == GenerateWarnings(EvaluateRules(rules, recs))

\* A warning is of an enabled rule and of the entity of a recommendation it matches.
LEMMA WarningsAre ==
    ASSUME NEW rules, NEW recs
    PROVE  /\ \A w \in WarningsFor(rules, recs) : \E rule \in rules : \E r \in MatchedBy(rule, recs) :
                 rule.enabled /\ w = WarningOf(rule, r.entity, recs)
           /\ \A rule \in rules : \A r \in MatchedBy(rule, recs) :
                 rule.enabled => WarningOf(rule, r.entity, recs) \in WarningsFor(rules, recs)
<1> DEFINE v(rule) == EvaluateRule(rule, recs)
<1>1. \A rule : /\ v(rule).rule = rule /\ (v(rule).matched <=> MatchedBy(rule, recs) # {})
                /\ v(rule).entities = {r.entity : r \in MatchedBy(rule, recs)}
                /\ v(rule).evidence = EvidenceFor(rule, recs)
    BY DEF EvaluateRule, MatchedBy, EvidenceFor
<1>2. EvaluateRules(rules, recs) = {v(q) : q \in {p \in rules : p.enabled}}
    BY DEF EvaluateRules
<1> HIDE DEF v
<1>3. ASSUME NEW w \in WarningsFor(rules, recs)
      PROVE  \E rule \in rules : \E r \in MatchedBy(rule, recs) :
                 rule.enabled /\ w = WarningOf(rule, r.entity, recs)
    <2>0. PICK u \in EvaluateRules(rules, recs) : \E entity \in u.entities :
             w = [id |-> <<Key(u.rule), entity, Trigger(u.evidence)>>, rule |-> u.rule,
                  entity |-> entity, evidence |-> u.evidence]
        BY DEF WarningsFor, GenerateWarnings
    <2>1. PICK entity \in u.entities :
             w = [id |-> <<Key(u.rule), entity, Trigger(u.evidence)>>, rule |-> u.rule,
                  entity |-> entity, evidence |-> u.evidence]
        BY <2>0
    <2>2. PICK rule \in rules : rule.enabled /\ u = v(rule)
        BY <1>2
    <2>3. PICK r \in MatchedBy(rule, recs) : entity = r.entity
        BY <1>1, <2>1, <2>2
    <2>4. w = WarningOf(rule, r.entity, recs)
        BY <1>1, <2>1, <2>2, <2>3 DEF WarningOf
    <2> QED BY <2>2, <2>4
<1>4. ASSUME NEW rule \in rules, NEW r \in MatchedBy(rule, recs), rule.enabled
      PROVE  WarningOf(rule, r.entity, recs) \in WarningsFor(rules, recs)
    <2>1. v(rule) \in EvaluateRules(rules, recs) /\ v(rule).matched /\ r.entity \in v(rule).entities
        BY <1>1, <1>2, <1>4
    <2>2. WarningOf(rule, r.entity, recs) =
             [id |-> <<Key(v(rule).rule), r.entity, Trigger(v(rule).evidence)>>, rule |-> v(rule).rule,
              entity |-> r.entity, evidence |-> v(rule).evidence]
        BY <1>1 DEF WarningOf
    <2> QED BY <2>1, <2>2 DEF WarningsFor, GenerateWarnings
<1> QED BY <1>3, <1>4

\* The rules of a stream ask for a number, or for nothing.
LEMMA RulesAsk ==
    ASSUME GovernanceAssumption, NEW events \in Seq(EventMenu), NEW n \in 0..Len(events),
           NEW rule \in RulesInForce(events, n)
    PROVE  rule.minimum \in Int \cup {Unset}
<1>1. PICK k \in 1..n : InForce(events, k, n) /\ rule = events[k].rule
    BY DEF RulesInForce
<1>2. events[k] \in EventMenu
    BY <1>1
<1> QED BY <1>1, <1>2 DEF InForce, GovernanceAssumption

\* What a rule matches is what it asks for.
LEMMA MatchedAreAsked ==
    ASSUME NEW events, NEW n \in Nat, NEW rule, rule.minimum \in Int \cup {Unset}
    PROVE  {r.entity : r \in MatchedBy(rule, RecsUpTo(events, n))} = Asked(rule, RecsUpTo(events, n))
<1> DEFINE recs == RecsUpTo(events, n)
<1>1. \A r \in recs : r.priority \in Int
    BY RecsGive
<1>2. \A r \in recs : Matches(rule, r) <=>
         /\ rule.categories = Unset \/ r.category \in rule.categories
         /\ rule.minimum = Unset \/ ~ (r.priority < rule.minimum)
    BY <1>1 DEF Matches
<1> HIDE DEF recs
<1>3. MatchedBy(rule, recs) =
          {q \in recs : /\ rule.categories = Unset \/ q.category \in rule.categories
                        /\ rule.minimum = Unset \/ ~ (q.priority < rule.minimum)}
    BY <1>2 DEF MatchedBy
<1> QED BY <1>3 DEF Asked, recs

\* what a call showed, when the stream is events
SoundAt(s, events) ==
    /\ s.rulesAt \in 0..s.recsAt /\ s.recsAt \in 0..Len(events) /\ s.failed \in BOOLEAN
    /\ s.rules = IF s.failed THEN {} ELSE RulesInForce(events, s.rulesAt)
    /\ s.warnings = WarningsFor(s.rules, IF s.failed THEN {} ELSE RecsUpTo(events, s.recsAt))

\* Calls show what the stream said when they read it; a later call has read at
\* least as much of it.
GovernanceInv ==
    /\ stream \in Seq(EventMenu)
    /\ reading # Idle => /\ reading.at \in 0..Len(stream) /\ reading.failed \in BOOLEAN
                         /\ reading.rules = IF reading.failed THEN {} ELSE RulesInForce(stream, reading.at)
    /\ shown \in Seq({shown[i] : i \in DOMAIN shown})
    /\ \A i \in DOMAIN shown : SoundAt(shown[i], stream)
    /\ \A i, j \in DOMAIN shown : i < j => shown[i].recsAt <= shown[j].recsAt

\* What was shown is what was due.
LEMMA ShownIsDue ==
    ASSUME GovernanceAssumption, stream \in Seq(EventMenu), NEW s, SoundAt(s, stream)
    PROVE  {<<Key(w.rule), w.entity>> : w \in s.warnings} = IF s.failed THEN {} ELSE Due(s)
<1>1. s.rulesAt \in 0..Len(stream) /\ s.recsAt \in 0..Len(stream) /\ Len(stream) \in Nat /\ s.recsAt \in Nat
    BY DEF SoundAt
<1>2. CASE s.failed
    <2>1. WarningsFor({}, {}) = {}
        BY WarningsAre
    <2> QED BY <1>2, <2>1 DEF SoundAt
<1>3. CASE ~ s.failed
    <2> DEFINE recs == RecsUpTo(stream, s.recsAt)
               rules == RulesInForce(stream, s.rulesAt)
    <2>1. s.warnings = WarningsFor(rules, recs)
        BY <1>3 DEF SoundAt
    <2>2. Recommendations(Prefix(s.recsAt)) = recs
        BY <1>1, RecsOfPrefix DEF Prefix
    <2>3. \A rule \in rules : {r.entity : r \in MatchedBy(rule, recs)} = Asked(rule, recs)
        BY <1>1, RulesAsk, MatchedAreAsked
    <2>4. Due(s) = UNION {{<<Key(rule), x>> : x \in Asked(rule, recs)} : rule \in {q \in rules : q.enabled}}
        BY <2>2 DEF Due, RulesInForce
    <2> HIDE DEF recs, rules
    <2>5. ASSUME NEW w \in WarningsFor(rules, recs) PROVE <<Key(w.rule), w.entity>> \in Due(s)
        <3>0. PICK rule \in rules : \E r \in MatchedBy(rule, recs) : rule.enabled /\ w = WarningOf(rule, r.entity, recs)
            BY WarningsAre
        <3>1. PICK r \in MatchedBy(rule, recs) : rule.enabled /\ w = WarningOf(rule, r.entity, recs)
            BY <3>0
        <3>2. w.rule = rule /\ w.entity = r.entity
            BY <3>1 DEF WarningOf
        <3>3. r.entity \in Asked(rule, recs)
            BY <2>3
        <3> QED BY <2>4, <3>1, <3>2, <3>3
    <2>6. ASSUME NEW p \in Due(s)
          PROVE  p \in {<<Key(w.rule), w.entity>> : w \in WarningsFor(rules, recs)}
        <3>0. PICK rule \in rules : rule.enabled /\ \E x \in Asked(rule, recs) : p = <<Key(rule), x>>
            BY <2>4
        <3>1. PICK x \in Asked(rule, recs) : rule.enabled /\ p = <<Key(rule), x>>
            BY <3>0
        <3>2. PICK r \in MatchedBy(rule, recs) : x = r.entity
            BY <2>3
        <3>3. WarningOf(rule, r.entity, recs) \in WarningsFor(rules, recs)
            BY <3>1, WarningsAre
        <3>4. WarningOf(rule, r.entity, recs).rule = rule /\ WarningOf(rule, r.entity, recs).entity = r.entity
            BY DEF WarningOf
        <3> QED BY <3>1, <3>2, <3>3, <3>4
    <2> QED BY <1>3, <2>1, <2>5, <2>6
<1> QED BY <1>2, <1>3

\* Later evidence comes later, so the first piece of evidence stays the first.
LEMMA TriggerStays ==
    ASSUME NEW events, NEW m \in Nat, NEW n \in Nat, m <= n, NEW rule,
           MatchedBy(rule, RecsUpTo(events, m)) # {}
    PROVE  Trigger(EvidenceFor(rule, RecsUpTo(events, n))) = Trigger(EvidenceFor(rule, RecsUpTo(events, m)))
<1> DEFINE A == EvidenceFor(rule, RecsUpTo(events, m))
           B == EvidenceFor(rule, RecsUpTo(events, n))
<1>1. RecsUpTo(events, m) \subseteq RecsUpTo(events, n)
    BY DEF RecsUpTo
<1>2. A # {} /\ A \subseteq 1..m /\ A \subseteq B
    <2>1. \A r \in RecsUpTo(events, m) : r.evidence = {r.created} /\ r.created \in 1..m
        BY RecsGive
    <2> QED BY <1>1, <2>1 DEF EvidenceFor, MatchedBy
<1>3. B \subseteq 1..n
    <2>1. \A r \in RecsUpTo(events, n) : r.evidence = {r.created} /\ r.created \in 1..n
        BY RecsGive
    <2> QED BY <2>1 DEF EvidenceFor, MatchedBy
<1>4. ASSUME NEW t \in B, t <= m PROVE t \in A
    <2>1. PICK r \in RecsUpTo(events, n) : Matches(rule, r) /\ t \in r.evidence
        BY DEF EvidenceFor, MatchedBy
    <2>2. r.created = t /\ r \in Rules(events[t], t) /\ t \in 1..m
        BY <1>3, <1>4, <2>1, RecsGive
    <2>3. r \in RecsUpTo(events, m)
        BY <2>2 DEF RecsUpTo
    <2> QED BY <2>1, <2>3 DEF EvidenceFor, MatchedBy
<1> HIDE DEF A, B
<1>5. PICK a \in A : \A t \in A : a <= t
    <2>1. A \subseteq Nat
        BY <1>2
    <2> QED BY <1>2, <2>1, LeastOf
<1>6. \A t \in B : a <= t
    BY <1>2, <1>3, <1>4, <1>5
<1>7. \A s \in A : (\A t \in A : s <= t) => s = a
    BY <1>2, <1>5
<1>8. \A s \in B : (\A t \in B : s <= t) => s = a
    BY <1>2, <1>3, <1>5, <1>6
<1>9. Trigger(A) = a
    BY <1>5, <1>7 DEF Trigger
<1>10. Trigger(B) = a
    BY <1>2, <1>5, <1>6, <1>8 DEF Trigger
<1> QED BY <1>9, <1>10 DEF A, B

\* A warning is shown again, under its id, while its rule stands.
LEMMA ShownAgain ==
    ASSUME stream \in Seq(EventMenu), NEW s, NEW t, SoundAt(s, stream), SoundAt(t, stream), s.recsAt <= t.recsAt,
           ~ t.failed, NEW w \in s.warnings, w.rule \in t.rules
    PROVE  \E v \in t.warnings : v.id = w.id
<1> DEFINE old == RecsUpTo(stream, s.recsAt)
           new == RecsUpTo(stream, t.recsAt)
<1>1. s.recsAt \in Nat /\ t.recsAt \in Nat
    BY DEF SoundAt
<1>2. ~ s.failed
    <2>1. WarningsFor({}, {}) = {}
        BY WarningsAre
    <2> QED BY <2>1 DEF SoundAt
<1>3. s.warnings = WarningsFor(s.rules, old) /\ t.warnings = WarningsFor(t.rules, new)
    BY <1>2 DEF SoundAt
<1>3a. PICK rule \in s.rules : \E r \in MatchedBy(rule, old) : rule.enabled /\ w = WarningOf(rule, r.entity, old)
    BY <1>3, WarningsAre
<1>4. PICK r \in MatchedBy(rule, old) : rule.enabled /\ w = WarningOf(rule, r.entity, old)
    BY <1>3a
<1>5. w.rule = rule /\ w.id = <<Key(rule), r.entity, Trigger(EvidenceFor(rule, old))>>
    BY <1>4 DEF WarningOf
<1>6. r \in MatchedBy(rule, new)
    BY <1>1 DEF MatchedBy, RecsUpTo
<1> HIDE DEF old, new
<1>7. WarningOf(rule, r.entity, new) \in t.warnings
    BY <1>3, <1>4, <1>5, <1>6, WarningsAre
<1>8. WarningOf(rule, r.entity, new).id = <<Key(rule), r.entity, Trigger(EvidenceFor(rule, new))>>
    BY DEF WarningOf
<1>9. Trigger(EvidenceFor(rule, new)) = Trigger(EvidenceFor(rule, old))
    BY <1>1, <1>4, TriggerStays DEF old, new
<1> QED BY <1>5, <1>7, <1>8, <1>9

\* What a stretch of the stream says does not change when the stream grows.
LEMMA PastStays ==
    ASSUME NEW T, NEW events \in Seq(T), NEW e \in T, NEW n \in 0..Len(events)
    PROVE  /\ RecsUpTo(Append(events, e), n) = RecsUpTo(events, n)
           /\ RulesInForce(Append(events, e), n) = RulesInForce(events, n)
<1> DEFINE more == Append(events, e)
<1>1. \A i \in 1..n : more[i] = events[i]
    OBVIOUS
<1>2. \A k \in 1..n : k + 1..n \subseteq 1..n
    OBVIOUS
<1> HIDE DEF more
<1>3. \A k \in 1..n : InForce(more, k, n) <=> InForce(events, k, n)
    BY <1>1, <1>2 DEF InForce
<1>4. RulesInForce(more, n) = RulesInForce(events, n)
    BY <1>1, <1>3 DEF RulesInForce
<1>5. RecsUpTo(more, n) = RecsUpTo(events, n)
    BY <1>1 DEF RecsUpTo
<1> QED BY <1>4, <1>5 DEF more

\* An event that arrives changes nothing of what was read or shown.
LEMMA AppendKeepsGovernance == ASSUME GovernanceInv, NEW e \in EventMenu, Append1(e) PROVE GovernanceInv'
<1>1. stream' = Append(stream, e) /\ reading' = reading /\ shown' = shown /\ stream \in Seq(EventMenu)
    BY DEF Append1, GovernanceInv
<1>2. stream' \in Seq(EventMenu) /\ Len(stream') = Len(stream) + 1 /\ Len(stream) \in Nat
    BY <1>1
<1>3. \A n \in 0..Len(stream) : /\ RecsUpTo(stream', n) = RecsUpTo(stream, n)
                                /\ RulesInForce(stream', n) = RulesInForce(stream, n)
    BY <1>1, PastStays
<1>4. \A n \in 0..Len(stream) : n \in 0..Len(stream') /\ 0..n \subseteq 0..Len(stream)
    BY <1>2
<1>5. ASSUME NEW s, SoundAt(s, stream) PROVE SoundAt(s, stream')
    BY <1>3, <1>4, <1>5 DEF SoundAt
<1>6. reading # Idle => /\ reading.at \in 0..Len(stream') /\ reading.failed \in BOOLEAN
                        /\ reading.rules = IF reading.failed THEN {} ELSE RulesInForce(stream', reading.at)
    BY <1>3, <1>4 DEF GovernanceInv
<1> QED BY <1>1, <1>2, <1>5, <1>6 DEF GovernanceInv, Idle

\* The rules that are read are the rules in force.
LEMMA ReadKeepsGovernance == ASSUME GovernanceInv, ReadRules PROVE GovernanceInv'
<1>1. stream' = stream /\ shown' = shown /\ stream \in Seq(EventMenu)
    BY DEF ReadRules, GovernanceInv
<1>2. Len(stream) \in Nat /\ Len(stream) \in 0..Len(stream)
    BY <1>1
<1>3. ReduceRules(stream) = RulesInForce(stream, Len(stream))
    BY <1>1, <1>2, RulesAreInForce DEF ReduceRules
<1>4. Malformed(stream) \in BOOLEAN
    BY DEF Malformed
<1>5. /\ reading'.at = Len(stream) /\ reading'.failed = Malformed(stream)
      /\ reading'.rules = IF Malformed(stream) THEN {} ELSE ReduceRules(stream)
    BY DEF ReadRules
<1> QED BY <1>1, <1>2, <1>3, <1>4, <1>5 DEF GovernanceInv

\* A call shows the warnings of the rules it has read and of the stream as it is.
LEMMA ShowKeepsGovernance == ASSUME GovernanceInv, Show PROVE GovernanceInv'
<1> DEFINE recs == IF reading.failed THEN {} ELSE Recommendations(stream)
           s == [rulesAt |-> reading.at, recsAt |-> Len(stream), failed |-> reading.failed, rules |-> reading.rules,
                 warnings |-> SearchWarnings(WarningsFor(reading.rules, recs), Unset, Unset)]
<1>1. stream' = stream /\ reading' = Idle /\ shown' = Append(shown, s) /\ reading # Idle
    BY DEF Show, WarningsFor
<1>2. stream \in Seq(EventMenu) /\ Len(stream) \in Nat /\ Len(stream) \in 0..Len(stream)
    BY DEF GovernanceInv
<1>3. Recommendations(stream) = RecsUpTo(stream, Len(stream))
    BY <1>2, RecsOfPrefix
<1>4. \A W : SearchWarnings(W, Unset, Unset) = W
    BY DEF SearchWarnings
<1>5. /\ s.rulesAt = reading.at /\ s.recsAt = Len(stream) /\ s.failed = reading.failed /\ s.rules = reading.rules
      /\ s.warnings = WarningsFor(reading.rules, IF reading.failed THEN {} ELSE RecsUpTo(stream, Len(stream)))
    BY <1>3, <1>4
<1> HIDE DEF s
<1>6. SoundAt(s, stream)
    BY <1>1, <1>2, <1>5 DEF GovernanceInv, SoundAt
<1> DEFINE m == Len(shown)
<1>7. shown \in Seq({shown[i] : i \in DOMAIN shown}) /\ m \in Nat /\ DOMAIN shown = 1..m
    BY DEF GovernanceInv
<1>8. /\ shown' \in Seq({shown[i] : i \in DOMAIN shown} \cup {s}) /\ DOMAIN shown' = (1..m) \cup {m + 1}
      /\ shown'[m + 1] = s /\ \A i \in 1..m : shown'[i] = shown[i]
    BY <1>1, <1>7
<1>9. shown' \in Seq({shown'[i] : i \in DOMAIN shown'})
    BY <1>8, SeqOfItself
<1> HIDE DEF m
<1>10. \A i \in DOMAIN shown' : SoundAt(shown'[i], stream)
    BY <1>6, <1>7, <1>8 DEF GovernanceInv
<1>11. ASSUME NEW i \in DOMAIN shown', NEW j \in DOMAIN shown', i < j
       PROVE  shown'[i].recsAt <= shown'[j].recsAt
    <2>1. i \in 1..m
        BY <1>7, <1>8, <1>11
    <2>2. CASE j \in 1..m
        BY <1>7, <1>8, <1>11, <2>1, <2>2 DEF GovernanceInv
    <2>3. CASE j = m + 1
        <3>1. shown'[i].recsAt \in 0..Len(stream)
            BY <1>10 DEF SoundAt
        <3> QED BY <1>2, <1>5, <1>8, <2>3, <3>1
    <2> QED BY <1>8, <2>2, <2>3
<1> QED BY <1>1, <1>2, <1>9, <1>10, <1>11 DEF GovernanceInv

\* Whatever is appended between the two compilations of a call and between calls:
\* a call warns of exactly what the rules it read ask for in the events it read,
\* a warning keeps its id while its rule stands, newer advice goes before older of
\* its kind, and the timeline tells every event that advice rests on.
THEOREM GovernanceWarns ==
    ASSUME GovernanceAssumption
    PROVE  GSpec => []GovernanceSound
<1>1. GInit => GovernanceInv
    BY DEF GInit, GovernanceInv
<1>2. GovernanceInv /\ [GNext]_gvars => GovernanceInv'
    <2> SUFFICES ASSUME GovernanceInv, [GNext]_gvars PROVE GovernanceInv'
        OBVIOUS
    <2>1. CASE UNCHANGED gvars
        BY <2>1 DEF GovernanceInv, gvars, Idle
    <2>2. ASSUME NEW e \in EventMenu, Append1(e) PROVE GovernanceInv'
        BY <2>2, AppendKeepsGovernance
    <2>3. CASE ReadRules
        BY <2>3, ReadKeepsGovernance
    <2>4. CASE Show
        BY <2>4, ShowKeepsGovernance
    <2> QED BY <2>1, <2>2, <2>3, <2>4 DEF GNext
<1>3. GovernanceInv => GovernanceSound
    <2> SUFFICES ASSUME GovernanceInv PROVE GovernanceSound
        OBVIOUS
    <2>1. stream \in Seq(EventMenu) /\ \A i \in DOMAIN shown : SoundAt(shown[i], stream)
        BY DEF GovernanceInv
    <2>2. WarningsExact
        BY <2>1, ShownIsDue DEF WarningsExact
    <2>3. WarningsPersist
        <3> SUFFICES ASSUME NEW i \in DOMAIN shown, NEW j \in DOMAIN shown, i < j, ~ shown[j].failed,
                            NEW w \in shown[i].warnings, w.rule \in shown[j].rules
                     PROVE  \E v \in shown[j].warnings : v.id = w.id
            BY DEF WarningsPersist
        <3>1. shown[i].recsAt <= shown[j].recsAt
            BY DEF GovernanceInv
        <3>2. SoundAt(shown[i], stream) /\ SoundAt(shown[j], stream)
            BY <2>1
        <3> QED BY <2>1, <3>1, <3>2, ShownAgain
    <2> QED BY <2>1, <2>2, <2>3, NewerFirst, AdviceIsNarrated DEF GovernanceSound
<1> QED BY <1>1, <1>2, <1>3, PTL DEF GSpec

-----------------------------------------------------------------------------
(* The search for cycles of the projection registry *)

\* What a call of the walk answers
Answer == [ok : BOOLEAN, visited : SUBSET Projections]

\* Dependencies and ids as the registry has them
Sources(deps, ids) ==
    /\ IsFiniteSet(Projections) /\ ids \in SUBSET Projections
    /\ deps \in [Projections -> Seq(ProjectionDependency)]

\* a call that call makes
Deeper(call, n, v) == [node |-> n, path |-> call.path \cup {call.node}, visited |-> v]

\* the node itself is visited before its dependencies
Entered(call) == [ok |-> TRUE, visited |-> call.visited \cup {call.node}]

\* f is what the recursion of Examined says, up to m
ExaminedFold(f, m, walk, call, ds, ids) ==
    f = [i \in 0..m |-> IF i = 0 THEN [ok |-> TRUE, visited |-> call.visited \cup {call.node}]
                        ELSE Examine(walk, call, f[i - 1], ds[i], ids)]

\* The loop over the dependencies of a node, one at a time.
LEMMA ExaminedIs ==
    ASSUME NEW T, NEW ds \in Seq(T), NEW walk, NEW call, NEW ids
    PROVE  /\ Examined(walk, call, ds, ids)[0] = Entered(call)
           /\ \A i \in 1..Len(ds) :
                 Examined(walk, call, ds, ids)[i] =
                     Examine(walk, call, Examined(walk, call, ds, ids)[i - 1], ds[i], ids)
<1> DEFINE first == Entered(call)
           Bad == {k \in 0..Len(ds) : ~\E f : ExaminedFold(f, k, walk, call, ds, ids)}
<1>1. ASSUME Bad # {} PROVE FALSE
    <2>1. Bad \subseteq Nat
        OBVIOUS
    <2>2. PICK k \in Bad : \A j \in Bad : k <= j
        BY <1>1, <2>1, LeastOf
    <2>3. CASE k = 0
        <3>1. ExaminedFold([i \in 0..0 |-> first], 0, walk, call, ds, ids)
            BY DEF ExaminedFold, Entered
        <3> QED BY <2>3, <3>1
    <2>4. CASE k # 0
        <3>1. k - 1 \in 0..Len(ds) /\ k - 1 \notin Bad
            BY <2>2, <2>4
        <3>2. PICK g : ExaminedFold(g, k - 1, walk, call, ds, ids)
            BY <3>1
        <3> DEFINE f == [i \in 0..k |-> IF i = k THEN Examine(walk, call, g[k - 1], ds[k], ids) ELSE g[i]]
        <3> HIDE DEF first
        <3>3. \A i \in 0..k : f[i] = IF i = 0 THEN first ELSE Examine(walk, call, f[i - 1], ds[i], ids)
            <4>1. k \in Nat /\ k > 0 /\ 0..(k - 1) \subseteq 0..k
                BY <2>1, <2>4
            <4>2. \A i \in 0..(k - 1) : g[i] = IF i = 0 THEN first ELSE Examine(walk, call, g[i - 1], ds[i], ids)
                BY <3>2 DEF ExaminedFold, first, Entered
            <4> HIDE DEF Bad
            <4>3. \A i \in 0..(k - 1) : f[i] = g[i]
                BY <4>1
            <4>4. f[k] = Examine(walk, call, f[k - 1], ds[k], ids)
                BY <4>1, <4>3
            <4> HIDE DEF f
            <4> QED BY <4>1, <4>2, <4>3, <4>4
        <3>4. ExaminedFold(f, k, walk, call, ds, ids)
            BY <3>3 DEF ExaminedFold, first, Entered
        <3> QED BY <3>4
    <2> QED BY <2>3, <2>4
<1>2. Len(ds) \in Nat /\ Len(ds) \in 0..Len(ds)
    OBVIOUS
<1>3. \E f : ExaminedFold(f, Len(ds), walk, call, ds, ids)
    BY <1>1, <1>2
<1> DEFINE h == Examined(walk, call, ds, ids)
<1>4. ExaminedFold(h, Len(ds), walk, call, ds, ids)
    BY <1>3 DEF Examined, ExaminedFold
<1> HIDE DEF h, Bad, first
<1>5. \A i \in 0..Len(ds) : h[i] = IF i = 0 THEN first ELSE Examine(walk, call, h[i - 1], ds[i], ids)
    BY <1>4 DEF ExaminedFold, first, Entered
<1>6. h[0] = first /\ \A i \in 1..Len(ds) : h[i] = Examine(walk, call, h[i - 1], ds[i], ids)
    BY <1>2, <1>5
<1> QED BY <1>6 DEF h, first

\* Two walks agree on every call one level below this one
AgreeBelow(walk, other, call) ==
    \A n \in Projections, v \in SUBSET Projections :
        /\ walk[Deeper(call, n, v)] = other[Deeper(call, n, v)]
        /\ walk[Deeper(call, n, v)] \in Answer

\* The loop depends on the deeper calls only, and answers if they do.
LEMMA SameLoop ==
    ASSUME NEW ids, NEW ds \in Seq(ProjectionDependency), NEW walk, NEW other, NEW call \in DfsCall,
           AgreeBelow(walk, other, call)
    PROVE  \A i \in 0..Len(ds) : /\ Examined(walk, call, ds, ids)[i] = Examined(other, call, ds, ids)[i]
                                 /\ Examined(walk, call, ds, ids)[i] \in Answer
<1> DEFINE a == Examined(walk, call, ds, ids)
           b == Examined(other, call, ds, ids)
           first == Entered(call)
<1>1. a[0] = first /\ \A i \in 1..Len(ds) : a[i] = Examine(walk, call, a[i - 1], ds[i], ids)
    BY ExaminedIs
<1>2. b[0] = first /\ \A i \in 1..Len(ds) : b[i] = Examine(other, call, b[i - 1], ds[i], ids)
    BY ExaminedIs
<1>3. first \in Answer
    BY DEF Answer, DfsCall, Entered
<1> HIDE DEF a, b, first
<1>4. ASSUME NEW i \in 1..Len(ds), a[i - 1] = b[i - 1], a[i - 1] \in Answer
      PROVE  a[i] = b[i] /\ a[i] \in Answer
    <2>1. ds[i] \in ProjectionDependency
        OBVIOUS
    <2>2. ds[i].id \in Projections /\ a[i - 1].visited \in SUBSET Projections
        BY <1>4, <2>1 DEF ProjectionDependency, Answer
    <2>3. a[i] = Examine(walk, call, a[i - 1], ds[i], ids) /\ b[i] = Examine(other, call, a[i - 1], ds[i], ids)
        BY <1>1, <1>2, <1>4
    <2> QED BY <1>4, <2>2, <2>3 DEF Examine, Deeper, AgreeBelow
<1> DEFINE Bad == {i \in 0..Len(ds) : ~ (a[i] = b[i] /\ a[i] \in Answer)}
<1> SUFFICES ASSUME Bad # {} PROVE FALSE
    BY DEF a, b
<1>5. Bad \subseteq Nat /\ Len(ds) \in Nat
    OBVIOUS
<1>6. PICK i \in Bad : \A j \in Bad : i <= j
    BY <1>5, LeastOf
<1>7. i # 0
    BY <1>1, <1>2, <1>3
<1>8. i \in 1..Len(ds) /\ i - 1 \in 0..Len(ds) /\ i - 1 \notin Bad
    BY <1>5, <1>6, <1>7
<1> QED BY <1>4, <1>8

\* The nodes that are not on a call's path, of which there are fewer in every deeper call
Room(call) == Cardinality(Projections \ call.path)

\* A deeper call has less room.
LEMMA LessRoom ==
    ASSUME IsFiniteSet(Projections), NEW call \in DfsCall, call.node \notin call.path,
           NEW n \in Projections, NEW v \in SUBSET Projections
    PROVE  /\ Deeper(call, n, v) \in DfsCall /\ Room(call) \in Nat /\ Room(Deeper(call, n, v)) \in Nat
           /\ Room(Deeper(call, n, v)) = Room(call) - 1
<1> DEFINE S == Projections \ call.path
<1>1. Deeper(call, n, v) \in DfsCall /\ Deeper(call, n, v).path = call.path \cup {call.node}
    BY DEF Deeper, DfsCall
<1>2. IsFiniteSet(S) /\ call.node \in S
    BY FS_Difference DEF DfsCall
<1>3. Projections \ Deeper(call, n, v).path = S \ {call.node}
    BY <1>1
<1> HIDE DEF S
<1>4. Cardinality(S \ {call.node}) = Cardinality(S) - 1 /\ IsFiniteSet(S \ {call.node})
    BY <1>2, FS_RemoveElement
<1>5. Cardinality(S) \in Nat /\ Cardinality(S \ {call.node}) \in Nat
    BY <1>2, <1>4, FS_CardinalityType
<1> QED BY <1>1, <1>3, <1>4, <1>5 DEF Room, S

\* f answers every call with room for at most k more
Answers(f, k, deps, ids) ==
    \A call \in DfsCall : Room(call) <= k => f[call] = Visit(f, call, deps, ids) /\ f[call] \in Answer


\* One call, of one walk or of another that agrees on the deeper calls.
LEMMA SameVisit ==
    ASSUME NEW deps, NEW ids, Sources(deps, ids), NEW walk, NEW other, NEW call \in DfsCall,
           call.node \notin call.path => AgreeBelow(walk, other, call)
    PROVE  Visit(walk, call, deps, ids) = Visit(other, call, deps, ids) /\ Visit(walk, call, deps, ids) \in Answer
<1>1. call.visited \in SUBSET Projections /\ call.node \in Projections
    BY DEF DfsCall
<1>2. CASE call.node \in call.path
    BY <1>1, <1>2 DEF Visit, Answer
<1>3. CASE call.node \in call.visited \ call.path
    BY <1>1, <1>3 DEF Visit, Answer
<1>4. CASE call.node \notin call.path /\ call.node \notin call.visited
    <2> DEFINE ds == deps[call.node]
    <2>1. ds \in Seq(ProjectionDependency) /\ Len(ds) \in 0..Len(ds)
        BY <1>1 DEF Sources
    <2> HIDE DEF ds
    <2>2. Examined(walk, call, ds, ids)[Len(ds)] = Examined(other, call, ds, ids)[Len(ds)]
          /\ Examined(walk, call, ds, ids)[Len(ds)] \in Answer
        BY <1>4, <2>1, SameLoop
    <2>3. ASSUME NEW w PROVE Visit(w, call, deps, ids) = Examined(w, call, ds, ids)[Len(ds)]
        BY <1>4 DEF Visit, ds
    <2> QED BY <2>2, <2>3
<1> QED BY <1>2, <1>3, <1>4

\* There is a walk that answers every call, however little room it has.
LEMMA WalkExists ==
    ASSUME NEW deps, NEW ids, Sources(deps, ids), NEW m \in Nat
    PROVE  \E f : f = [call \in DfsCall |-> f[call]] /\ Answers(f, m, deps, ids)
<1> DEFINE Found(k) == \E f : f = [call \in DfsCall |-> f[call]] /\ Answers(f, k, deps, ids)
           Bad == {k \in Nat : ~ Found(k)}
<1> SUFFICES ASSUME Bad # {} PROVE FALSE
    OBVIOUS
<1>1. PICK k \in Bad : \A j \in Bad : k <= j
    BY LeastOf
<1>2. IsFiniteSet(Projections)
    BY DEF Sources
<1>3. ASSUME NEW g, k # 0 => Answers(g, k - 1, deps, ids) PROVE FALSE
    <2> DEFINE f == [call \in DfsCall |-> Visit(g, call, deps, ids)]
    <2>1. ASSUME NEW call \in DfsCall, Room(call) <= k
          PROVE  Visit(f, call, deps, ids) = Visit(g, call, deps, ids) /\ Visit(g, call, deps, ids) \in Answer
        <3>1. ASSUME call.node \notin call.path PROVE AgreeBelow(g, f, call)
            <4> SUFFICES ASSUME NEW n \in Projections, NEW v \in SUBSET Projections
                         PROVE  g[Deeper(call, n, v)] = f[Deeper(call, n, v)] /\ g[Deeper(call, n, v)] \in Answer
                BY DEF AgreeBelow
            <4>1. /\ Deeper(call, n, v) \in DfsCall /\ Room(Deeper(call, n, v)) = Room(call) - 1
                  /\ Room(Deeper(call, n, v)) \in Nat /\ Room(call) \in Nat
                BY <1>2, <3>1, LessRoom
            <4>2. k # 0 /\ Room(Deeper(call, n, v)) <= k - 1
                BY <2>1, <4>1
            <4> QED BY <1>3, <4>1, <4>2 DEF Answers
        <3> HIDE DEF f
        <3> QED BY <3>1, SameVisit
    <2>2. f = [call \in DfsCall |-> f[call]]
        OBVIOUS
    <2>3. Answers(f, k, deps, ids)
        BY <2>1 DEF Answers
    <2> QED BY <2>2, <2>3
<1>4. CASE k = 0
    BY <1>3, <1>4
<1>5. CASE k # 0
    <2>1. k - 1 \in Nat /\ k - 1 \notin Bad
        BY <1>1, <1>5
    <2> QED BY <1>3, <2>1
<1> QED BY <1>4, <1>5

\* The recursion of _dfs ends: every call has the answer of one visit.
LEMMA DfsIs ==
    ASSUME NEW deps, NEW ids, Sources(deps, ids)
    PROVE  \A call \in DfsCall : Dfs(deps, ids)[call] = Visit(Dfs(deps, ids), call, deps, ids)
<1> DEFINE m == Cardinality(Projections)
<1>1. m \in Nat /\ IsFiniteSet(Projections)
    BY FS_CardinalityType DEF Sources
<1>2. \A call \in DfsCall : Room(call) <= m
    BY <1>1, FS_Subset DEF Room
<1> HIDE DEF m
<1>3. PICK f : f = [call \in DfsCall |-> f[call]] /\ Answers(f, m, deps, ids)
    BY <1>1, WalkExists
<1>4. f = [call \in DfsCall |-> Visit(f, call, deps, ids)]
    BY <1>2, <1>3 DEF Answers
<1> DEFINE walk == Dfs(deps, ids)
<1>5. walk = [call \in DfsCall |-> Visit(walk, call, deps, ids)]
    BY <1>4 DEF Dfs
<1> HIDE DEF walk
<1>6. \A call \in DfsCall : walk[call] = Visit(walk, call, deps, ids)
    BY <1>5
<1> QED BY <1>6 DEF walk


\* Of the visited nodes those that are not on the path are finished: they need
\* finished nodes only, and no set of them is a cycle.
Settled(V, P, deps, ids) ==
    /\ V \subseteq ids
    /\ \A p \in V \ P : Needs(deps, p) \cap ids \subseteq V \ P
    /\ \A S \in SUBSET (V \ P) : ~ Cyclic(deps, S)

\* What an answer promises: without an exception everything visited is settled
SoundAnswer(r, call, deps, ids) ==
    r.ok => /\ call.visited \subseteq r.visited /\ call.node \in r.visited \ call.path
            /\ Settled(r.visited, call.path, deps, ids)

\* the deeper calls that a call may make answer, and truly
SoundBelow(walk, call, deps, ids) ==
    \A n \in ids, v \in SUBSET Projections :
        Settled(v, call.path \cup {call.node}, deps, ids) =>
            SoundAnswer(walk[Deeper(call, n, v)], Deeper(call, n, v), deps, ids)

\* after m dependencies: the node and they are visited, and they are finished
LoopAnswer(r, m, ds, call, deps, ids) ==
    LET P == call.path \cup {call.node} IN
    r.ok => /\ call.visited \cup {call.node} \subseteq r.visited /\ Settled(r.visited, P, deps, ids)
            /\ \A j \in 1..m : ds[j].id \in ids => ds[j].id \in r.visited \ P

\* The loop over the dependencies leaves them finished.
LEMMA LoopSound ==
    ASSUME NEW deps, NEW ids, Sources(deps, ids), NEW walk, NEW call \in DfsCall, call.node \in ids,
           call.node \notin call.path, call.node \notin call.visited,
           Settled(call.visited, call.path, deps, ids),
           AgreeBelow(walk, walk, call), SoundBelow(walk, call, deps, ids),
           NEW ds \in Seq(ProjectionDependency), NEW m \in 0..Len(ds)
    PROVE  LoopAnswer(Examined(walk, call, ds, ids)[m], m, ds, call, deps, ids)
<1> DEFINE done == Examined(walk, call, ds, ids)
           P == call.path \cup {call.node}
           Inv(i) == done[i].ok => /\ call.visited \cup {call.node} \subseteq done[i].visited
                                   /\ Settled(done[i].visited, P, deps, ids)
                                   /\ \A j \in 1..i : ds[j].id \in ids => ds[j].id \in done[i].visited \ P
           Bad == {i \in 0..Len(ds) : ~ Inv(i)}
<1>1. done[0] = Entered(call) /\ \A i \in 1..Len(ds) : done[i] = Examine(walk, call, done[i - 1], ds[i], ids)
    BY ExaminedIs
<1>2. \A i \in 0..Len(ds) : done[i] \in Answer
    BY SameLoop
<1> HIDE DEF done
<1>3. Inv(0)
    <2>1. done[0].visited = call.visited \cup {call.node}
        BY <1>1 DEF Entered
    <2>2. (call.visited \cup {call.node}) \ P = call.visited \ call.path
        OBVIOUS
    <2>3. Settled(call.visited \cup {call.node}, P, deps, ids)
        BY <2>2 DEF Settled
    <2> QED BY <2>1, <2>3
<1>4. ASSUME NEW i \in 1..Len(ds), Inv(i - 1) PROVE Inv(i)
    <2> DEFINE old == done[i - 1]
               d == ds[i].id
               deeper == Deeper(call, d, old.visited)
    <2> SUFFICES ASSUME done[i].ok PROVE Inv(i)
        OBVIOUS
    <2>1. done[i] = Examine(walk, call, old, ds[i], ids) /\ i - 1 \in 0..Len(ds) /\ i \in Nat
        BY <1>1
    <2>2. old.visited \in SUBSET Projections /\ 1..i = (1..(i - 1)) \cup {i}
        BY <1>2, <2>1 DEF Answer
    <2>3. CASE ~ old.ok
        BY <2>1, <2>3 DEF Examine
    <2>4. CASE old.ok /\ d \notin ids
        <3>1. done[i] = old
            BY <2>1, <2>4 DEF Examine
        <3> QED BY <1>4, <2>2, <2>4, <3>1
    <2>5. CASE old.ok /\ d \in ids
        <3>1. done[i] = walk[deeper]
            BY <2>1, <2>5 DEF Examine, Deeper
        <3>2. Settled(old.visited, P, deps, ids) /\ call.visited \cup {call.node} \subseteq old.visited
              /\ \A j \in 1..(i - 1) : ds[j].id \in ids => ds[j].id \in old.visited \ P
            BY <1>4, <2>5
        <3>3. SoundAnswer(walk[deeper], deeper, deps, ids)
            BY <2>2, <2>5, <3>2 DEF SoundBelow
        <3>4. deeper.visited = old.visited /\ deeper.path = P /\ deeper.node = d
            BY DEF Deeper
        <3> HIDE DEF deeper, old, P
        <3>5. old.visited \subseteq done[i].visited /\ d \in done[i].visited \ P /\ Settled(done[i].visited, P, deps, ids)
            BY <3>1, <3>3, <3>4 DEF SoundAnswer
        <3>6. \A j \in 1..i : ds[j].id \in ids => ds[j].id \in done[i].visited \ P
            BY <2>2, <3>2, <3>5
        <3> QED BY <3>2, <3>5, <3>6
    <2> QED BY <2>3, <2>4, <2>5
<1> HIDE DEF Inv
<1>5. ASSUME Bad # {} PROVE FALSE
    <2>1. Bad \subseteq Nat /\ Len(ds) \in Nat
        OBVIOUS
    <2>2. PICK i \in Bad : \A j \in Bad : i <= j
        BY <1>5, <2>1, LeastOf
    <2>3. i # 0
        BY <1>3
    <2>4. i \in 1..Len(ds) /\ i - 1 \in 0..Len(ds) /\ i - 1 \notin Bad
        BY <2>1, <2>2, <2>3
    <2> QED BY <1>4, <2>4
<1>6. Inv(m)
    BY <1>5
<1> QED BY <1>6 DEF Inv, done, LoopAnswer

\* A node whose dependencies are finished may be finished itself.
LEMMA NodeFinished ==
    ASSUME NEW deps, NEW ids, NEW V, NEW P, NEW n \in V, n \notin P, Settled(V, P \cup {n}, deps, ids),
           Needs(deps, n) \cap ids \subseteq V \ (P \cup {n})
    PROVE  Settled(V, P, deps, ids)
<1>1. V \ P = (V \ (P \cup {n})) \cup {n}
    OBVIOUS
<1>2. \A p \in V \ P : Needs(deps, p) \cap ids \subseteq V \ (P \cup {n})
    BY <1>1 DEF Settled
<1>3. ASSUME NEW S \in SUBSET (V \ P), Cyclic(deps, S) PROVE FALSE
    <2> DEFINE R == S \ {n}
    <2>1. S \subseteq ids /\ S # {} /\ \A p \in S : Needs(deps, p) \cap S # {}
        BY <1>3 DEF Settled, Cyclic
    <2>2. \A p \in S : Needs(deps, p) \cap R # {}
        BY <1>2, <2>1
    <2>3. R # {} /\ R \in SUBSET (V \ (P \cup {n}))
        BY <1>1, <2>1, <2>2
    <2>4. Cyclic(deps, R)
        BY <2>2, <2>3 DEF Cyclic
    <2> QED BY <2>3, <2>4 DEF Settled
<1> QED BY <1>2, <1>3 DEF Settled

\* A call of _dfs that returns has finished its node.
LEMMA DfsSound ==
    ASSUME NEW deps, NEW ids, Sources(deps, ids), NEW c \in DfsCall, c.node \in ids,
           Settled(c.visited, c.path, deps, ids)
    PROVE  Dfs(deps, ids)[c] \in Answer /\ SoundAnswer(Dfs(deps, ids)[c], c, deps, ids)
<1> DEFINE walk == Dfs(deps, ids)
           Holds(call) == /\ walk[call] \in Answer
                          /\ call.node \in ids /\ Settled(call.visited, call.path, deps, ids) =>
                                 SoundAnswer(walk[call], call, deps, ids)
           Bad == {k \in Nat : \E call \in DfsCall : Room(call) = k /\ ~ Holds(call)}
<1>1. \A call \in DfsCall : walk[call] = Visit(walk, call, deps, ids)
    BY DfsIs
<1>2. IsFiniteSet(Projections) /\ ids \in SUBSET Projections /\ \A call \in DfsCall : Room(call) \in Nat
    BY FS_Difference, FS_CardinalityType DEF Sources, Room
<1> HIDE DEF walk
<1>3. ASSUME NEW call \in DfsCall,
             \A n \in Projections, v \in SUBSET Projections :
                 call.node \notin call.path => Holds(Deeper(call, n, v))
      PROVE  Holds(call)
    <2>1. call.node \notin call.path => AgreeBelow(walk, walk, call)
        BY <1>3 DEF AgreeBelow
    <2>2. walk[call] \in Answer
        BY <1>1, <2>1, SameVisit
    <2> SUFFICES ASSUME call.node \in ids, Settled(call.visited, call.path, deps, ids), walk[call].ok
                 PROVE  SoundAnswer(walk[call], call, deps, ids)
        BY <2>2 DEF SoundAnswer
    <2>3. call.node \notin call.path
        <3>1. ASSUME call.node \in call.path PROVE FALSE
            <4>1. Visit(walk, call, deps, ids) = [ok |-> FALSE, visited |-> call.visited]
                BY <3>1 DEF Visit
            <4>2. walk[call].ok = FALSE
                BY <1>1, <4>1
            <4> QED BY <4>2
        <3> QED BY <3>1
    <2>4. CASE call.node \in call.visited
        <3>1. walk[call].visited = call.visited
            <4>1. Visit(walk, call, deps, ids) = [ok |-> TRUE, visited |-> call.visited]
                BY <2>3, <2>4 DEF Visit
            <4> QED BY <1>1, <4>1
        <3> QED BY <2>3, <2>4, <3>1 DEF SoundAnswer
    <2>5. CASE call.node \notin call.visited
        <3> DEFINE ds == deps[call.node]
                   P == call.path \cup {call.node}
        <3>1. ds \in Seq(ProjectionDependency) /\ Len(ds) \in 0..Len(ds) /\ DOMAIN ds = 1..Len(ds)
            BY DEF Sources, DfsCall
        <3>2. walk[call] = Examined(walk, call, ds, ids)[Len(ds)]
            BY <1>1, <2>3, <2>5 DEF Visit
        <3>3. SoundBelow(walk, call, deps, ids)
            <4> SUFFICES ASSUME NEW n \in ids, NEW v \in SUBSET Projections, Settled(v, P, deps, ids)
                         PROVE  SoundAnswer(walk[Deeper(call, n, v)], Deeper(call, n, v), deps, ids)
                BY DEF SoundBelow
            <4>1. Deeper(call, n, v).node = n /\ Deeper(call, n, v).path = P /\ Deeper(call, n, v).visited = v
                BY DEF Deeper
            <4> QED BY <1>2, <1>3, <2>3, <4>1
        <3> HIDE DEF ds
        <3>4. /\ call.visited \cup {call.node} \subseteq walk[call].visited
              /\ Settled(walk[call].visited, P, deps, ids)
              /\ \A j \in 1..Len(ds) : ds[j].id \in ids => ds[j].id \in walk[call].visited \ P
            <4>1. AgreeBelow(walk, walk, call)
                BY <2>1, <2>3
            <4>2. LoopAnswer(Examined(walk, call, ds, ids)[Len(ds)], Len(ds), ds, call, deps, ids)
                BY <2>3, <2>5, <3>1, <3>3, <4>1, LoopSound
            <4> QED BY <3>2, <4>2 DEF LoopAnswer
        <3>5. Needs(deps, call.node) \cap ids \subseteq walk[call].visited \ P
            BY <3>1, <3>4 DEF Needs, ds
        <3>6. Settled(walk[call].visited, call.path, deps, ids)
            BY <2>3, <3>4, <3>5, NodeFinished
        <3> QED BY <2>3, <3>4, <3>6 DEF SoundAnswer
    <2> QED BY <2>4, <2>5
<1> HIDE DEF Holds
<1>4. ASSUME Bad # {} PROVE FALSE
    <2>1. PICK k \in Bad : \A j \in Bad : k <= j
        <3>1. Bad \subseteq Nat
            OBVIOUS
        <3> QED BY <1>4, <3>1, LeastOf
    <2>2. PICK call \in DfsCall : Room(call) = k /\ ~ Holds(call)
        OBVIOUS
    <2>3. ASSUME NEW n \in Projections, NEW v \in SUBSET Projections, call.node \notin call.path
          PROVE  Holds(Deeper(call, n, v))
        <3>1. Deeper(call, n, v) \in DfsCall /\ Room(Deeper(call, n, v)) = k - 1 /\ k - 1 \in Nat
            BY <1>2, <2>2, <2>3, LessRoom
        <3>2. k - 1 \notin Bad
            BY <2>1, <3>1
        <3> QED BY <3>1, <3>2
    <2> QED BY <1>3, <2>2, <2>3
<1>5. Holds(c)
    BY <1>2, <1>4
<1> QED BY <1>5 DEF Holds, walk


\* the walk from one more root
FromRoot(done, root, deps, ids) ==
    IF ~ done.ok THEN done ELSE Dfs(deps, ids)[[node |-> root, path |-> {}, visited |-> done.visited]]

\* f is what the recursion of Walked says, up to m
WalkedFold(f, m, roots, deps, ids) ==
    f = [i \in 0..m |-> IF i = 0 THEN [ok |-> TRUE, visited |-> {}]
                        ELSE FromRoot(f[i - 1], roots[i], deps, ids)]

\* The loop over the registered projections, one at a time.
LEMMA WalkedIs ==
    ASSUME NEW T, NEW roots \in Seq(T), NEW deps, NEW ids
    PROVE  /\ Walked(roots, deps, ids)[0].ok /\ Walked(roots, deps, ids)[0].visited = {}
           /\ \A i \in 1..Len(roots) :
                 Walked(roots, deps, ids)[i] = FromRoot(Walked(roots, deps, ids)[i - 1], roots[i], deps, ids)
<1> DEFINE first == [ok |-> TRUE, visited |-> {}]
           Bad == {k \in 0..Len(roots) : ~\E f : WalkedFold(f, k, roots, deps, ids)}
<1>1. ASSUME Bad # {} PROVE FALSE
    <2>1. Bad \subseteq Nat
        OBVIOUS
    <2>2. PICK k \in Bad : \A j \in Bad : k <= j
        BY <1>1, <2>1, LeastOf
    <2>3. CASE k = 0
        <3>1. WalkedFold([i \in 0..0 |-> first], 0, roots, deps, ids)
            BY DEF WalkedFold
        <3> QED BY <2>3, <3>1
    <2>4. CASE k # 0
        <3>1. k - 1 \in 0..Len(roots) /\ k - 1 \notin Bad
            BY <2>2, <2>4
        <3>2. PICK g : WalkedFold(g, k - 1, roots, deps, ids)
            BY <3>1
        <3> DEFINE f == [i \in 0..k |-> IF i = k THEN FromRoot(g[k - 1], roots[k], deps, ids) ELSE g[i]]
        <3> HIDE DEF first
        <3>3. \A i \in 0..k : f[i] = IF i = 0 THEN first ELSE FromRoot(f[i - 1], roots[i], deps, ids)
            <4>1. k \in Nat /\ k > 0 /\ 0..(k - 1) \subseteq 0..k
                BY <2>1, <2>4
            <4>2. \A i \in 0..(k - 1) : g[i] = IF i = 0 THEN first ELSE FromRoot(g[i - 1], roots[i], deps, ids)
                BY <3>2 DEF WalkedFold, first
            <4> HIDE DEF Bad
            <4>3. \A i \in 0..(k - 1) : f[i] = g[i]
                BY <4>1
            <4>4. f[k] = FromRoot(f[k - 1], roots[k], deps, ids)
                BY <4>1, <4>3
            <4> HIDE DEF f
            <4> QED BY <4>1, <4>2, <4>3, <4>4
        <3>4. WalkedFold(f, k, roots, deps, ids)
            BY <3>3 DEF WalkedFold, first
        <3> QED BY <3>4
    <2> QED BY <2>3, <2>4
<1>2. Len(roots) \in Nat /\ Len(roots) \in 0..Len(roots)
    OBVIOUS
<1>3. \E f : WalkedFold(f, Len(roots), roots, deps, ids)
    BY <1>1, <1>2
<1> DEFINE h == Walked(roots, deps, ids)
<1>4. WalkedFold(h, Len(roots), roots, deps, ids)
    BY <1>3 DEF Walked, WalkedFold, FromRoot
<1> HIDE DEF h, Bad
<1>5. \A i \in 0..Len(roots) : h[i] = IF i = 0 THEN first ELSE FromRoot(h[i - 1], roots[i], deps, ids)
    BY <1>4 DEF WalkedFold
<1> HIDE DEF first
<1>6. h[0] = first /\ \A i \in 1..Len(roots) : h[i] = FromRoot(h[i - 1], roots[i], deps, ids)
    BY <1>2, <1>5
<1>7. h[0].ok /\ h[0].visited = {}
    BY <1>6 DEF first
<1> QED BY <1>6, <1>7 DEF h

\* what holds after i roots, unless a cycle was found
RootsSettled(r, i, roots, deps, ids) ==
    r.ok => /\ r.visited \in SUBSET Projections /\ Settled(r.visited, {}, deps, ids)
            /\ \A j \in 1..i : roots[j] \in r.visited

\* Walked to the end, every root is finished.
LEMMA WalkedSound ==
    ASSUME NEW deps, NEW ids, Sources(deps, ids), NEW roots \in Seq(ids), NEW m \in 0..Len(roots)
    PROVE  RootsSettled(Walked(roots, deps, ids)[m], m, roots, deps, ids)
<1> DEFINE done == Walked(roots, deps, ids)
           Bad == {i \in 0..Len(roots) : ~ RootsSettled(done[i], i, roots, deps, ids)}
<1>1. /\ done[0].ok /\ done[0].visited = {}
      /\ \A i \in 1..Len(roots) : done[i] = FromRoot(done[i - 1], roots[i], deps, ids)
    BY WalkedIs
<1> HIDE DEF done
<1>2. RootsSettled(done[0], 0, roots, deps, ids)
    <2>1. Settled({}, {}, deps, ids)
        BY DEF Settled, Cyclic
    <2> QED BY <1>1, <2>1 DEF RootsSettled
<1>3. ASSUME NEW i \in 1..Len(roots), RootsSettled(done[i - 1], i - 1, roots, deps, ids)
      PROVE  RootsSettled(done[i], i, roots, deps, ids)
    <2> DEFINE old == done[i - 1]
               c == [node |-> roots[i], path |-> {}, visited |-> old.visited]
    <2>1. done[i] = FromRoot(old, roots[i], deps, ids) /\ 1..i = (1..(i - 1)) \cup {i}
        BY <1>1
    <2> SUFFICES ASSUME done[i].ok PROVE RootsSettled(done[i], i, roots, deps, ids)
        BY DEF RootsSettled
    <2>2. old.ok /\ done[i] = Dfs(deps, ids)[c]
        BY <2>1 DEF FromRoot
    <2>3. /\ old.visited \in SUBSET Projections /\ Settled(old.visited, {}, deps, ids)
          /\ \A j \in 1..(i - 1) : roots[j] \in old.visited
        BY <1>3, <2>2 DEF RootsSettled
    <2>4. roots[i] \in ids /\ ids \in SUBSET Projections
        BY DEF Sources
    <2>5. c \in DfsCall /\ c.node = roots[i] /\ c.path = {} /\ c.visited = old.visited
        BY <2>3, <2>4 DEF DfsCall
    <2> HIDE DEF c, old
    <2>6. done[i] \in Answer /\ SoundAnswer(done[i], c, deps, ids)
        BY <2>2, <2>3, <2>4, <2>5, DfsSound
    <2>7. /\ old.visited \subseteq done[i].visited /\ roots[i] \in done[i].visited
          /\ Settled(done[i].visited, {}, deps, ids) /\ done[i].visited \in SUBSET Projections
        BY <2>5, <2>6 DEF SoundAnswer, Answer
    <2> QED BY <2>1, <2>3, <2>7 DEF RootsSettled
<1>4. ASSUME Bad # {} PROVE FALSE
    <2>1. Bad \subseteq Nat /\ Len(roots) \in Nat
        OBVIOUS
    <2>2. PICK i \in Bad : \A j \in Bad : i <= j
        BY <1>4, <2>1, LeastOf
    <2>3. i # 0
        BY <1>2
    <2>4. i \in 1..Len(roots) /\ i - 1 \in 0..Len(roots) /\ i - 1 \notin Bad
        BY <2>1, <2>2, <2>3
    <2> QED BY <1>3, <2>4
<1> QED BY <1>4 DEF done

\* An enumeration of a finite set lists all of it.
LEMMA SetToSeqListsAll ==
    ASSUME NEW S, IsFiniteSet(S), NEW x \in S
    PROVE  \E i \in 1..Len(SetToSeq(S)) : SetToSeq(S)[i] = x
<1> DEFINE n == Cardinality(S)
           q == SetToSeq(S)
<1>1. n \in Nat /\ ExistsBijection(1..n, S)
    BY FS_CardinalityType
<1>2. PICK f \in [1..n -> S] : IsInjective(f)
    BY <1>1 DEF ExistsBijection, Bijection, Injection
<1>3. q \in [1..n -> S] /\ IsInjective(q)
    BY <1>2 DEF SetToSeq
<1> HIDE DEF n, q
<1>4. q \in Injection(1..n, S)
    BY <1>3 DEF Injection
<1>5. Cardinality(1..n) = n
    BY <1>1, FS_Interval
<1>6. q \in Surjection(1..n, S)
    BY <1>4, <1>5, FS_Injection DEF n
<1>7. \E i \in 1..n : q[i] = x
    BY <1>6 DEF Surjection
<1>8. Len(q) = n
    BY <1>1, <1>3
<1> QED BY <1>7, <1>8 DEF q

\* What passes the search has no cycle, in whatever order the search goes.
LEMMA AcyclicIsSound ==
    ASSUME Sources(dependencies, registered), Acyclic, NEW S \in SUBSET registered
    PROVE  ~ Cyclic(dependencies, S)
<1> DEFINE roots == SetToSeq(registered)
           last == Walked(roots, dependencies, registered)[Len(roots)]
<1>1. IsFiniteSet(registered)
    BY FS_Subset DEF Sources
<1>2. roots \in Seq(registered)
    BY <1>1, SetToSeqType
<1>3. \A x \in registered : \E i \in 1..Len(roots) : roots[i] = x
    BY <1>1, SetToSeqListsAll
<1>4. last.ok
    BY DEF Acyclic
<1> HIDE DEF roots
<1>5. Len(roots) \in 0..Len(roots)
    BY <1>2
<1>6. RootsSettled(last, Len(roots), roots, dependencies, registered)
    BY <1>2, <1>5, WalkedSound
<1> HIDE DEF last
<1>7. Settled(last.visited, {}, dependencies, registered) /\ registered \subseteq last.visited
    BY <1>3, <1>4, <1>6 DEF RootsSettled
<1> QED BY <1>7 DEF Settled

\* Between calls nothing is left BUILDING, whatever failed at whatever depth of
\* the recursion, a returned state holds everything committed before the call
\* began, and a registry that was frozen has no cycle, for any projections and
\* dependencies (projection_platform/compiler.py:40-125, registry.py:52-96).
THEOREM CompilerKeepsPromises ==
    ASSUME CompilerAssumption
    PROVE  PSpec => []CompilerSound
<1>1. PInit => FrozenIsAcyclic
    BY DEF PInit, FrozenIsAcyclic
<1>2. CompilerInv /\ FrozenIsAcyclic /\ [PNext]_pvars => FrozenIsAcyclic'
    <2> SUFFICES ASSUME CompilerInv, FrozenIsAcyclic, [PNext]_pvars PROVE FrozenIsAcyclic'
        OBVIOUS
    <2>1. CASE UNCHANGED <<dependencies, registered, frozen>>
        BY <2>1 DEF FrozenIsAcyclic
    <2>2. ASSUME NEW p \in Projections, Register(p) PROVE FrozenIsAcyclic'
        BY <2>2 DEF Register, FrozenIsAcyclic
    <2>3. CASE Freeze
        <3>1. Sources(dependencies, registered)
            BY DEF Sources, CompilerInv, CompilerTypes, CompilerAssumption
        <3>2. Acyclic /\ dependencies' = dependencies /\ registered' = registered
            BY <2>3 DEF Freeze
        <3>3. \A S \in SUBSET registered : ~ Cyclic(dependencies, S)
            BY <3>1, <3>2, AcyclicIsSound
        <3> QED BY <3>2, <3>3 DEF FrozenIsAcyclic
    <2> QED BY <2>1, <2>2, <2>3 DEF PNext, pvars, Compile, CompileAll, CompilerStep, CompileNext, NextDependency,
                                    LoadSnapshot, ReadLatest, ReadEvents, SaveSnapshot, AppendEvent, LegacySnapshot
<1>3. CompilerInv /\ FrozenIsAcyclic => CompilerSound
    BY DEF CompilerSound, CompilerInv, CompilerTypes, BuildingOnStack, SettledWhenIdle, ProjectionHealth
<1> QED BY <1>1, <1>2, <1>3, CompilerInvHolds, PTL DEF PSpec

-----------------------------------------------------------------------------
(* Context packages *)

\* Of two items one is ahead of the other, and then fewer are ahead of it.
LEMMA AheadCounts ==
    ASSUME NEW n \in Nat, NEW key \in [1..n -> Int]
    PROVE  /\ \A i \in 1..n : IsFiniteSet(Ahead(key, i)) /\ Cardinality(Ahead(key, i)) \in 0..n - 1
           /\ \A i, j \in 1..n : j \in Ahead(key, i) => Cardinality(Ahead(key, j)) < Cardinality(Ahead(key, i))
           /\ \A i, j \in 1..n : i # j => i \in Ahead(key, j) \/ j \in Ahead(key, i)
<1>1. ASSUME NEW i \in 1..n
      PROVE  IsFiniteSet(Ahead(key, i)) /\ Cardinality(Ahead(key, i)) \in 0..n - 1
    <2>1. IsFiniteSet(1..n) /\ Cardinality(1..n) = n
        BY FS_Interval
    <2>2. Ahead(key, i) \in SUBSET (1..n) /\ i \notin Ahead(key, i)
        BY DEF Ahead
    <2>3. /\ IsFiniteSet(Ahead(key, i)) /\ Cardinality(Ahead(key, i)) <= n
          /\ Cardinality(Ahead(key, i)) # n
        BY <2>1, <2>2, FS_Subset
    <2>4. Cardinality(Ahead(key, i)) \in Nat
        BY <2>3, FS_CardinalityType
    <2> QED BY <2>3, <2>4
<1>2. ASSUME NEW i \in 1..n, NEW j \in 1..n, j \in Ahead(key, i)
      PROVE  Cardinality(Ahead(key, j)) < Cardinality(Ahead(key, i))
    <2>1. Ahead(key, j) \in SUBSET Ahead(key, i) /\ j \notin Ahead(key, j)
        BY <1>2 DEF Ahead
    <2>2. /\ Cardinality(Ahead(key, j)) <= Cardinality(Ahead(key, i))
          /\ Cardinality(Ahead(key, i)) # Cardinality(Ahead(key, j))
        BY <1>1, <1>2, <2>1, FS_Subset
    <2>3. Cardinality(Ahead(key, j)) \in Nat /\ Cardinality(Ahead(key, i)) \in Nat
        BY <1>1
    <2> QED BY <2>2, <2>3
<1>3. \A i, j \in 1..n : i # j => i \in Ahead(key, j) \/ j \in Ahead(key, i)
    BY DEF Ahead
<1> QED BY <1>1, <1>2, <1>3

\* Every place is taken by one item, and by a better one than any later place.
LEMMA PlacesSort ==
    ASSUME NEW n \in Nat, NEW key \in [1..n -> Int]
    PROVE  /\ \A m \in 1..n : Place(key, m) \in 1..n
           /\ \A l, m \in 1..n : l < m => key[Place(key, l)] >= key[Place(key, m)]
           /\ \A l, m \in 1..n : Place(key, l) = Place(key, m) => l = m
<1> DEFINE rank == [i \in 1..n |-> Cardinality(Ahead(key, i))]
<1>1. rank \in Injection(1..n, 0..n - 1)
    <2>1. rank \in [1..n -> 0..n - 1]
        BY AheadCounts
    <2>2. ASSUME NEW i \in 1..n, NEW j \in 1..n, i # j PROVE rank[i] # rank[j]
        <3>1. rank[i] \in 0..n - 1 /\ rank[j] \in 0..n - 1
            BY <2>1
        <3>2. rank[i] < rank[j] \/ rank[j] < rank[i]
            BY <2>2, AheadCounts
        <3> QED BY <3>1, <3>2
    <2> HIDE DEF rank
    <2> QED BY <2>1, <2>2 DEF Injection, IsInjective
<1>2. \A p \in 0..n - 1 : \E i \in 1..n : rank[i] = p
    <2>1. IsFiniteSet(0..n - 1) /\ Cardinality(0..n - 1) = n /\ Cardinality(1..n) = n
        BY FS_Interval
    <2> HIDE DEF rank
    <2>2. rank \in Surjection(1..n, 0..n - 1)
        BY <1>1, <2>1, FS_Injection
    <2> QED BY <2>2 DEF Surjection
<1>3. ASSUME NEW m \in 1..n PROVE Place(key, m) \in 1..n /\ rank[Place(key, m)] = m - 1
    <2>1. PICK i \in 1..n : rank[i] = m - 1
        BY <1>2
    <2>2. DOMAIN key = 1..n /\ Cardinality(Ahead(key, i)) = m - 1
        BY <2>1
    <2>3. Place(key, m) \in DOMAIN key /\ Cardinality(Ahead(key, Place(key, m))) = m - 1
        BY <2>2 DEF Place
    <2> QED BY <2>2, <2>3
<1>4. ASSUME NEW l \in 1..n, NEW m \in 1..n, l < m
      PROVE  key[Place(key, l)] >= key[Place(key, m)]
    <2> DEFINE i == Place(key, l)
               j == Place(key, m)
    <2>1. i \in 1..n /\ j \in 1..n /\ rank[i] = l - 1 /\ rank[j] = m - 1
        BY <1>3
    <2> HIDE DEF i, j
    <2>2. Cardinality(Ahead(key, i)) = l - 1 /\ Cardinality(Ahead(key, j)) = m - 1
        BY <2>1
    <2>3. j \notin Ahead(key, i)
        BY <1>4, <2>1, <2>2, AheadCounts
    <2>4. key[i] >= key[j]
        BY <2>1, <2>3 DEF Ahead
    <2> QED BY <2>4 DEF i, j
<1>5. ASSUME NEW l \in 1..n, NEW m \in 1..n, Place(key, l) = Place(key, m) PROVE l = m
    <2>1. rank[Place(key, l)] = l - 1 /\ rank[Place(key, m)] = m - 1
        BY <1>3
    <2>2. l - 1 = m - 1
        BY <1>5, <2>1
    <2> QED BY <2>2
<1> QED BY <1>3, <1>4, <1>5

\* A sorted sequence has the members it had, each at one place.
LEMMA BestFirstIs ==
    ASSUME NEW T, NEW s \in Seq(T), NEW key \in [1..Len(s) -> Int]
    PROVE  /\ BestFirst(s, key) \in Seq(T) /\ Len(BestFirst(s, key)) = Len(s)
           /\ \A m \in 1..Len(s) : Place(key, m) \in 1..Len(s) /\ BestFirst(s, key)[m] = s[Place(key, m)]
<1>1. \A m \in 1..Len(s) : Place(key, m) \in 1..Len(s)
    BY PlacesSort
<1>2. DOMAIN s = 1..Len(s) /\ Len(s) \in Nat /\ \A i \in 1..Len(s) : s[i] \in T
    OBVIOUS
<1>3. BestFirst(s, key) \in [1..Len(s) -> T]
    BY <1>1, <1>2 DEF BestFirst
<1>4. \A m \in 1..Len(s) : BestFirst(s, key)[m] = s[Place(key, m)]
    BY <1>2 DEF BestFirst
<1> HIDE DEF BestFirst
<1> QED BY <1>1, <1>2, <1>3, <1>4

\* s[:n] is the first n items of s, or all.
LEMMA TakeIs ==
    ASSUME NEW T, NEW s \in Seq(T), NEW n \in Nat
    PROVE  /\ Take(s, n) \in Seq(T) /\ Len(Take(s, n)) <= n /\ Len(Take(s, n)) <= Len(s) /\ Len(Take(s, n)) \in Nat
           /\ \A i \in 1..Len(Take(s, n)) : Take(s, n)[i] = s[i]
<1> DEFINE k == IF n < Len(s) THEN n ELSE Len(s)
<1>1. k \in 0..Len(s) /\ k <= n
    OBVIOUS
<1>2. Take(s, n) = SubSeq(s, 1, k)
    BY DEF Take
<1> HIDE DEF k
<1> QED BY <1>1, <1>2

CitedIds == DOMAIN Memories \cup {k.id : k \in ObjectMenu} \cup Int
Citation == [source : {"memory", "knowledge", "event"}, id : CitedIds, score : Int]

\* What a retrieval returns: citations of one source, no id twice.
Listing(r, source) ==
    /\ r \in Seq(Citation)
    /\ \A i \in 1..Len(r) : r[i].source = source
    /\ \A i, j \in 1..Len(r) : r[i].id = r[j].id => i = j

\* A cut listing is a listing.
LEMMA TakeLists ==
    ASSUME NEW r, NEW source, Listing(r, source), NEW n \in Nat
    PROVE  /\ Listing(Take(r, n), source) /\ Len(Take(r, n)) <= n
           /\ \A i \in 1..Len(Take(r, n)) : i \in 1..Len(r) /\ Take(r, n)[i] = r[i]
<1>1. r \in Seq(Citation)
    BY DEF Listing
<1>2. /\ Take(r, n) \in Seq(Citation) /\ Len(Take(r, n)) <= n /\ Len(Take(r, n)) <= Len(r) /\ Len(Take(r, n)) \in Nat
      /\ \A i \in 1..Len(Take(r, n)) : Take(r, n)[i] = r[i]
    BY <1>1, TakeIs
<1>3. \A i \in 1..Len(Take(r, n)) : i \in 1..Len(r)
    BY <1>1, <1>2
<1> QED BY <1>2, <1>3 DEF Listing

\* Memories are ranked each once.
LEMMA MemoriesListed ==
    ASSUME PackageAssumption, NEW ids \in SUBSET (DOMAIN Memories)
    PROVE  /\ Listing(RankMemories(ids), "memory")
           /\ \A i \in 1..Len(RankMemories(ids)) : RankMemories(ids)[i].id \in ids
<1> DEFINE found == SetToSeq(ids)
           key == [i \in DOMAIN found |-> Memories[found[i]].score]
           best == BestFirst(found, key)
           r == RankMemories(ids)
<1>1. IsFiniteSet(ids)
    BY FS_Subset DEF PackageAssumption
<1>2. found \in Seq(ids) /\ \A i, j \in DOMAIN found : found[i] = found[j] => i = j
    BY <1>1, SetToSeqListsOnce
<1>3. DOMAIN found = 1..Len(found) /\ Len(found) \in Nat /\ \A i \in 1..Len(found) : found[i] \in ids
    BY <1>2
<1>4. key \in [1..Len(found) -> Int]
    BY <1>3 DEF PackageAssumption
<1>5. r = [i \in DOMAIN best |-> [source |-> "memory", id |-> best[i], score |-> Memories[best[i]].score]]
    BY DEF RankMemories
<1> HIDE DEF found, key, best, r
<1>6. /\ best \in Seq(ids) /\ Len(best) = Len(found)
      /\ \A m \in 1..Len(found) : Place(key, m) \in 1..Len(found) /\ best[m] = found[Place(key, m)]
    BY <1>2, <1>4, BestFirstIs DEF best
<1>7. \A l, m \in 1..Len(found) : Place(key, l) = Place(key, m) => l = m
    BY <1>3, <1>4, PlacesSort
<1>8. DOMAIN best = 1..Len(found) /\ \A i \in 1..Len(found) : best[i] \in ids
    BY <1>3, <1>6
<1>9. ASSUME NEW i \in 1..Len(found)
      PROVE  r[i] \in Citation /\ r[i].source = "memory" /\ r[i].id = best[i] /\ r[i].id \in ids
    <2>1. r[i] = [source |-> "memory", id |-> best[i], score |-> Memories[best[i]].score] /\ best[i] \in ids
        BY <1>5, <1>8
    <2> QED BY <2>1 DEF Citation, CitedIds, PackageAssumption
<1>10. r \in Seq(Citation) /\ Len(r) = Len(found)
    <2>1. r \in [1..Len(found) -> Citation]
        BY <1>5, <1>8, <1>9
    <2> QED BY <1>3, <2>1
<1>11. \A i, j \in 1..Len(r) : r[i].id = r[j].id => i = j
    BY <1>2, <1>3, <1>6, <1>7, <1>9, <1>10
<1>12. Listing(r, "memory") /\ \A i \in 1..Len(r) : r[i].id \in ids
    BY <1>9, <1>10, <1>11 DEF Listing
<1> QED BY <1>12 DEF r

\* Events are ranked each once.
LEMMA EventsListed ==
    ASSUME NEW n \in Nat
    PROVE  Listing(RankEvents(n), "event")
<1> DEFINE r == RankEvents(n)
<1>1. r = [i \in 1 .. n |-> [source |-> "event", id |-> n + 1 - i, score |-> 50]]
    BY DEF RankEvents
<1>2. ASSUME NEW i \in 1..n
      PROVE  r[i] \in Citation /\ r[i].source = "event" /\ r[i].id = n + 1 - i
    BY <1>1 DEF Citation, CitedIds
<1>3. r \in [1..n -> Citation]
    BY <1>1, <1>2
<1> HIDE DEF r
<1>4. r \in Seq(Citation) /\ Len(r) = n
    BY <1>3
<1>5. \A i, j \in 1..n : r[i].id = r[j].id => i = j
    BY <1>2
<1>6. Listing(r, "event")
    BY <1>2, <1>4, <1>5 DEF Listing
<1> QED BY <1>6 DEF r

\* The scores of an object are integers.
LEMMA ScoresAreIntegers ==
    ASSUME PackageAssumption, NEW k \in KnowledgeObject, NEW booster
    PROVE  Hits(k) \in Int /\ KnowledgeScore(k) \in Int /\ Weighed(k, booster) \in Int
<1>1. Hits(k) \in Nat
    <2>1. IsFiniteSet(Query \cap k.words)
        BY FS_Subset DEF PackageAssumption
    <2> QED BY <2>1, FS_CardinalityType DEF Hits
<1>2. \A n \in 0..4 : Log1p(n) \in Int
    BY DEF Log1p
<1>3. /\ k.confidence \in Int /\ k.recency \in Int /\ k.contradicting \in Int
      /\ k.evidence \in 0..4 /\ k.supporting \in 0..4
    BY DEF KnowledgeObject
<1> DEFINE e == Log1p(k.evidence)
           s == Log1p(k.supporting)
           up == CASE k.importance = "critical" -> 500 [] k.importance = "high" -> 300
                   [] k.importance = "low" -> 100 [] OTHER -> 200
           down == CASE k.lifecycle = "STALE" -> 200 [] k.lifecycle = "SUPERSEDED" -> 500
                     [] k.lifecycle = "ARCHIVED" -> 1000 [] OTHER -> 0
<1>4. e \in Int /\ s \in Int
    BY <1>2, <1>3
<1>5. up \in Int /\ down \in Int
    OBVIOUS
<1>6. KnowledgeScore(k) = k.confidence + e \div 3 + k.recency + up + s - 50 * k.contradicting - down
    BY DEF KnowledgeScore
<1> HIDE DEF e, s, up, down
<1>7. KnowledgeScore(k) \in Int
    BY <1>3, <1>4, <1>5, <1>6
<1>8. Weighed(k, booster) \in Int
    BY <1>7 DEF Weighed
<1> QED BY <1>1, <1>7, <1>8

\* A set of objects in which an id stands once.
OnePerId(ks) ==
    /\ IsFiniteSet(ks) /\ ks \subseteq KnowledgeObject
    /\ \A k, l \in ks : k.id = l.id => k = l

\* Sorting keeps what is listed and lists no id twice.
LEMMA SortKeepsOnce ==
    ASSUME NEW T, NEW s \in Seq(T), NEW key \in [1..Len(s) -> Int],
           \A i, j \in 1..Len(s) : s[i].id = s[j].id => i = j
    PROVE  /\ BestFirst(s, key) \in Seq(T) /\ Len(BestFirst(s, key)) = Len(s)
           /\ \A i, j \in 1..Len(s) : BestFirst(s, key)[i].id = BestFirst(s, key)[j].id => i = j
<1>1. /\ BestFirst(s, key) \in Seq(T) /\ Len(BestFirst(s, key)) = Len(s)
      /\ \A m \in 1..Len(s) : Place(key, m) \in 1..Len(s) /\ BestFirst(s, key)[m] = s[Place(key, m)]
    BY BestFirstIs
<1>2. Len(s) \in Nat
    OBVIOUS
<1>3. \A l, m \in 1..Len(s) : Place(key, l) = Place(key, m) => l = m
    BY <1>2, PlacesSort
<1>4. ASSUME NEW i \in 1..Len(s), NEW j \in 1..Len(s), BestFirst(s, key)[i].id = BestFirst(s, key)[j].id
      PROVE  i = j
    <2>1. s[Place(key, i)].id = s[Place(key, j)].id
        BY <1>1, <1>4
    <2>2. Place(key, i) = Place(key, j)
        BY <1>1, <2>1
    <2> QED BY <1>3, <2>2
<1> QED BY <1>1, <1>4

\* What RankKnowledge sorts.
MatchesOf(own, stored) == SetToSeq(Matching(own)) \o SetToSeq(Matching(Transferable(own, stored)))

\* What matches of the own objects and of the transferable ones lists no id twice.
LEMMA MatchesListedOnce ==
    ASSUME NEW own, OnePerId(own), NEW stored, OnePerId(stored)
    PROVE  /\ MatchesOf(own, stored) \in Seq(own \cup stored)
           /\ \A i, j \in 1..Len(MatchesOf(own, stored)) :
                 MatchesOf(own, stored)[i].id = MatchesOf(own, stored)[j].id => i = j
<1> DEFINE M == Matching(own)
           N == Matching(Transferable(own, stored))
           a == SetToSeq(M)
           b == SetToSeq(N)
           s == MatchesOf(own, stored)
<1>1. M \in SUBSET own /\ N \in SUBSET stored /\ \A k \in M, l \in N : k.id # l.id
    BY DEF Matching, Transferable
<1>2. IsFiniteSet(M) /\ IsFiniteSet(N)
    BY <1>1, FS_Subset DEF OnePerId
<1> HIDE DEF M, N
<1>3. a \in Seq(M) /\ \A i, j \in DOMAIN a : a[i] = a[j] => i = j
    BY <1>2, SetToSeqListsOnce
<1>4. b \in Seq(N) /\ \A i, j \in DOMAIN b : b[i] = b[j] => i = j
    BY <1>2, SetToSeqListsOnce
<1>5. s = a \o b
    BY DEF M, N, MatchesOf
<1> HIDE DEF a, b, s
<1>6. /\ Len(a) \in Nat /\ DOMAIN a = 1..Len(a) /\ \A i \in 1..Len(a) : a[i] \in M
      /\ Len(b) \in Nat /\ DOMAIN b = 1..Len(b) /\ \A i \in 1..Len(b) : b[i] \in N
    BY <1>3, <1>4
<1>7. /\ s \in Seq(own \cup stored) /\ Len(s) = Len(a) + Len(b)
      /\ \A i \in 1..Len(s) : s[i] = IF i <= Len(a) THEN a[i] ELSE b[i - Len(a)]
    <2>1. a \in Seq(own \cup stored) /\ b \in Seq(own \cup stored)
        BY <1>1, <1>3, <1>4
    <2> QED BY <1>5, <2>1
<1>8. ASSUME NEW i \in 1..Len(s), NEW j \in 1..Len(s), s[i].id = s[j].id PROVE i = j
    <2>1. CASE i <= Len(a) /\ j <= Len(a)
        <3>1. i \in 1..Len(a) /\ j \in 1..Len(a) /\ s[i] = a[i] /\ s[j] = a[j]
            BY <1>6, <1>7, <2>1
        <3>2. a[i] \in own /\ a[j] \in own /\ a[i].id = a[j].id
            BY <1>1, <1>6, <1>8, <3>1
        <3>3. a[i] = a[j]
            BY <3>2 DEF OnePerId
        <3> QED BY <1>3, <1>6, <3>1, <3>3
    <2>2. CASE i > Len(a) /\ j > Len(a)
        <3>1. /\ i - Len(a) \in 1..Len(b) /\ j - Len(a) \in 1..Len(b)
              /\ s[i] = b[i - Len(a)] /\ s[j] = b[j - Len(a)]
            BY <1>6, <1>7, <2>2
        <3>2. s[i] \in stored /\ s[j] \in stored
            BY <1>1, <1>6, <3>1
        <3>3. s[i] = s[j]
            BY <1>8, <3>2 DEF OnePerId
        <3>4. i - Len(a) = j - Len(a)
            BY <1>4, <1>6, <3>1, <3>3
        <3> QED BY <1>6, <3>4
    <2>3. CASE i <= Len(a) /\ j > Len(a)
        <3>1. i \in 1..Len(a) /\ s[i] = a[i] /\ j - Len(a) \in 1..Len(b) /\ s[j] = b[j - Len(a)]
            BY <1>6, <1>7, <2>3
        <3> QED BY <1>1, <1>6, <1>8, <3>1
    <2>4. CASE j <= Len(a) /\ i > Len(a)
        <3>1. j \in 1..Len(a) /\ s[j] = a[j] /\ i - Len(a) \in 1..Len(b) /\ s[i] = b[i - Len(a)]
            BY <1>6, <1>7, <2>4
        <3> QED BY <1>1, <1>6, <1>8, <3>1
    <2> QED BY <1>6, <1>7, <2>1, <2>2, <2>3, <2>4
<1> QED BY <1>7, <1>8 DEF s

\* Knowledge is ranked each object once, though it is read from the store twice.
LEMMA KnowledgeListed ==
    ASSUME PackageAssumption, NEW own, OnePerId(own), NEW stored, OnePerId(stored), NEW booster
    PROVE  /\ Listing(RankKnowledge(own, stored, booster), "knowledge")
           /\ \A i \in 1..Len(RankKnowledge(own, stored, booster)) :
                 \E k \in own \cup stored : RankKnowledge(own, stored, booster)[i].id = k.id
<1> DEFINE all == own \cup stored
           found == MatchesOf(own, stored)
           hits == [i \in DOMAIN found |-> Hits(found[i])]
           hit == BestFirst(found, hits)
           weights == [i \in DOMAIN hit |-> Weighed(hit[i], booster)]
           best == BestFirst(hit, weights)
           r == RankKnowledge(own, stored, booster)
<1>1. all \in SUBSET KnowledgeObject
    BY DEF OnePerId
<1>2. r = [i \in DOMAIN best |-> [source |-> "knowledge", id |-> best[i].id, score |-> KnowledgeScore(best[i])]]
    BY DEF RankKnowledge, MatchesOf
<1>3. found \in Seq(all) /\ \A i, j \in 1..Len(found) : found[i].id = found[j].id => i = j
    BY MatchesListedOnce
<1> HIDE DEF all, found, r
<1>4. DOMAIN found = 1..Len(found) /\ Len(found) \in Nat /\ \A i \in 1..Len(found) : found[i] \in all
    BY <1>3
<1>5. hits \in [1..Len(found) -> Int]
    BY <1>1, <1>4, ScoresAreIntegers
<1> HIDE DEF hits
<1>6. /\ hit \in Seq(all) /\ Len(hit) = Len(found)
      /\ \A i, j \in 1..Len(found) : hit[i].id = hit[j].id => i = j
    BY <1>3, <1>5, SortKeepsOnce
<1> HIDE DEF hit
<1>7. DOMAIN hit = 1..Len(hit) /\ \A i \in 1..Len(hit) : hit[i] \in all
    BY <1>6
<1>8. weights \in [1..Len(hit) -> Int]
    BY <1>1, <1>7, ScoresAreIntegers
<1> HIDE DEF weights
<1>9. /\ best \in Seq(all) /\ Len(best) = Len(found)
      /\ \A i, j \in 1..Len(found) : best[i].id = best[j].id => i = j
    <2>1. \A i, j \in 1..Len(hit) : hit[i].id = hit[j].id => i = j
        BY <1>6
    <2> QED BY <1>6, <1>8, <2>1, SortKeepsOnce
<1> HIDE DEF best
<1>10. DOMAIN best = 1..Len(found) /\ \A i \in 1..Len(found) : best[i] \in all
    BY <1>4, <1>9
<1>11. ASSUME NEW i \in 1..Len(found)
       PROVE  r[i] \in Citation /\ r[i].source = "knowledge" /\ r[i].id = best[i].id /\ best[i] \in all
    <2>1. r[i] = [source |-> "knowledge", id |-> best[i].id, score |-> KnowledgeScore(best[i])]
        BY <1>2, <1>10
    <2>2. best[i] \in KnowledgeObject
        BY <1>1, <1>10
    <2>3. KnowledgeScore(best[i]) \in Int
        BY <2>2, ScoresAreIntegers
    <2>4. best[i].id \in CitedIds
        BY <2>2 DEF KnowledgeObject, CitedIds
    <2> QED BY <1>10, <2>1, <2>3, <2>4 DEF Citation
<1>12. r \in Seq(Citation) /\ Len(r) = Len(found)
    <2>1. r \in [1..Len(found) -> Citation]
        BY <1>2, <1>10, <1>11
    <2> QED BY <1>4, <2>1
<1>13. Listing(r, "knowledge") /\ \A i \in 1..Len(r) : \E k \in all : r[i].id = k.id
    BY <1>9, <1>11, <1>12 DEF Listing
<1> QED BY <1>13 DEF r, all

\* round() is at most a half away.
LEMMA RoundedNear ==
    ASSUME NEW h \in Nat
    PROVE  Rounded(h) \in Nat /\ 100 * Rounded(h) <= h + 50
<1>1. h \div 100 \in Nat /\ h % 100 \in 0..99 /\ h = 100 * (h \div 100) + (h % 100)
    OBVIOUS
<1> QED BY <1>1 DEF Rounded

\* The weights of a profile are percents and make a hundred.
LEMMA WeightsMakeHundred ==
    ASSUME NEW profile, NEW mode, NEW w, w = SourceWeights(profile, mode)
    PROVE  /\ DOMAIN w = {"event", "memory", "knowledge"}
           /\ w.event \in Nat /\ w.memory \in Nat /\ w.knowledge \in Nat
           /\ w.event + w.memory + w.knowledge = 100
BY DEF SourceWeights

\* The shares of a budget make the budget.
LEMMA SharesMakeWhole ==
    ASSUME NEW n \in Nat, NEW a \in Nat, NEW b \in Nat, NEW c \in Nat, a + b + c = 100
    PROVE  n * a + n * b + n * c = n * 100
<1>1. n * a + n * b + n * c = n * (a + b + c)
    OBVIOUS
<1> QED BY <1>1

\* The slots are natural numbers and together at most the budget.
LEMMA SlotsKeepBudget ==
    ASSUME NEW profile, NEW mode, NEW limit \in Nat, NEW slots, slots = Slots(profile, mode, limit)
    PROVE  /\ DOMAIN slots = {"event", "memory", "knowledge"}
           /\ slots.event \in Nat /\ slots.memory \in Nat /\ slots.knowledge \in Nat
           /\ slots.event + slots.memory + slots.knowledge <= limit
<1> DEFINE w == SourceWeights(profile, mode)
           f == [s \in DOMAIN w |-> Rounded(limit * w[s])]
           excess == f.event + f.memory + f.knowledge - limit
           largest == CHOOSE s \in DOMAIN f : LargestSlot(f, s)
<1>1. /\ DOMAIN w = {"event", "memory", "knowledge"}
      /\ w.event \in Nat /\ w.memory \in Nat /\ w.knowledge \in Nat
      /\ w.event + w.memory + w.knowledge = 100
    BY WeightsMakeHundred
<1>2. slots = IF excess > 0 THEN [f EXCEPT ![largest] = @ - excess] ELSE f
    BY DEF Slots
<1> HIDE DEF w
<1>3. /\ DOMAIN f = {"event", "memory", "knowledge"} /\ f.event = Rounded(limit * w.event)
      /\ f.memory = Rounded(limit * w.memory) /\ f.knowledge = Rounded(limit * w.knowledge)
    BY <1>1
<1>4. limit * w.event \in Nat /\ limit * w.memory \in Nat /\ limit * w.knowledge \in Nat
    BY <1>1
<1>5. limit * w.event + limit * w.memory + limit * w.knowledge = limit * 100
    <2> DEFINE a == w.event
               b == w.memory
               c == w.knowledge
    <2>1. a \in Nat /\ b \in Nat /\ c \in Nat /\ a + b + c = 100
        BY <1>1
    <2> HIDE DEF a, b, c
    <2>2. limit * a + limit * b + limit * c = limit * 100
        BY <2>1, SharesMakeWhole
    <2> QED BY <2>2 DEF a, b, c
<1>6. /\ f.event \in Nat /\ 100 * f.event <= limit * w.event + 50
      /\ f.memory \in Nat /\ 100 * f.memory <= limit * w.memory + 50
      /\ f.knowledge \in Nat /\ 100 * f.knowledge <= limit * w.knowledge + 50
    BY <1>3, <1>4, RoundedNear
<1>7. excess \in Int /\ excess <= 1
    <2>1. 100 * (f.event + f.memory + f.knowledge) <= limit * 100 + 150
        BY <1>4, <1>5, <1>6
    <2> QED BY <1>6, <2>1
<1>8. largest \in DOMAIN f /\ LargestSlot(f, largest)
    <2>1. \E s \in DOMAIN f : LargestSlot(f, s)
        <3> HIDE DEF f
        <3>1. CASE LargestSlot(f, "event")
            BY <1>3, <3>1
        <3>2. CASE LargestSlot(f, "memory")
            BY <1>3, <3>2
        <3>3. CASE LargestSlot(f, "knowledge")
            BY <1>3, <3>3
        <3> QED BY <1>6, <3>1, <3>2, <3>3 DEF LargestSlot
    <2> QED BY <2>1
<1> HIDE DEF f, largest
<1>9. CASE excess > 0
    <2>1. /\ largest \in {"event", "memory", "knowledge"} /\ slots = [f EXCEPT ![largest] = f[largest] - excess]
        BY <1>2, <1>3, <1>8, <1>9
    <2>2. /\ largest = "event" => f.event >= f.memory /\ f.event >= f.knowledge
          /\ largest = "memory" => f.memory >= f.event /\ f.memory >= f.knowledge
          /\ largest = "knowledge" => f.knowledge >= f.event /\ f.knowledge >= f.memory
        BY <1>6, <1>8 DEF LargestSlot
    <2>3. excess = 1 /\ f.event + f.memory + f.knowledge = limit + 1
        BY <1>6, <1>7, <1>9
    <2> HIDE DEF excess
    <2>4. CASE largest = "event"
        BY <1>3, <1>6, <2>1, <2>2, <2>3, <2>4
    <2>5. CASE largest = "memory"
        BY <1>3, <1>6, <2>1, <2>2, <2>3, <2>5
    <2>6. CASE largest = "knowledge"
        BY <1>3, <1>6, <2>1, <2>2, <2>3, <2>6
    <2> QED BY <2>1, <2>4, <2>5, <2>6
<1>10. CASE ~ (excess > 0)
    BY <1>2, <1>3, <1>6, <1>7, <1>10
<1> QED BY <1>9, <1>10

\* Memories, knowledge and events one after the other: every source has its
\* stretch, and nothing is cited twice.
Joins(s, a, b, c) ==
    /\ s \in Seq(Citation) /\ Len(a) \in Nat /\ Len(b) \in Nat /\ Len(c) \in Nat
    /\ Len(s) = Len(a) + Len(b) + Len(c)
    /\ \A p \in 1..Len(s) :
          \/ p \in 1..Len(a) /\ s[p] = a[p] /\ s[p].source = "memory"
          \/ p \in Len(a) + 1..Len(a) + Len(b) /\ s[p] = b[p - Len(a)] /\ s[p].source = "knowledge"
          \/ p \in Len(a) + Len(b) + 1..Len(s) /\ s[p] = c[p - Len(a) - Len(b)] /\ s[p].source = "event"
    /\ \A i, j \in 1..Len(s) : s[i].source = s[j].source /\ s[i].id = s[j].id => i = j

\* Listings of the three sources join.
LEMMA JoinedListings ==
    ASSUME NEW a, NEW b, NEW c, Listing(a, "memory"), Listing(b, "knowledge"), Listing(c, "event"),
           NEW s, s = a \o b \o c
    PROVE  Joins(s, a, b, c)
<1>1. a \in Seq(Citation) /\ b \in Seq(Citation) /\ c \in Seq(Citation)
    BY DEF Listing
<1>2. Len(a) \in Nat /\ Len(b) \in Nat /\ Len(c) \in Nat
    BY <1>1
<1>3. /\ a \o b \in Seq(Citation) /\ Len(a \o b) = Len(a) + Len(b)
      /\ \A p \in 1..Len(a) + Len(b) : (a \o b)[p] = IF p <= Len(a) THEN a[p] ELSE b[p - Len(a)]
    BY <1>1
<1>4. /\ s \in Seq(Citation) /\ Len(s) = Len(a) + Len(b) + Len(c)
      /\ \A p \in 1..Len(s) : s[p] = IF p <= Len(a) + Len(b) THEN (a \o b)[p] ELSE c[p - Len(a) - Len(b)]
    <2> DEFINE d == a \o b
    <2>1. d \in Seq(Citation) /\ s = d \o c
        BY <1>3
    <2> HIDE DEF d
    <2>2. /\ s \in Seq(Citation) /\ Len(s) = Len(d) + Len(c)
          /\ \A p \in 1..Len(s) : s[p] = IF p <= Len(d) THEN d[p] ELSE c[p - Len(d)]
        BY <1>1, <2>1
    <2>3. \A p \in 1..Len(s) : p - (Len(a) + Len(b)) = p - Len(a) - Len(b)
        BY <1>2, <2>2
    <2>4. Len(d) = Len(a) + Len(b)
        BY <1>3 DEF d
    <2>5. \A p \in 1..Len(s) : s[p] = IF p <= Len(a) + Len(b) THEN d[p] ELSE c[p - Len(a) - Len(b)]
        BY <2>2, <2>3, <2>4
    <2> QED BY <2>2, <2>4, <2>5 DEF d
<1>5. ASSUME NEW p \in 1..Len(s)
      PROVE  \/ p \in 1..Len(a) /\ s[p] = a[p] /\ s[p].source = "memory"
             \/ p \in Len(a) + 1..Len(a) + Len(b) /\ s[p] = b[p - Len(a)] /\ s[p].source = "knowledge"
             \/ p \in Len(a) + Len(b) + 1..Len(s) /\ s[p] = c[p - Len(a) - Len(b)] /\ s[p].source = "event"
    <2>1. CASE p <= Len(a)
        <3>1. p \in 1..Len(a) /\ s[p] = a[p]
            BY <1>2, <1>3, <1>4, <2>1
        <3> QED BY <3>1 DEF Listing
    <2>2. CASE p > Len(a) /\ p <= Len(a) + Len(b)
        <3>1. p \in Len(a) + 1..Len(a) + Len(b) /\ p - Len(a) \in 1..Len(b)
            BY <1>2, <1>4, <2>2
        <3>2. s[p] = b[p - Len(a)]
            BY <1>2, <1>3, <1>4, <2>2
        <3> QED BY <3>1, <3>2 DEF Listing
    <2>3. CASE p > Len(a) + Len(b)
        <3>1. p \in Len(a) + Len(b) + 1..Len(s) /\ p - Len(a) - Len(b) \in 1..Len(c)
            BY <1>2, <1>4, <2>3
        <3>2. s[p] = c[p - Len(a) - Len(b)]
            BY <1>2, <1>4, <2>3
        <3> QED BY <3>1, <3>2 DEF Listing
    <2> QED BY <1>2, <2>1, <2>2, <2>3
<1>6. ASSUME NEW i \in 1..Len(s), NEW j \in 1..Len(s), s[i].source = s[j].source, s[i].id = s[j].id
      PROVE  i = j
    <2>1. CASE i \in 1..Len(a) /\ j \in 1..Len(a) /\ s[i] = a[i] /\ s[j] = a[j]
        BY <1>6, <2>1 DEF Listing
    <2>2. CASE /\ i \in Len(a) + 1..Len(a) + Len(b) /\ s[i] = b[i - Len(a)]
               /\ j \in Len(a) + 1..Len(a) + Len(b) /\ s[j] = b[j - Len(a)]
        <3>1. i - Len(a) \in 1..Len(b) /\ j - Len(a) \in 1..Len(b)
            BY <1>2, <2>2
        <3>2. i - Len(a) = j - Len(a)
            BY <1>6, <2>2, <3>1 DEF Listing
        <3> QED BY <1>2, <3>2
    <2>3. CASE /\ i \in Len(a) + Len(b) + 1..Len(s) /\ s[i] = c[i - Len(a) - Len(b)]
               /\ j \in Len(a) + Len(b) + 1..Len(s) /\ s[j] = c[j - Len(a) - Len(b)]
        <3>1. i - Len(a) - Len(b) \in 1..Len(c) /\ j - Len(a) - Len(b) \in 1..Len(c)
            BY <1>2, <1>4, <2>3
        <3>2. i - Len(a) - Len(b) = j - Len(a) - Len(b)
            BY <1>6, <2>3, <3>1 DEF Listing
        <3> QED BY <1>2, <3>2
    <2> QED BY <1>5, <1>6, <2>1, <2>2, <2>3
<1> QED BY <1>2, <1>4, <1>5, <1>6 DEF Joins

\* The next n numbers after l are n.
LEMMA IntervalCounts ==
    ASSUME NEW l \in Nat, NEW n \in Nat
    PROVE  IsFiniteSet(l + 1..l + n) /\ Cardinality(l + 1..l + n) = n
<1> DEFINE a == l + 1
           b == l + n
<1>1. a \in Int /\ b \in Int /\ (IF a > b THEN 0 ELSE b - a + 1) = n
    OBVIOUS
<1> HIDE DEF a, b
<1>2. IsFiniteSet(a..b) /\ Cardinality(a..b) = IF a > b THEN 0 ELSE b - a + 1
    BY <1>1, FS_Interval
<1> QED BY <1>1, <1>2 DEF a, b

\* Places in c of the citations of a source.
FromSource(c, source) == {i \in DOMAIN c : c[i].source = source}

\* What PackageSound asks of the citations and the slots.
WithinBudget(c, slots, limit) ==
    /\ Len(c) <= limit
    /\ slots.event + slots.memory + slots.knowledge <= limit
    /\ \A s \in DOMAIN slots : slots[s] >= 0 /\ Cardinality(FromSource(c, s)) <= slots[s]
    /\ \A i, j \in DOMAIN c : i < j => c[i].score >= c[j].score /\ <<c[i].source, c[i].id>> # <<c[j].source, c[j].id>>

\* A citation has no text only if its source was not among those read again.
TextsFound(c, found) ==
    \A i \in DOMAIN c : ~ c[i].text =>
        \/ /\ c[i].source = "memory" /\ <<"memory", c[i].id>> \notin found
           /\ \E p \in 1..Len(request.memory) : request.memory[p].id = c[i].id
        \/ /\ c[i].source = "knowledge" /\ <<"knowledge", c[i].id>> \notin found
           /\ \E p \in 1..Len(request.knowledge) : request.knowledge[p].id = c[i].id

\* Blending keeps to the budget and to the slots, whatever is found again.
LEMMA BlendKeepsBudget ==
    ASSUME request.limit \in Nat, Listing(request.memory, "memory"),
           Listing(request.knowledge, "knowledge"), Listing(request.event, "event"),
           NEW found
    PROVE  /\ WithinBudget(Blended(found), Slots(request.profile, request.mode, request.limit), request.limit)
           /\ TextsFound(Blended(found), found)
<1> DEFINE slots == Slots(request.profile, request.mode, request.limit)
           a == Take(request.memory, slots.memory)
           b == Take(request.knowledge, slots.knowledge)
           e == Take(request.event, slots.event)
           all == Chosen(slots)
           cited == [i \in DOMAIN all |-> Cited(all[i], found)]
           key == [i \in DOMAIN cited |-> cited[i].score]
           best == BestFirst(cited, key)
           c == Blended(found)
           T == {Cited(x, found) : x \in Citation}
<1>1. /\ DOMAIN slots = {"event", "memory", "knowledge"}
      /\ slots.event \in Nat /\ slots.memory \in Nat /\ slots.knowledge \in Nat
      /\ slots.event + slots.memory + slots.knowledge <= request.limit
    BY SlotsKeepBudget
<1>2. all = a \o b \o e /\ c = Take(best, request.limit)
    BY DEF Chosen, Blended
<1> HIDE DEF slots, c
<1>3. /\ Listing(a, "memory") /\ Len(a) <= slots.memory
      /\ \A i \in 1..Len(a) : i \in 1..Len(request.memory) /\ a[i] = request.memory[i]
    BY <1>1, TakeLists
<1>4. /\ Listing(b, "knowledge") /\ Len(b) <= slots.knowledge
      /\ \A i \in 1..Len(b) : i \in 1..Len(request.knowledge) /\ b[i] = request.knowledge[i]
    BY <1>1, TakeLists
<1>5. Listing(e, "event") /\ Len(e) <= slots.event
    BY <1>1, TakeLists
<1> HIDE DEF a, b, e, all
<1>6. /\ all \in Seq(Citation) /\ Len(a) \in Nat /\ Len(b) \in Nat /\ Len(e) \in Nat
      /\ Len(all) = Len(a) + Len(b) + Len(e)
      /\ \A p \in 1..Len(all) :
            \/ p \in 1..Len(a) /\ all[p] = a[p] /\ all[p].source = "memory"
            \/ p \in Len(a) + 1..Len(a) + Len(b) /\ all[p] = b[p - Len(a)] /\ all[p].source = "knowledge"
            \/ p \in Len(a) + Len(b) + 1..Len(all) /\ all[p] = e[p - Len(a) - Len(b)] /\ all[p].source = "event"
      /\ \A i, j \in 1..Len(all) : all[i].source = all[j].source /\ all[i].id = all[j].id => i = j
    <2>1. Joins(all, a, b, e)
        BY <1>2, <1>3, <1>4, <1>5, JoinedListings
    <2> QED BY <2>1 DEF Joins
<1>7. DOMAIN all = 1..Len(all) /\ Len(all) \in Nat /\ \A i \in 1..Len(all) : all[i] \in Citation
    BY <1>6
<1>8. ASSUME NEW i \in 1..Len(all)
      PROVE  /\ cited[i] \in T /\ cited[i].score \in Int /\ cited[i].source = all[i].source /\ cited[i].id = all[i].id
             /\ cited[i].text = (all[i].source = "event" \/ <<all[i].source, all[i].id>> \in found)
    BY <1>7 DEF Cited, Citation
<1>9. cited \in Seq(T) /\ Len(cited) = Len(all)
    <2>1. cited \in [1..Len(all) -> T]
        BY <1>7, <1>8
    <2> HIDE DEF cited, T
    <2> QED BY <1>7, <2>1
<1>10. key \in [1..Len(cited) -> Int]
    <2>1. DOMAIN cited = 1..Len(cited)
        BY <1>7, <1>9
    <2> QED BY <1>8, <1>9, <2>1
<1>11. \A i \in 1..Len(all) : key[i] = cited[i].score
    BY <1>7
<1> HIDE DEF cited, key, T
<1>12. /\ best \in Seq(T) /\ Len(best) = Len(cited)
       /\ \A m \in 1..Len(cited) : Place(key, m) \in 1..Len(cited) /\ best[m] = cited[Place(key, m)]
    BY <1>9, <1>10, BestFirstIs
<1>13. /\ \A l, m \in 1..Len(all) : l < m => key[Place(key, l)] >= key[Place(key, m)]
       /\ \A l, m \in 1..Len(all) : Place(key, l) = Place(key, m) => l = m
    BY <1>7, <1>9, <1>10, PlacesSort
<1> HIDE DEF best
<1>14. /\ c \in Seq(T) /\ Len(c) <= request.limit /\ Len(c) <= Len(all) /\ Len(c) \in Nat
       /\ \A i \in 1..Len(c) : c[i] = best[i]
    BY <1>2, <1>9, <1>12, TakeIs
<1>15. DOMAIN c = 1..Len(c)
    BY <1>14
<1>16. ASSUME NEW i \in 1..Len(c)
       PROVE  i \in 1..Len(all) /\ Place(key, i) \in 1..Len(all) /\ c[i] = cited[Place(key, i)]
    BY <1>7, <1>9, <1>12, <1>14
<1>17. ASSUME NEW i \in DOMAIN c, NEW j \in DOMAIN c, i < j
       PROVE  c[i].score >= c[j].score /\ <<c[i].source, c[i].id>> # <<c[j].source, c[j].id>>
    <2> DEFINE p == Place(key, i)
               q == Place(key, j)
    <2>1. p \in 1..Len(all) /\ q \in 1..Len(all) /\ c[i] = cited[p] /\ c[j] = cited[q]
        BY <1>15, <1>16, <1>17
    <2>2. key[p] >= key[q] /\ p # q
        BY <1>13, <1>15, <1>16, <1>17
    <2> HIDE DEF p, q
    <2>3. c[i].score >= c[j].score
        BY <1>11, <2>1, <2>2
    <2>4. ~ (all[p].source = all[q].source /\ all[p].id = all[q].id)
        BY <1>6, <2>1, <2>2
    <2>5. /\ c[i].source = all[p].source /\ c[i].id = all[p].id
          /\ c[j].source = all[q].source /\ c[j].id = all[q].id
        BY <1>8, <2>1
    <2> QED BY <2>3, <2>4, <2>5
<1>18. ASSUME NEW s \in DOMAIN slots
       PROVE  slots[s] >= 0 /\ Cardinality(FromSource(c, s)) <= slots[s]
    <2> DEFINE I == IF s = "memory" THEN 1..Len(a)
                    ELSE IF s = "knowledge" THEN Len(a) + 1..Len(a) + Len(b)
                    ELSE Len(a) + Len(b) + 1..Len(a) + Len(b) + Len(e)
               F == FromSource(c, s)
               f == [i \in F |-> Place(key, i)]
    <2>1. slots[s] \in Nat /\ IsFiniteSet(I) /\ Cardinality(I) \in Nat /\ Cardinality(I) <= slots[s]
        <3>1. CASE s = "memory"
            <4>1. IsFiniteSet(0 + 1..0 + Len(a)) /\ Cardinality(0 + 1..0 + Len(a)) = Len(a)
                BY <1>6, IntervalCounts
            <4> QED BY <1>1, <1>3, <1>6, <3>1, <4>1
        <3>2. CASE s = "knowledge"
            <4>1. /\ IsFiniteSet(Len(a) + 1..Len(a) + Len(b))
                  /\ Cardinality(Len(a) + 1..Len(a) + Len(b)) = Len(b)
                BY <1>6, IntervalCounts
            <4> QED BY <1>1, <1>4, <1>6, <3>2, <4>1
        <3>3. CASE s = "event"
            <4>1. /\ IsFiniteSet(Len(a) + Len(b) + 1..Len(a) + Len(b) + Len(e))
                  /\ Cardinality(Len(a) + Len(b) + 1..Len(a) + Len(b) + Len(e)) = Len(e)
                <5> DEFINE l == Len(a) + Len(b)
                <5>1. l \in Nat
                    BY <1>6
                <5> HIDE DEF l
                <5>2. IsFiniteSet(l + 1..l + Len(e)) /\ Cardinality(l + 1..l + Len(e)) = Len(e)
                    BY <1>6, <5>1, IntervalCounts
                <5> QED BY <5>2 DEF l
            <4> QED BY <1>1, <1>5, <1>6, <3>3, <4>1
        <3> QED BY <1>1, <3>1, <3>2, <3>3
    <2>2. \A i \in F : i \in 1..Len(c) /\ c[i].source = s
        BY <1>15 DEF FromSource
    <2>3. ASSUME NEW i \in F PROVE Place(key, i) \in I
        <3> DEFINE p == Place(key, i)
        <3>1. i \in 1..Len(c) /\ c[i].source = s
            BY <2>2
        <3>2. p \in 1..Len(all) /\ c[i] = cited[p]
            BY <1>16, <3>1
        <3> HIDE DEF p
        <3>3. all[p].source = s
            BY <1>8, <3>1, <3>2
        <3>4. p \in I
            BY <1>6, <3>2, <3>3
        <3> QED BY <3>4 DEF p
    <2>4. \A i, j \in F : Place(key, i) = Place(key, j) => i = j
        BY <1>13, <1>16, <2>2
    <2> HIDE DEF I, F
    <2>5. f \in Injection(F, I)
        BY <2>3, <2>4 DEF Injection, IsInjective
    <2> HIDE DEF f
    <2>6. IsFiniteSet(F) /\ Cardinality(F) <= Cardinality(I)
        BY <2>1, <2>5, FS_Injection
    <2>7. Cardinality(F) \in Nat
        BY <2>6, FS_CardinalityType
    <2> QED BY <2>1, <2>6, <2>7 DEF F
<1>19. ASSUME NEW i \in DOMAIN c, ~ c[i].text
       PROVE  \/ /\ c[i].source = "memory" /\ <<"memory", c[i].id>> \notin found
                 /\ \E q \in 1..Len(request.memory) : request.memory[q].id = c[i].id
              \/ /\ c[i].source = "knowledge" /\ <<"knowledge", c[i].id>> \notin found
                 /\ \E q \in 1..Len(request.knowledge) : request.knowledge[q].id = c[i].id
    <2> DEFINE p == Place(key, i)
    <2>1. p \in 1..Len(all) /\ c[i] = cited[p]
        BY <1>15, <1>16
    <2> HIDE DEF p
    <2>2. /\ c[i].source = all[p].source /\ c[i].id = all[p].id
          /\ all[p].source # "event" /\ <<all[p].source, all[p].id>> \notin found
        BY <1>8, <1>19, <2>1
    <2>3. CASE p \in 1..Len(a) /\ all[p] = a[p] /\ all[p].source = "memory"
        BY <1>3, <2>2, <2>3
    <2>4. CASE p \in Len(a) + 1..Len(a) + Len(b) /\ all[p] = b[p - Len(a)] /\ all[p].source = "knowledge"
        <3>1. p - Len(a) \in 1..Len(b)
            BY <1>6, <2>4
        <3> QED BY <1>4, <2>2, <2>4, <3>1
    <2> QED BY <1>6, <2>1, <2>2, <2>3, <2>4
<1>20. WithinBudget(c, slots, request.limit)
    BY <1>1, <1>14, <1>17, <1>18 DEF WithinBudget
<1>21. TextsFound(c, found)
    BY <1>19 DEF TextsFound
<1> QED BY <1>20, <1>21 DEF slots, c

\* Types, as far as the proofs need them.
PackageTypeOK ==
    /\ remembered \subseteq DOMAIN Memories
    /\ OnePerId(objects)
    /\ eventCount \in Nat
    /\ writes \in Nat
    /\ DOMAIN request = DOMAIN NoRequest
    /\ request.limit \in Nat

\* What each retrieval left is a listing.
RetrievedOnce ==
    /\ OnePerId(request.own)
    /\ Listing(request.memory, "memory")
    /\ Listing(request.knowledge, "knowledge")
    /\ Listing(request.event, "event")

\* As long as nobody wrote, what was retrieved is still stored.
StillStored ==
    writes = 0 =>
        /\ request.own \subseteq objects
        /\ \A i \in 1..Len(request.memory) : request.memory[i].id \in remembered
        /\ \A i \in 1..Len(request.knowledge) : \E k \in objects : request.knowledge[i].id = k.id

\* And then the second reading of the memories found them all, if it succeeded.
ReadAgain ==
    request.step = "blend knowledge" /\ writes = 0 =>
        \A i \in 1..Len(request.memory) :
            <<"memory", request.memory[i].id>> \in request.read \/ "memory" \in request.failed

\* The parts of the package rest on one another.
PartsRest ==
    /\ "organization" \in request.parts => {"knowledge", "cross_project"} \subseteq request.parts
    /\ "graph" \in request.parts => request.active # {}

PackageInv == PackageTypeOK /\ RetrievedOnce /\ StillStored /\ ReadAgain /\ PartsRest /\ PackageSound

\* Nothing was retrieved when nobody calls.
LEMMA PackageInitially ==
    ASSUME PackageAssumption, CInit
    PROVE  PackageInv
<1>1. OnePerId(objects)
    BY FS_Subset DEF CInit, PackageAssumption, OnePerId
<1>2. PackageTypeOK
    BY <1>1 DEF CInit, PackageTypeOK, NoRequest, PackageAssumption
<1>3. RetrievedOnce /\ StillStored
    <2>1. OnePerId({})
        BY FS_EmptySet DEF OnePerId
    <2>2. Listing(<<>>, "memory") /\ Listing(<<>>, "knowledge") /\ Listing(<<>>, "event")
        BY DEF Listing
    <2>3. request.own = {} /\ request.memory = <<>> /\ request.knowledge = <<>> /\ request.event = <<>>
        BY DEF CInit, NoRequest
    <2> QED BY <2>1, <2>2, <2>3 DEF RetrievedOnce, StillStored
<1>4. ReadAgain /\ PartsRest /\ PackageSound
    BY DEF CInit, NoRequest, ReadAgain, PartsRest, PackageSound
<1> QED BY <1>2, <1>3, <1>4 DEF PackageInv

\* A call starts with nothing retrieved.
LEMMA CompileKeepsPackage ==
    ASSUME PackageAssumption, PackageInv, NEW mode, NEW profile, NEW limit \in Limits, CompileContext(mode, profile, limit)
    PROVE  PackageInv'
<1>1. /\ DOMAIN request' = DOMAIN NoRequest /\ request'.step = "projections" /\ request'.limit = limit
      /\ request'.own = {} /\ request'.memory = <<>> /\ request'.knowledge = <<>> /\ request'.event = <<>>
      /\ request'.parts = {}
      /\ UNCHANGED <<remembered, objects, eventCount, writes>>
    BY DEF CompileContext, NoRequest
<1>2. PackageTypeOK'
    BY <1>1 DEF PackageInv, PackageTypeOK, PackageAssumption, OnePerId
<1>3. RetrievedOnce' /\ StillStored'
    <2>1. OnePerId({})
        BY FS_EmptySet DEF OnePerId
    <2>2. Listing(<<>>, "memory") /\ Listing(<<>>, "knowledge") /\ Listing(<<>>, "event")
        BY DEF Listing
    <2>3. OnePerId(request.own)'
        BY <1>1, <2>1
    <2>4. Listing(request.memory, "memory")' /\ Listing(request.knowledge, "knowledge")' /\ Listing(request.event, "event")'
        BY <1>1, <2>2
    <2> QED BY <1>1, <2>3, <2>4 DEF RetrievedOnce, StillStored
<1>4. ReadAgain' /\ PartsRest' /\ PackageSound'
    BY <1>1 DEF ReadAgain, PartsRest, PackageSound
<1> QED BY <1>2, <1>3, <1>4 DEF PackageInv

\* What the steps before the retrievals and the failure of the continuation leave alone.
SameRetrieved ==
    /\ DOMAIN request' = DOMAIN NoRequest
    /\ UNCHANGED <<request.limit, request.own, request.memory, request.knowledge, request.event>>
    /\ request'.step \notin {"done", "blend knowledge"}
    /\ UNCHANGED <<remembered, objects, eventCount, writes>>

\* Such a step keeps the invariant if the parts still rest on one another.
LEMMA SameRetrievedKeeps ==
    ASSUME PackageInv, SameRetrieved, PartsRest'
    PROVE  PackageInv'
<1>1. PackageTypeOK'
    BY DEF PackageInv, PackageTypeOK, OnePerId, SameRetrieved
<1>2. RetrievedOnce'
    BY DEF PackageInv, RetrievedOnce, SameRetrieved
<1>3. StillStored'
    BY DEF PackageInv, StillStored, SameRetrieved
<1>4. ReadAgain' /\ PackageSound'
    BY DEF ReadAgain, PackageSound, SameRetrieved
<1> QED BY <1>1, <1>2, <1>3, <1>4 DEF PackageInv

\* A continuation that cannot be projected ends the call.
LEMMA RaiseKeepsPackage ==
    ASSUME PackageInv, RaiseContinuation
    PROVE  PackageInv'
<1>1. SameRetrieved /\ UNCHANGED <<request.parts, request.active>>
    BY DEF RaiseContinuation, SameRetrieved, PackageInv, PackageTypeOK, NoRequest
<1>2. PartsRest'
    BY <1>1 DEF PackageInv, PartsRest
<1> QED BY <1>1, <1>2, SameRetrievedKeeps

\* A part is read only after the parts it rests on, whichever of them fail.
LEMMA ProjectionsKeepPackage ==
    ASSUME PackageInv, NEW failed, ReadProjections(failed)
    PROVE  PackageInv'
<1> DEFINE active == {k.id : k \in {k \in objects : k.project = OwnProject /\ k.lifecycle = "ACTIVE"}}
           resumed == request.mode = "continuation"
           Given(part, needs) == IF needs /\ part \notin failed THEN {part} ELSE {}
           k == Given("knowledge", TRUE)
           x == Given("cross_project", k # {})
           o == Given("organization", x # {})
           g == Given("graph", k # {} /\ active # {} /\ resumed)
           p == k \cup x \cup o \cup (IF resumed THEN {"continuation"} ELSE {}) \cup g
                \cup Given("organization_continuation", o # {} /\ resumed)
<1>1. /\ request' = [request EXCEPT !.step = "memory", !.active = IF k = {} THEN {} ELSE active, !.parts = p]
      /\ UNCHANGED <<remembered, objects, eventCount, writes>>
    BY DEF ReadProjections
<1>2. "organization" \in p => "knowledge" \in p /\ "cross_project" \in p
    OBVIOUS
<1>3. "graph" \in p => k # {} /\ active # {}
    OBVIOUS
<1> HIDE DEF active, k, x, o, g, p
<1>4. /\ SameRetrieved /\ request'.parts = p /\ request'.active = IF k = {} THEN {} ELSE active
    BY <1>1 DEF SameRetrieved, PackageInv, PackageTypeOK, NoRequest
<1>5. PartsRest'
    BY <1>2, <1>3, <1>4 DEF PartsRest
<1> QED BY <1>4, <1>5, SameRetrievedKeeps

\* What is taken of the ranked memories is listed and stored.
LEMMA MemoriesKeepPackage ==
    ASSUME PackageAssumption, PackageInv, RetrieveMemories
    PROVE  PackageInv'
<1> DEFINE ranked == RankMemories(remembered)
<1>1. PICK taken \in {Take(ranked, SourceLimit), <<>>} :
         request' = [request EXCEPT !.step = "own", !["memory"] = taken]
    BY DEF RetrieveMemories, Retrieve
<1>2. UNCHANGED <<remembered, objects, eventCount, writes>>
    BY DEF RetrieveMemories, Retrieve
<1>3. Listing(taken, "memory") /\ \A i \in 1..Len(taken) : taken[i].id \in remembered
    <2>1. Listing(ranked, "memory") /\ \A i \in 1..Len(ranked) : ranked[i].id \in remembered
        BY MemoriesListed DEF PackageInv, PackageTypeOK
    <2> HIDE DEF ranked
    <2>2. /\ Listing(Take(ranked, SourceLimit), "memory")
          /\ \A i \in 1..Len(Take(ranked, SourceLimit)) : Take(ranked, SourceLimit)[i].id \in remembered
        BY <2>1, TakeLists DEF PackageAssumption
    <2>3. Listing(<<>>, "memory")
        BY DEF Listing
    <2> QED BY <2>2, <2>3
<1>4. /\ DOMAIN request' = DOMAIN NoRequest /\ request'.step = "own" /\ request'.memory = taken
      /\ UNCHANGED <<request.limit, request.own, request.knowledge, request.event, request.parts, request.active>>
    BY <1>1 DEF PackageInv, PackageTypeOK, NoRequest
<1>5. PackageTypeOK'
    BY <1>2, <1>4 DEF PackageInv, PackageTypeOK, OnePerId
<1>6. RetrievedOnce'
    BY <1>3, <1>4 DEF PackageInv, RetrievedOnce
<1>7. StillStored'
    BY <1>2, <1>3, <1>4 DEF PackageInv, StillStored
<1>8. ReadAgain' /\ PartsRest' /\ PackageSound'
    BY <1>4 DEF PackageInv, ReadAgain, PartsRest, PackageSound
<1> QED BY <1>5, <1>6, <1>7, <1>8 DEF PackageInv

\* The project's own objects are a part of the store.
LEMMA ReadOwnKeepsPackage ==
    ASSUME PackageInv, ReadOwn
    PROVE  PackageInv'
<1> DEFINE own == {k \in objects : k.project = OwnProject}
<1>1. /\ DOMAIN request' = DOMAIN NoRequest /\ request'.step = "knowledge" /\ request'.own = own
      /\ UNCHANGED <<request.limit, request.memory, request.knowledge, request.event, request.parts, request.active>>
      /\ UNCHANGED <<remembered, objects, eventCount, writes>>
    BY DEF ReadOwn, PackageInv, PackageTypeOK, NoRequest
<1>2. OnePerId(own)
    BY FS_Subset DEF PackageInv, PackageTypeOK, OnePerId
<1>3. PackageTypeOK'
    BY <1>1 DEF PackageInv, PackageTypeOK, OnePerId
<1>4. RetrievedOnce'
    BY <1>1, <1>2 DEF PackageInv, RetrievedOnce
<1>5. StillStored'
    BY <1>1 DEF PackageInv, StillStored
<1>6. ReadAgain' /\ PartsRest' /\ PackageSound'
    BY <1>1 DEF PackageInv, ReadAgain, PartsRest, PackageSound
<1> QED BY <1>3, <1>4, <1>5, <1>6 DEF PackageInv

\* What is taken of the ranked knowledge is listed once, although the store may
\* have changed between the two reads, and stored if it did not.
LEMMA KnowledgeKeepsPackage ==
    ASSUME PackageAssumption, PackageInv, RetrieveKnowledge
    PROVE  PackageInv'
<1> DEFINE ranked == RankKnowledge(request.own, objects, "LESSON")
<1>1. PICK taken \in {Take(ranked, SourceLimit), <<>>} :
         request' = [request EXCEPT !.step = "event", !["knowledge"] = taken]
    BY DEF RetrieveKnowledge, Retrieve
<1>2. UNCHANGED <<remembered, objects, eventCount, writes>>
    BY DEF RetrieveKnowledge, Retrieve
<1>3. /\ Listing(taken, "knowledge")
      /\ \A i \in 1..Len(taken) : \E k \in request.own \cup objects : taken[i].id = k.id
    <2>1. /\ Listing(ranked, "knowledge")
          /\ \A i \in 1..Len(ranked) : \E k \in request.own \cup objects : ranked[i].id = k.id
        BY KnowledgeListed DEF PackageInv, PackageTypeOK, RetrievedOnce
    <2> HIDE DEF ranked
    <2>2. /\ Listing(Take(ranked, SourceLimit), "knowledge")
          /\ \A i \in 1..Len(Take(ranked, SourceLimit)) :
                \E k \in request.own \cup objects : Take(ranked, SourceLimit)[i].id = k.id
        BY <2>1, TakeLists DEF PackageAssumption
    <2>3. Listing(<<>>, "knowledge")
        BY DEF Listing
    <2> QED BY <2>2, <2>3
<1>4. /\ DOMAIN request' = DOMAIN NoRequest /\ request'.step = "event" /\ request'.knowledge = taken
      /\ UNCHANGED <<request.limit, request.own, request.memory, request.event, request.parts, request.active>>
    BY <1>1 DEF PackageInv, PackageTypeOK, NoRequest
<1>5. PackageTypeOK'
    BY <1>2, <1>4 DEF PackageInv, PackageTypeOK, OnePerId
<1>6. RetrievedOnce'
    BY <1>3, <1>4 DEF PackageInv, RetrievedOnce
<1>7. StillStored'
    BY <1>2, <1>3, <1>4 DEF PackageInv, StillStored
<1>8. ReadAgain' /\ PartsRest' /\ PackageSound'
    BY <1>4 DEF PackageInv, ReadAgain, PartsRest, PackageSound
<1> QED BY <1>5, <1>6, <1>7, <1>8 DEF PackageInv

\* What is taken of the events is listed.
LEMMA EventsKeepPackage ==
    ASSUME PackageAssumption, PackageInv, RetrieveEvents
    PROVE  PackageInv'
<1> DEFINE ranked == RankEvents(eventCount)
<1>1. PICK taken \in {Take(ranked, SourceLimit), <<>>} :
         request' = [request EXCEPT !.step = "blend", !["event"] = taken]
    BY DEF RetrieveEvents, Retrieve
<1>2. UNCHANGED <<remembered, objects, eventCount, writes>>
    BY DEF RetrieveEvents, Retrieve
<1>3. Listing(taken, "event")
    <2>1. Listing(ranked, "event")
        BY EventsListed DEF PackageInv, PackageTypeOK
    <2> HIDE DEF ranked
    <2>2. Listing(Take(ranked, SourceLimit), "event")
        BY <2>1, TakeLists DEF PackageAssumption
    <2>3. Listing(<<>>, "event")
        BY DEF Listing
    <2> QED BY <2>2, <2>3
<1>4. /\ DOMAIN request' = DOMAIN NoRequest /\ request'.step = "blend" /\ request'.event = taken
      /\ UNCHANGED <<request.limit, request.own, request.memory, request.knowledge, request.parts, request.active>>
    BY <1>1 DEF PackageInv, PackageTypeOK, NoRequest
<1>5. PackageTypeOK'
    BY <1>2, <1>4 DEF PackageInv, PackageTypeOK, OnePerId
<1>6. RetrievedOnce'
    BY <1>3, <1>4 DEF PackageInv, RetrievedOnce
<1>7. StillStored'
    BY <1>2, <1>4 DEF PackageInv, StillStored
<1>8. ReadAgain' /\ PartsRest' /\ PackageSound'
    BY <1>4 DEF PackageInv, ReadAgain, PartsRest, PackageSound
<1> QED BY <1>5, <1>6, <1>7, <1>8 DEF PackageInv

\* Reading the memories again finds those still stored, or fails as a whole.
LEMMA BlendMemoriesKeepsPackage ==
    ASSUME PackageInv, BlendMemories
    PROVE  PackageInv'
<1>1. /\ DOMAIN request' = DOMAIN NoRequest /\ request'.step = "blend knowledge"
      /\ \/ request'.read = {<<"memory", id>> : id \in remembered}
         \/ request'.failed = {"memory"}
      /\ UNCHANGED <<request.limit, request.own, request.memory, request.knowledge, request.event,
                     request.parts, request.active>>
      /\ UNCHANGED <<remembered, objects, eventCount, writes>>
    BY DEF BlendMemories, PackageInv, PackageTypeOK, NoRequest
<1>2. PackageTypeOK'
    BY <1>1 DEF PackageInv, PackageTypeOK, OnePerId
<1>3. RetrievedOnce'
    BY <1>1 DEF PackageInv, RetrievedOnce
<1>4. StillStored'
    BY <1>1 DEF PackageInv, StillStored
<1>5. ReadAgain'
    BY <1>1 DEF PackageInv, StillStored, ReadAgain
<1>6. PartsRest' /\ PackageSound'
    BY <1>1 DEF PackageInv, PartsRest, PackageSound
<1> QED BY <1>2, <1>3, <1>4, <1>5, <1>6 DEF PackageInv

\* The package is within its budget, and a text is missing only for a reason.
LEMMA BlendKnowledgeKeepsPackage ==
    ASSUME PackageInv, BlendKnowledge
    PROVE  PackageInv'
<1> DEFINE again == {<<"knowledge", k.id>> : k \in objects}
<1>1. PICK found :
         /\ request'.citations = Blended(found)
         /\ \/ found = request.read \cup again /\ request'.failed = request.failed
            \/ found = request.read /\ request'.failed = request.failed \cup {"knowledge"}
    BY DEF BlendKnowledge, PackageInv, PackageTypeOK, NoRequest
<1>2. /\ request.step = "blend knowledge" /\ DOMAIN request' = DOMAIN NoRequest /\ request'.step = "done"
      /\ UNCHANGED <<request.limit, request.mode, request.profile, request.own, request.memory, request.knowledge,
                     request.event, request.parts, request.active>>
      /\ UNCHANGED <<remembered, objects, eventCount, writes>>
    BY DEF BlendKnowledge, PackageInv, PackageTypeOK, NoRequest
<1>3. /\ WithinBudget(Blended(found), Slots(request.profile, request.mode, request.limit), request.limit)
      /\ TextsFound(Blended(found), found)
    BY BlendKeepsBudget DEF PackageInv, PackageTypeOK, RetrievedOnce
<1>4. PackageTypeOK'
    BY <1>2 DEF PackageInv, PackageTypeOK, OnePerId
<1>5. RetrievedOnce'
    <2>1. OnePerId(request.own)'
        BY <1>2 DEF PackageInv, RetrievedOnce, OnePerId
    <2>2. Listing(request.memory, "memory")' /\ Listing(request.knowledge, "knowledge")' /\ Listing(request.event, "event")'
        BY <1>2 DEF PackageInv, RetrievedOnce
    <2> QED BY <2>1, <2>2 DEF RetrievedOnce
<1>6. StillStored'
    BY <1>2 DEF PackageInv, StillStored
<1>7. ReadAgain' /\ PartsRest'
    BY <1>2 DEF PackageInv, ReadAgain, PartsRest
<1>8. PackageSound'
    <2> DEFINE c == Blended(found)
               slots == Slots(request.profile, request.mode, request.limit)
    <2>1. WithinBudget(c, slots, request.limit) /\ TextsFound(c, found)
        BY <1>3
    <2> HIDE DEF c, slots
    <2>2. request'.citations = c /\ Slots(request'.profile, request'.mode, request'.limit) = slots
        BY <1>1, <1>2 DEF c, slots
    <2>3. \A s : CitedFrom(s)' = FromSource(c, s)
        BY <2>2 DEF CitedFrom, FromSource
    <2>4. ASSUME NEW i \in DOMAIN c, ~ c[i].text
          PROVE  writes' > 0 \/ c[i].source \in request'.failed
        <3>0. writes \in Nat /\ writes' = writes
            BY <1>2 DEF PackageInv, PackageTypeOK
        <3>1. SUFFICES ASSUME writes = 0 PROVE c[i].source \in request'.failed
            BY <3>0
        <3>2. CASE /\ c[i].source = "memory" /\ <<"memory", c[i].id>> \notin found
                   /\ \E p \in 1..Len(request.memory) : request.memory[p].id = c[i].id
            <4>1. "memory" \in request.failed
                BY <1>1, <1>2, <3>1, <3>2 DEF PackageInv, ReadAgain
            <4> QED BY <1>1, <3>2, <4>1
        <3>3. CASE /\ c[i].source = "knowledge" /\ <<"knowledge", c[i].id>> \notin found
                   /\ \E p \in 1..Len(request.knowledge) : request.knowledge[p].id = c[i].id
            <4>1. \E k \in objects : c[i].id = k.id
                BY <3>1, <3>3 DEF PackageInv, StillStored
            <4>2. <<"knowledge", c[i].id>> \in again
                BY <4>1
            <4> QED BY <1>1, <3>3, <4>2
        <3> QED BY <2>1, <2>4, <3>2, <3>3 DEF TextsFound
    <2>5. \A s \in DOMAIN slots : slots[s] >= 0 /\ Cardinality(CitedFrom(s)') <= slots[s]
        BY <2>1, <2>3 DEF WithinBudget
    <2>6. /\ Len(c) <= request'.limit /\ slots.event + slots.memory + slots.knowledge <= request'.limit
          /\ \A i, j \in DOMAIN c : i < j => c[i].score >= c[j].score /\ <<c[i].source, c[i].id>> # <<c[j].source, c[j].id>>
        BY <1>2, <2>1 DEF WithinBudget
    <2>7. /\ "organization" \in request'.parts => {"knowledge", "cross_project"} \subseteq request'.parts
          /\ "graph" \in request'.parts => request'.active # {}
        BY <1>7 DEF PartsRest
    <2> QED BY <2>2, <2>4, <2>5, <2>6, <2>7 DEF PackageSound
<1> QED BY <1>4, <1>5, <1>6, <1>7, <1>8 DEF PackageInv

\* Other processes write while the call runs and count their writes.
LEMMA WritersKeepPackage ==
    ASSUME PackageAssumption, PackageInv,
           (\E id \in remembered : ForgetMemory(id)) \/ (\E k \in objects : RetireKnowledge(k)) \/ AppendWhileCalling
    PROVE  PackageInv'
<1>1. /\ writes' = writes + 1 /\ request.step # "done" /\ UNCHANGED request
      /\ remembered' \subseteq remembered
      /\ eventCount' = eventCount \/ eventCount' = eventCount + 1
    BY DEF ForgetMemory, RetireKnowledge, AppendWhileCalling
<1>2. OnePerId(objects)'
    <2>1. CASE UNCHANGED objects
        BY <2>1 DEF PackageInv, PackageTypeOK, OnePerId
    <2>2. CASE \E k \in objects : RetireKnowledge(k)
        <3>1. PICK k \in objects : objects' = (objects \ {k}) \cup {[k EXCEPT !.lifecycle = "ARCHIVED"]}
            BY <2>2 DEF RetireKnowledge
        <3> DEFINE l == [k EXCEPT !.lifecycle = "ARCHIVED"]
        <3>2. k \in KnowledgeObject
            BY DEF PackageInv, PackageTypeOK, OnePerId
        <3>3. l \in KnowledgeObject /\ l.id = k.id
            BY <3>2 DEF KnowledgeObject
        <3> HIDE DEF l
        <3>4. objects' = (objects \ {k}) \cup {l}
            BY <3>1 DEF l
        <3>5. IsFiniteSet(objects')
            <4>1. IsFiniteSet(objects \ {k})
                BY FS_Difference DEF PackageInv, PackageTypeOK, OnePerId
            <4> QED BY <3>4, <4>1, FS_AddElement
        <3>6. objects' \subseteq KnowledgeObject /\ \A a, b \in objects' : a.id = b.id => a = b
            BY <3>3, <3>4 DEF PackageInv, PackageTypeOK, OnePerId
        <3> QED BY <3>5, <3>6 DEF OnePerId
    <2> QED BY <2>1, <2>2 DEF ForgetMemory, AppendWhileCalling
<1>3. PackageTypeOK'
    BY <1>1, <1>2 DEF PackageInv, PackageTypeOK
<1>4. RetrievedOnce'
    BY <1>1 DEF PackageInv, RetrievedOnce
<1>5. writes' # 0
    BY <1>1 DEF PackageInv, PackageTypeOK
<1>6. StillStored' /\ ReadAgain'
    BY <1>5 DEF StillStored, ReadAgain
<1>7. PartsRest' /\ PackageSound'
    BY <1>1 DEF PackageInv, PartsRest, PackageSound
<1> QED BY <1>3, <1>4, <1>6, <1>7 DEF PackageInv

\* Whatever fails and whoever writes while it is made, a context package keeps to
\* its budget and its slots, is sorted, cites nothing twice, misses a text only
\* of what was removed or could not be read again, and has no part that rests on
\* one that failed (context_compiler.py:142-165, 316-362, 425-550).
THEOREM PackagesKeepBudget ==
    ASSUME PackageAssumption
    PROVE  ContextSpec => []PackageSound
<1>1. CInit => PackageInv
    BY PackageInitially
<1>2. PackageInv /\ [ContextNext]_packageVars => PackageInv'
    <2>1. SUFFICES ASSUME PackageInv, [ContextNext]_packageVars PROVE PackageInv'
        OBVIOUS
    <2>2. ASSUME NEW mode \in {"standard", "continuation"}, NEW p \in Profiles, NEW n \in Limits,
                 CompileContext(mode, p, n)
          PROVE  PackageInv'
        BY <2>1, <2>2, CompileKeepsPackage
    <2>3. CASE RaiseContinuation
        BY <2>1, <2>3, RaiseKeepsPackage
    <2>4. ASSUME NEW f \in Failures, ReadProjections(f) PROVE PackageInv'
        BY <2>1, <2>4, ProjectionsKeepPackage
    <2>5. CASE RetrieveMemories
        BY <2>1, <2>5, MemoriesKeepPackage
    <2>6. CASE ReadOwn
        BY <2>1, <2>6, ReadOwnKeepsPackage
    <2>7. CASE RetrieveKnowledge
        BY <2>1, <2>7, KnowledgeKeepsPackage
    <2>8. CASE RetrieveEvents
        BY <2>1, <2>8, EventsKeepPackage
    <2>9. CASE BlendMemories
        BY <2>1, <2>9, BlendMemoriesKeepsPackage
    <2>10. CASE BlendKnowledge
        BY <2>1, <2>10, BlendKnowledgeKeepsPackage
    <2>11. CASE (\E id \in remembered : ForgetMemory(id)) \/ (\E k \in objects : RetireKnowledge(k)) \/ AppendWhileCalling
        BY <2>1, <2>11, WritersKeepPackage
    <2>12. CASE UNCHANGED packageVars
        <3>1. /\ remembered' = remembered /\ objects' = objects /\ eventCount' = eventCount
              /\ request' = request /\ writes' = writes
            BY <2>12 DEF packageVars
        <3>2. PackageTypeOK' /\ RetrievedOnce'
            BY <2>1, <3>1 DEF PackageInv, PackageTypeOK, RetrievedOnce, OnePerId, Listing
        <3>3. StillStored' /\ ReadAgain' /\ PartsRest'
            BY <2>1, <3>1 DEF PackageInv, StillStored, ReadAgain, PartsRest
        <3>4. PackageSound'
            BY <2>1, <3>1 DEF PackageInv, PackageSound, CitedFrom
        <3> QED BY <3>2, <3>3, <3>4 DEF PackageInv
    <2> QED BY <2>1, <2>2, <2>3, <2>4, <2>5, <2>6, <2>7, <2>8, <2>9, <2>10, <2>11, <2>12 DEF ContextNext
<1>3. PackageInv => PackageSound
    BY DEF PackageInv
<1> QED BY <1>1, <1>2, <1>3, PTL DEF ContextSpec

-----------------------------------------------------------------------------
(* The order of the projections and their cache *)

\* f is the order after each of m turns
Ordering(f, m, S) == f = [n \in 0..m |-> IF n = 0 THEN <<>> ELSE PutNext(S, f[n - 1])]

\* The loop over the ready projections defines the order after each turn.
LEMMA OrderAfterIs ==
    ASSUME NEW S, Cardinality(S) \in Nat
    PROVE  /\ OrderAfter(S)[0] = <<>>
           /\ \A n \in 1..Cardinality(S) : OrderAfter(S)[n] = PutNext(S, OrderAfter(S)[n - 1])
<1> DEFINE N == Cardinality(S)
           Bad == {k \in 0..N : ~\E f : Ordering(f, k, S)}
<1>1. ASSUME Bad # {} PROVE FALSE
    <2>1. Bad \subseteq Nat
        OBVIOUS
    <2>2. PICK k \in Bad : \A j \in Bad : k <= j
        BY <1>1, <2>1, LeastOf
    <2>3. CASE k = 0
        <3>1. Ordering([n \in 0..0 |-> <<>>], 0, S)
            BY DEF Ordering
        <3> QED BY <2>3, <3>1
    <2>4. CASE k # 0
        <3>1. k - 1 \in 0..N /\ k - 1 \notin Bad
            BY <2>2, <2>4
        <3>2. PICK g : Ordering(g, k - 1, S)
            BY <3>1
        <3> DEFINE f == [n \in 0..k |-> IF n = k THEN PutNext(S, g[k - 1]) ELSE g[n]]
        <3>3. \A n \in 0..k : f[n] = IF n = 0 THEN <<>> ELSE PutNext(S, f[n - 1])
            BY <2>4, <3>2 DEF Ordering
        <3>4. Ordering(f, k, S)
            BY <3>3 DEF Ordering
        <3> QED BY <3>4
    <2> QED BY <2>3, <2>4
<1>2. \E f : Ordering(f, N, S)
    BY <1>1
<1>3. Ordering(OrderAfter(S), N, S)
    BY <1>2 DEF OrderAfter, Ordering
<1> QED BY <1>3 DEF Ordering

\* The choice among ready projections is one of them.
LEMMA FirstIsReady ==
    ASSUME PlanAssumption, NEW ready, ready \subseteq ProjectionNames, ready # {}
    PROVE  First(ready) \in ready
<1> DEFINE priorities == {Declared[p].priority : p \in ready}
<1>1. priorities \subseteq Nat /\ priorities # {}
    BY DEF PlanAssumption
<1>2. PICK a \in priorities : \A b \in priorities : a <= b
    BY <1>1, LeastOf
<1> DEFINE urgent == {p \in ready : Declared[p].priority = a}
           places == {Declared[p].place : p \in urgent}
<1>3. places \subseteq Nat /\ places # {}
    BY <1>2 DEF PlanAssumption
<1>4. PICK m \in places : \A b \in places : m <= b
    BY <1>3, LeastOf
<1>5. PICK p \in urgent : Declared[p].place = m
    BY <1>4
<1>6. \A q \in ready : Declared[q].priority \in Nat /\ a <= Declared[q].priority
    BY <1>2 DEF PlanAssumption
<1>7. a \in Nat
    BY <1>1, <1>2
<1>8. \A q \in ready : \/ Declared[p].priority < Declared[q].priority
                       \/ Declared[p].priority = Declared[q].priority /\ Declared[p].place <= Declared[q].place
    <2> SUFFICES ASSUME NEW q \in ready, Declared[q].priority = a PROVE Declared[p].place <= Declared[q].place
        BY <1>5, <1>6, <1>7
    <2>1. Declared[q].place \in places
        OBVIOUS
    <2> QED BY <1>4, <1>5, <2>1
<1>9. p \in ready
    BY <1>5
<1> QED BY <1>8, <1>9 DEF First

\* the first n projections in an order, each once and after what it depends on
InOrder(S, order, n) ==
    /\ order \in Seq(S) /\ Len(order) = n
    /\ \A i, j \in 1..n : order[i] = order[j] => i = j
    /\ \A i \in 1..n : Deps(order[i]) \subseteq {order[j] : j \in 1..i - 1}

\* In a valid registry a turn always finds a projection that is ready.
LEMMA TurnExtends ==
    ASSUME PlanAssumption, NEW S, S \subseteq ProjectionNames, IsFiniteSet(S), RegistryValid(S),
           NEW n \in Nat, n < Cardinality(S), NEW order, InOrder(S, order, n)
    PROVE  InOrder(S, PutNext(S, order), n + 1)
<1> DEFINE ready == ReadyNext(S, order)
<1>1. order \in Seq(S) /\ DOMAIN order = 1..n /\ Len(order) = n
    BY DEF InOrder
<1>2. ToSet(order) \subseteq S /\ ToSet(order) # S
    <2>1. IsFiniteSet(1..n) /\ Cardinality(1..n) = n
        BY FS_Interval
    <2>2. order \in Surjection(1..n, ToSet(order))
        BY <1>1 DEF ToSet, Surjection
    <2>3. Cardinality(ToSet(order)) <= n
        BY <2>1, <2>2, FS_Surjection
    <2>4. Cardinality(S) \in Nat
        BY FS_CardinalityType
    <2>5. ToSet(order) \subseteq S
        BY <1>1 DEF ToSet
    <2> QED BY <2>3, <2>4, <2>5
<1>3. ready # {}
    <2> SUFFICES ASSUME ready = {} PROVE FALSE
        OBVIOUS
    <2> DEFINE left == S \ ToSet(order)
    <2>1. left \in SUBSET S /\ left # {}
        BY <1>2
    <2>2. ASSUME NEW p \in left PROVE Deps(p) \cap left # {}
        <3>1. ~ Deps(p) \subseteq ToSet(order)
            BY DEF ReadyNext
        <3>2. Deps(p) \subseteq S
            BY DEF RegistryValid, MissingDependency
        <3> QED BY <3>1, <3>2
    <2>3. Circular(S)
        BY <2>1, <2>2 DEF Circular
    <2> QED BY <2>3 DEF RegistryValid
<1> DEFINE p == First(ready)
<1>4. p \in ready
    BY <1>3, FirstIsReady DEF ReadyNext
<1>5. p \in S /\ p \notin ToSet(order) /\ Deps(p) \subseteq ToSet(order)
    BY <1>4 DEF ReadyNext
<1>6. PutNext(S, order) = Append(order, p)
    BY <1>3 DEF PutNext
<1> HIDE DEF p, ready
<1> DEFINE next == Append(order, p)
<1>7. next \in Seq(S) /\ Len(next) = n + 1 /\ next[n + 1] = p /\ \A i \in 1..n : next[i] = order[i]
    BY <1>1, <1>5
<1> HIDE DEF next
<1>8. \A i \in 1..n : order[i] # p
    BY <1>1, <1>5 DEF ToSet
<1>9. \A i, j \in 1..n + 1 : next[i] = next[j] => i = j
    BY <1>7, <1>8 DEF InOrder
<1>10. ASSUME NEW i \in 1..n + 1 PROVE Deps(next[i]) \subseteq {next[j] : j \in 1..i - 1}
    <2>1. CASE i = n + 1
        <3>1. ToSet(order) \subseteq {next[j] : j \in 1..n}
            BY <1>1, <1>7 DEF ToSet
        <3> QED BY <1>5, <1>7, <2>1, <3>1
    <2>2. CASE i # n + 1
        <3>1. i \in 1..n
            BY <2>2
        <3>2. {order[j] : j \in 1..i - 1} \subseteq {next[j] : j \in 1..i - 1}
            BY <1>7, <3>1
        <3> QED BY <1>7, <3>1, <3>2 DEF InOrder
    <2> QED BY <2>1, <2>2
<1>11. InOrder(S, next, n + 1)
    BY <1>7, <1>9, <1>10 DEF InOrder
<1> QED BY <1>6, <1>11 DEF next

\* The order of a valid registry has every projection, once and after what it
\* depends on.
LEMMA OrderIsComplete ==
    ASSUME PlanAssumption, NEW S, S \subseteq ProjectionNames, RegistryValid(S)
    PROVE  InOrder(S, ComputeOrder(S), Cardinality(S)) /\ ToSet(ComputeOrder(S)) = S /\ Cardinality(S) \in Nat
<1>1. IsFiniteSet(S) /\ Cardinality(S) \in Nat
    BY FS_Subset, FS_CardinalityType DEF PlanAssumption
<1> DEFINE N == Cardinality(S)
           o == OrderAfter(S)
           Bad == {k \in 0..N : ~ InOrder(S, o[k], k)}
<1>2. o[0] = <<>> /\ \A n \in 1..N : o[n] = PutNext(S, o[n - 1])
    BY <1>1, OrderAfterIs
<1> HIDE DEF o
<1>3. ASSUME Bad # {} PROVE FALSE
    <2>1. Bad \subseteq Nat
        BY <1>1
    <2>2. PICK k \in Bad : \A j \in Bad : k <= j
        BY <1>3, <2>1, LeastOf
    <2>3. InOrder(S, o[0], 0)
        BY <1>2 DEF InOrder
    <2>4. k # 0
        BY <2>2, <2>3
    <2>5. k \in 1..N /\ k - 1 \in Nat /\ k - 1 < N /\ k - 1 \notin Bad /\ k - 1 \in 0..N
        BY <1>1, <2>2, <2>4
    <2>6. InOrder(S, o[k - 1], k - 1)
        BY <2>5
    <2>7. InOrder(S, PutNext(S, o[k - 1]), k - 1 + 1)
        BY <1>1, <2>5, <2>6, TurnExtends
    <2>8. InOrder(S, o[k], k)
        BY <1>2, <2>5, <2>7
    <2> QED BY <2>2, <2>8
<1>4. InOrder(S, o[N], N)
    BY <1>1, <1>3
<1>5. ToSet(o[N]) = S
    <2>1. IsFiniteSet(1..N) /\ Cardinality(1..N) = N
        BY <1>1, FS_Interval
    <2>2. o[N] \in [1..N -> S] /\ DOMAIN o[N] = 1..N
        BY <1>1, <1>4 DEF InOrder
    <2>3. o[N] \in Injection(1..N, S)
        BY <1>4, <2>2 DEF InOrder, Injection, IsInjective
    <2>4. o[N] \in Surjection(1..N, S)
        BY <1>1, <2>1, <2>3, FS_Injection
    <2> QED BY <2>2, <2>4 DEF Surjection, ToSet
<1> QED BY <1>1, <1>4, <1>5 DEF ComputeOrder, o

\* f is the fingerprints after each of the first m projections
Resolving(f, m, order, inputs) ==
    f = [n \in 0..m |-> IF n = 0 THEN NoNames ELSE AddFingerprint(f[n - 1], order[n], inputs)]

\* The loop of the planner defines the fingerprints after each projection.
LEMMA ResolvedAfterIs ==
    ASSUME NEW T, NEW order \in Seq(T), NEW inputs
    PROVE  /\ ResolvedAfter(order, inputs)[0] = NoNames
           /\ \A n \in 1..Len(order) :
                 ResolvedAfter(order, inputs)[n] = AddFingerprint(ResolvedAfter(order, inputs)[n - 1], order[n], inputs)
<1> DEFINE Bad == {k \in 0..Len(order) : ~\E f : Resolving(f, k, order, inputs)}
<1>1. ASSUME Bad # {} PROVE FALSE
    <2>1. Bad \subseteq Nat
        OBVIOUS
    <2>2. PICK k \in Bad : \A j \in Bad : k <= j
        BY <1>1, <2>1, LeastOf
    <2>3. CASE k = 0
        <3>1. Resolving([n \in 0..0 |-> NoNames], 0, order, inputs)
            BY DEF Resolving
        <3> QED BY <2>3, <3>1
    <2>4. CASE k # 0
        <3>1. k - 1 \in 0..Len(order) /\ k - 1 \notin Bad
            BY <2>2, <2>4
        <3>2. PICK g : Resolving(g, k - 1, order, inputs)
            BY <3>1
        <3> DEFINE f == [n \in 0..k |-> IF n = k THEN AddFingerprint(g[k - 1], order[k], inputs) ELSE g[n]]
        <3>3. \A n \in 0..k : f[n] = IF n = 0 THEN NoNames ELSE AddFingerprint(f[n - 1], order[n], inputs)
            BY <2>4, <3>2 DEF Resolving
        <3>4. Resolving(f, k, order, inputs)
            BY <3>3 DEF Resolving
        <3> QED BY <3>4
    <2> QED BY <2>3, <2>4
<1>2. Len(order) \in Nat /\ Len(order) \in 0..Len(order)
    OBVIOUS
<1>3. \E f : Resolving(f, Len(order), order, inputs)
    BY <1>1, <1>2
<1>4. Resolving(ResolvedAfter(order, inputs), Len(order), order, inputs)
    BY <1>3 DEF ResolvedAfter, Resolving
<1> QED BY <1>2, <1>4 DEF Resolving

\* f is the values after each of the first m projections
Rebuilding(f, m, order, inputs) ==
    f = [n \in 0..m |-> IF n = 0 THEN NoNames ELSE AddValue(f[n - 1], order[n], inputs)]

\* Building in order defines the values after each projection.
LEMMA BuiltAfterIs ==
    ASSUME NEW T, NEW order \in Seq(T), NEW inputs
    PROVE  /\ BuiltAfter(order, inputs)[0] = NoNames
           /\ \A n \in 1..Len(order) :
                 BuiltAfter(order, inputs)[n] = AddValue(BuiltAfter(order, inputs)[n - 1], order[n], inputs)
<1> DEFINE Bad == {k \in 0..Len(order) : ~\E f : Rebuilding(f, k, order, inputs)}
<1>1. ASSUME Bad # {} PROVE FALSE
    <2>1. Bad \subseteq Nat
        OBVIOUS
    <2>2. PICK k \in Bad : \A j \in Bad : k <= j
        BY <1>1, <2>1, LeastOf
    <2>3. CASE k = 0
        <3>1. Rebuilding([n \in 0..0 |-> NoNames], 0, order, inputs)
            BY DEF Rebuilding
        <3> QED BY <2>3, <3>1
    <2>4. CASE k # 0
        <3>1. k - 1 \in 0..Len(order) /\ k - 1 \notin Bad
            BY <2>2, <2>4
        <3>2. PICK g : Rebuilding(g, k - 1, order, inputs)
            BY <3>1
        <3> DEFINE f == [n \in 0..k |-> IF n = k THEN AddValue(g[k - 1], order[k], inputs) ELSE g[n]]
        <3>3. \A n \in 0..k : f[n] = IF n = 0 THEN NoNames ELSE AddValue(f[n - 1], order[n], inputs)
            BY <2>4, <3>2 DEF Rebuilding
        <3>4. Rebuilding(f, k, order, inputs)
            BY <3>3 DEF Rebuilding
        <3> QED BY <3>4
    <2> QED BY <2>3, <2>4
<1>2. Len(order) \in Nat /\ Len(order) \in 0..Len(order)
    OBVIOUS
<1>3. \E f : Rebuilding(f, Len(order), order, inputs)
    BY <1>1, <1>2
<1>4. Rebuilding(BuiltAfter(order, inputs), Len(order), order, inputs)
    BY <1>3 DEF BuiltAfter, Rebuilding
<1> QED BY <1>2, <1>4 DEF Rebuilding

\* nothing is dirty before the first projection
NoneDirty == {}

\* f is the dirty projections among the first n, for each n up to m
Soiling(f, m, order, fps) ==
    f = [n \in 0..m |-> IF n = 0 THEN NoneDirty ELSE AddDirty(f[n - 1], order[n], fps)]

\* The loop of the planner defines the dirty nodes after each projection.
LEMMA DirtyAfterIs ==
    ASSUME NEW T, NEW order \in Seq(T), NEW fps
    PROVE  /\ DirtyAfter(order, fps)[0] = NoneDirty
           /\ \A n \in 1..Len(order) :
                 DirtyAfter(order, fps)[n] = AddDirty(DirtyAfter(order, fps)[n - 1], order[n], fps)
<1> DEFINE Bad == {k \in 0..Len(order) : ~\E f : Soiling(f, k, order, fps)}
<1>1. ASSUME Bad # {} PROVE FALSE
    <2>1. Bad \subseteq Nat
        OBVIOUS
    <2>2. PICK k \in Bad : \A j \in Bad : k <= j
        BY <1>1, <2>1, LeastOf
    <2>3. CASE k = 0
        <3>1. Soiling([n \in 0..0 |-> NoneDirty], 0, order, fps)
            BY DEF Soiling
        <3> QED BY <2>3, <3>1
    <2>4. CASE k # 0
        <3>1. k - 1 \in 0..Len(order) /\ k - 1 \notin Bad
            BY <2>2, <2>4
        <3>2. PICK g : Soiling(g, k - 1, order, fps)
            BY <3>1
        <3> DEFINE f == [n \in 0..k |-> IF n = k THEN AddDirty(g[k - 1], order[k], fps) ELSE g[n]]
        <3>3. \A n \in 0..k : f[n] = IF n = 0 THEN NoneDirty ELSE AddDirty(f[n - 1], order[n], fps)
            BY <2>4, <3>2 DEF Soiling
        <3>4. Soiling(f, k, order, fps)
            BY <3>3 DEF Soiling
        <3> QED BY <3>4
    <2> QED BY <2>3, <2>4
<1>2. Len(order) \in Nat /\ Len(order) \in 0..Len(order)
    OBVIOUS
<1>3. \E f : Soiling(f, Len(order), order, fps)
    BY <1>1, <1>2
<1>4. Soiling(DirtyAfter(order, fps), Len(order), order, fps)
    BY <1>3 DEF DirtyAfter, Soiling, NoneDirty
<1> QED BY <1>2, <1>4 DEF Soiling

\* A fingerprint depends on those of the dependencies and no others.
LEMMA FingerprintSame ==
    ASSUME NEW p, NEW f, NEW g, NEW inputs, \A d \in Deps(p) : f[d] = g[d]
    PROVE  Fingerprint(p, f, inputs) = Fingerprint(p, g, inputs)
<1>1. [d \in Deps(p) |-> f[d]] = [d \in Deps(p) |-> g[d]]
    OBVIOUS
<1> QED BY <1>1 DEF Fingerprint

\* A value depends on those of the dependencies and no others.
LEMMA ValueSame ==
    ASSUME NEW p, NEW f, NEW g, NEW inputs, \A d \in Deps(p) : f[d] = g[d]
    PROVE  Value(p, inputs, f) = Value(p, inputs, g)
<1>1. [d \in Deps(p) |-> f[d]] = [d \in Deps(p) |-> g[d]]
    OBVIOUS
<1> QED BY <1>1 DEF Value

\* f has the first n projections, each with the fingerprint its dependencies give
Resolved(f, n, order, inputs) ==
    /\ DOMAIN f = {order[j] : j \in 1..n}
    /\ \A j \in 1..n : f[order[j]] = Fingerprint(order[j], f, inputs)

\* The next projection leaves the fingerprints of those before it as they are.
LEMMA ResolvedNext ==
    ASSUME NEW S, NEW N, NEW order, InOrder(S, order, N), NEW n \in 1..N, N \in Nat, NEW inputs,
           NEW f, Resolved(f, n - 1, order, inputs)
    PROVE  Resolved(AddFingerprint(f, order[n], inputs), n, order, inputs)
<1> DEFINE x == Fingerprint(order[n], f, inputs)
           g == PutAt(f, order[n], x)
<1>1. DOMAIN g = DOMAIN f \cup {order[n]} /\ g[order[n]] = x
      /\ \A q \in DOMAIN f : q # order[n] => g[q] = f[q]
    BY DEF PutAt
<1>2. DOMAIN g = {order[j] : j \in 1..n}
    <2>1. {order[j] : j \in 1..n} = {order[j] : j \in 1..n - 1} \cup {order[n]}
        OBVIOUS
    <2> QED BY <1>1, <2>1 DEF Resolved
<1> HIDE DEF g
<1>3. \A j \in 1..n - 1 : g[order[j]] = f[order[j]]
    BY <1>1 DEF Resolved, InOrder
<1>4. ASSUME NEW j \in 1..n, NEW d \in Deps(order[j]) PROVE g[d] = f[d]
    <2>1. PICK i \in 1..j - 1 : d = order[i]
        BY <1>4 DEF InOrder
    <2> QED BY <1>3, <2>1
<1>5. ASSUME NEW j \in 1..n PROVE g[order[j]] = Fingerprint(order[j], g, inputs)
    <2>1. Fingerprint(order[j], g, inputs) = Fingerprint(order[j], f, inputs)
        BY <1>4, FingerprintSame
    <2>2. CASE j = n
        BY <1>1, <2>1, <2>2
    <2>3. CASE j # n
        BY <1>3, <2>1, <2>3 DEF Resolved
    <2> QED BY <2>2, <2>3
<1>6. Resolved(g, n, order, inputs)
    BY <1>2, <1>5 DEF Resolved
<1> QED BY <1>6 DEF AddFingerprint, g

\* Every projection of a complete order has the fingerprint its dependencies give.
LEMMA ResolveIs ==
    ASSUME NEW S, NEW N \in Nat, NEW order, InOrder(S, order, N), NEW inputs
    PROVE  Resolved(Resolve(order, inputs), N, order, inputs)
<1> DEFINE f == ResolvedAfter(order, inputs)
           Bad == {k \in 0..N : ~ Resolved(f[k], k, order, inputs)}
<1>1. order \in Seq(S) /\ Len(order) = N
    BY DEF InOrder
<1>2. f[0] = NoNames /\ \A n \in 1..N : f[n] = AddFingerprint(f[n - 1], order[n], inputs)
    BY <1>1, ResolvedAfterIs
<1> HIDE DEF f
<1>3. ASSUME Bad # {} PROVE FALSE
    <2>1. Bad \subseteq Nat
        OBVIOUS
    <2>2. PICK k \in Bad : \A j \in Bad : k <= j
        BY <1>3, <2>1, LeastOf
    <2>3. Resolved(f[0], 0, order, inputs)
        BY <1>2 DEF Resolved, NoNames
    <2>4. k \in 1..N /\ k - 1 \notin Bad /\ k - 1 \in 0..N
        BY <2>2, <2>3
    <2>5. Resolved(AddFingerprint(f[k - 1], order[k], inputs), k, order, inputs)
        BY <2>4, ResolvedNext
    <2> QED BY <1>2, <2>2, <2>4, <2>5
<1>4. Resolved(f[N], N, order, inputs)
    BY <1>3
<1> QED BY <1>1, <1>4 DEF Resolve, f

\* f has the first n projections, each with the value its dependencies give
Valued(f, n, order, inputs) ==
    /\ DOMAIN f = {order[j] : j \in 1..n}
    /\ \A j \in 1..n : f[order[j]] = Value(order[j], inputs, f)

\* The next projection leaves the values of those before it as they are.
LEMMA ValuedNext ==
    ASSUME NEW S, NEW N, NEW order, InOrder(S, order, N), NEW n \in 1..N, N \in Nat, NEW inputs,
           NEW f, Valued(f, n - 1, order, inputs)
    PROVE  Valued(AddValue(f, order[n], inputs), n, order, inputs)
<1> DEFINE x == Value(order[n], inputs, f)
           g == PutAt(f, order[n], x)
<1>1. DOMAIN g = DOMAIN f \cup {order[n]} /\ g[order[n]] = x
      /\ \A q \in DOMAIN f : q # order[n] => g[q] = f[q]
    BY DEF PutAt
<1>2. DOMAIN g = {order[j] : j \in 1..n}
    <2>1. {order[j] : j \in 1..n} = {order[j] : j \in 1..n - 1} \cup {order[n]}
        OBVIOUS
    <2> QED BY <1>1, <2>1 DEF Valued
<1> HIDE DEF g
<1>3. \A j \in 1..n - 1 : g[order[j]] = f[order[j]]
    BY <1>1 DEF Valued, InOrder
<1>4. ASSUME NEW j \in 1..n, NEW d \in Deps(order[j]) PROVE g[d] = f[d]
    <2>1. PICK i \in 1..j - 1 : d = order[i]
        BY <1>4 DEF InOrder
    <2> QED BY <1>3, <2>1
<1>5. ASSUME NEW j \in 1..n PROVE g[order[j]] = Value(order[j], inputs, g)
    <2>1. Value(order[j], inputs, g) = Value(order[j], inputs, f)
        BY <1>4, ValueSame
    <2>2. CASE j = n
        BY <1>1, <2>1, <2>2
    <2>3. CASE j # n
        BY <1>3, <2>1, <2>3 DEF Valued
    <2> QED BY <2>2, <2>3
<1>6. Valued(g, n, order, inputs)
    BY <1>2, <1>5 DEF Valued
<1> QED BY <1>6 DEF AddValue, g

\* Every projection of a complete order has the value its dependencies give.
LEMMA RebuiltIs ==
    ASSUME NEW S, NEW N \in Nat, NEW order, InOrder(S, order, N), NEW inputs
    PROVE  Valued(Rebuilt(order, inputs), N, order, inputs)
<1> DEFINE f == BuiltAfter(order, inputs)
           Bad == {k \in 0..N : ~ Valued(f[k], k, order, inputs)}
<1>1. order \in Seq(S) /\ Len(order) = N
    BY DEF InOrder
<1>2. f[0] = NoNames /\ \A n \in 1..N : f[n] = AddValue(f[n - 1], order[n], inputs)
    BY <1>1, BuiltAfterIs
<1> HIDE DEF f
<1>3. ASSUME Bad # {} PROVE FALSE
    <2>1. Bad \subseteq Nat
        OBVIOUS
    <2>2. PICK k \in Bad : \A j \in Bad : k <= j
        BY <1>3, <2>1, LeastOf
    <2>3. Valued(f[0], 0, order, inputs)
        BY <1>2 DEF Valued, NoNames
    <2>4. k \in 1..N /\ k - 1 \notin Bad /\ k - 1 \in 0..N
        BY <2>2, <2>3
    <2>5. Valued(AddValue(f[k - 1], order[k], inputs), k, order, inputs)
        BY <2>4, ValuedNext
    <2> QED BY <1>2, <2>2, <2>4, <2>5
<1>4. Valued(f[N], N, order, inputs)
    BY <1>3
<1> QED BY <1>1, <1>4 DEF Rebuilt, f

\* among the first n, the dirty ones are those the planner finds so
DirtyUpTo(dirty, n, order, fps) ==
    /\ dirty \subseteq {order[j] : j \in 1..n}
    /\ \A j \in 1..n : order[j] \in dirty <=> IsDirty(order[j], dirty, fps)

\* The next projection leaves those before it as dirty as they are.
LEMMA DirtyNext ==
    ASSUME NEW S, NEW N, NEW order, InOrder(S, order, N), NEW n \in 1..N, N \in Nat, NEW fps,
           NEW dirty, DirtyUpTo(dirty, n - 1, order, fps)
    PROVE  DirtyUpTo(AddDirty(dirty, order[n], fps), n, order, fps)
<1> DEFINE next == AddDirty(dirty, order[n], fps)
<1>1. next \subseteq dirty \cup {order[n]} /\ dirty \subseteq next
      /\ (order[n] \in next <=> order[n] \in dirty \/ IsDirty(order[n], dirty, fps))
    BY DEF AddDirty
<1> HIDE DEF next
<1>2. order[n] \notin dirty
    BY DEF DirtyUpTo, InOrder
<1>3. next \subseteq {order[j] : j \in 1..n}
    <2>1. {order[j] : j \in 1..n - 1} \subseteq {order[j] : j \in 1..n}
        OBVIOUS
    <2>2. order[n] \in {order[j] : j \in 1..n}
        OBVIOUS
    <2> QED BY <1>1, <2>1, <2>2 DEF DirtyUpTo
<1>4. ASSUME NEW j \in 1..n PROVE Deps(order[j]) \cap next = Deps(order[j]) \cap dirty
    <2>1. ASSUME NEW d \in Deps(order[j]) PROVE d # order[n]
        <3>1. PICK i \in 1..j - 1 : d = order[i]
            BY <2>1 DEF InOrder
        <3> QED BY <3>1 DEF InOrder
    <2> QED BY <1>1, <2>1
<1>5. \A j \in 1..n : IsDirty(order[j], next, fps) <=> IsDirty(order[j], dirty, fps)
    BY <1>4 DEF IsDirty
<1>6. \A j \in 1..n - 1 : order[j] \in next <=> order[j] \in dirty
    BY <1>1 DEF InOrder
<1>7. ASSUME NEW j \in 1..n PROVE order[j] \in next <=> IsDirty(order[j], next, fps)
    <2>1. CASE j = n
        BY <1>1, <1>2, <1>5, <2>1
    <2>2. CASE j # n
        BY <1>5, <1>6, <2>2 DEF DirtyUpTo
    <2> QED BY <2>1, <2>2
<1>8. DirtyUpTo(next, n, order, fps)
    BY <1>3, <1>7 DEF DirtyUpTo
<1> QED BY <1>8 DEF next

\* The dirty nodes of a plan are those that are dirty given all the others.
LEMMA DirtyNodesIs ==
    ASSUME NEW S, NEW N \in Nat, NEW order, InOrder(S, order, N), NEW fps
    PROVE  DirtyUpTo(DirtyNodes(order, fps), N, order, fps)
<1> DEFINE f == DirtyAfter(order, fps)
           Bad == {k \in 0..N : ~ DirtyUpTo(f[k], k, order, fps)}
<1>1. order \in Seq(S) /\ Len(order) = N
    BY DEF InOrder
<1>2. f[0] = NoneDirty /\ \A n \in 1..N : f[n] = AddDirty(f[n - 1], order[n], fps)
    BY <1>1, DirtyAfterIs
<1> HIDE DEF f
<1>3. ASSUME Bad # {} PROVE FALSE
    <2>1. Bad \subseteq Nat
        OBVIOUS
    <2>2. PICK k \in Bad : \A j \in Bad : k <= j
        BY <1>3, <2>1, LeastOf
    <2>3. DirtyUpTo(f[0], 0, order, fps)
        BY <1>2 DEF DirtyUpTo, NoneDirty
    <2>4. k \in 1..N /\ k - 1 \notin Bad /\ k - 1 \in 0..N
        BY <2>2, <2>3
    <2>5. DirtyUpTo(AddDirty(f[k - 1], order[k], fps), k, order, fps)
        BY <2>4, DirtyNext
    <2> QED BY <1>2, <2>2, <2>4, <2>5
<1>4. DirtyUpTo(f[N], N, order, fps)
    BY <1>3
<1> QED BY <1>1, <1>4 DEF DirtyNodes, f

\* what the ledger feeds
EventFed(p) == Declared[p].source = "events"

\* the fingerprint and the value of p are the same from two inputs
SameFrom(p, order, a, b) ==
    Resolve(order, a)[p] = Resolve(order, b)[p] /\ Rebuilt(order, a)[p] = Rebuilt(order, b)[p]

\* the events decide, and their number can be told from the fingerprint
TellsEvents(p, order, a, b) ==
    /\ a.events = b.events => SameFrom(p, order, a, b)
    /\ Resolve(order, a)[p] = Resolve(order, b)[p] => Len(a.events) = Len(b.events)

\* Nothing but the events counts for what the ledger feeds, and the fingerprint
\* tells streams of different lengths apart.
LEMMA LedgerAlone ==
    ASSUME PlanAssumption, NEW S, S \subseteq ProjectionNames, NEW N \in Nat, NEW order, InOrder(S, order, N),
           ~ InvalidKind(S), NEW a, NEW b, NEW n \in 1..N, EventFed(order[n])
    PROVE  TellsEvents(order[n], order, a, b)
<1> DEFINE f == Resolve(order, a)
           g == Resolve(order, b)
           u == Rebuilt(order, a)
           v == Rebuilt(order, b)
           Same(p) == f[p] = g[p] /\ u[p] = v[p]
           Fine(k) == /\ a.events = b.events => Same(order[k])
                      /\ f[order[k]] = g[order[k]] => Len(a.events) = Len(b.events)
           Bad == {k \in 1..N : EventFed(order[k]) /\ ~ Fine(k)}
<1>1. \A k \in 1..N : f[order[k]] = Fingerprint(order[k], f, a) /\ g[order[k]] = Fingerprint(order[k], g, b)
    <2>1. Resolved(f, N, order, a) /\ Resolved(g, N, order, b)
        BY ResolveIs
    <2> QED BY <2>1 DEF Resolved
<1>2. \A k \in 1..N : u[order[k]] = Value(order[k], a, u) /\ v[order[k]] = Value(order[k], b, v)
    <2>1. Valued(u, N, order, a) /\ Valued(v, N, order, b)
        BY RebuiltIs
    <2> QED BY <2>1 DEF Valued
<1> HIDE DEF f, g, u, v
<1>3. ASSUME Bad # {} PROVE FALSE
    <2>1. Bad \subseteq Nat
        OBVIOUS
    <2>2. PICK k \in Bad : \A j \in Bad : k <= j
        BY <1>3, <2>1, LeastOf
    <2> DEFINE p == order[k]
    <2>3. p \in S /\ p \in ProjectionNames /\ EventFed(p) /\ k \in 1..N
        BY <2>2 DEF InOrder
    <2>4. \A d \in Deps(p) : \E j \in 1..k - 1 : d = order[j]
        BY <2>3 DEF InOrder
    <2>5. CASE Deps(p) = {}
        <3>1. Declared[p].input = "events"
            BY <2>3, <2>5 DEF PlanAssumption, EventFed
        <3>2. CurrentFingerprint(p, a) = EventStreamFingerprint(a.events)
              /\ CurrentFingerprint(p, b) = EventStreamFingerprint(b.events)
            BY <3>1 DEF CurrentFingerprint
        <3>3. EventStreamFingerprint(a.events) = EventStreamFingerprint(b.events) => Len(a.events) = Len(b.events)
            BY DEF EventStreamFingerprint
        <3>4. /\ a.events = b.events => Fingerprint(p, f, a) = Fingerprint(p, g, b)
              /\ Fingerprint(p, f, a) = Fingerprint(p, g, b) => CurrentFingerprint(p, a) = CurrentFingerprint(p, b)
            <4>1. CASE Declared[p].kind = "base"
                BY <3>2, <4>1 DEF Fingerprint
            <4>2. CASE Declared[p].kind # "base"
                <5>1. [d \in Deps(p) |-> f[d]] = [d \in Deps(p) |-> g[d]]
                    BY <2>5
                <5> QED BY <2>5, <3>2, <4>2, <5>1 DEF Fingerprint, CompositeFingerprint
            <4> QED BY <4>1, <4>2
        <3>5. a.events = b.events => Value(p, a, u) = Value(p, b, v)
            BY <2>5, <3>1 DEF Value
        <3>6. Fine(k)
            BY <1>1, <1>2, <2>3, <3>2, <3>3, <3>4, <3>5
        <3> QED BY <2>2, <3>6
    <2>6. CASE Deps(p) # {}
        <3>1. \A d \in Deps(p) : EventFed(d)
            BY <2>3, <2>6 DEF PlanAssumption, EventFed
        <3>2. ASSUME NEW d \in Deps(p) PROVE \E j \in 1..k - 1 : d = order[j] /\ Fine(j)
            <4>1. PICK j \in 1..k - 1 : d = order[j]
                BY <2>4
            <4>2. j \notin Bad /\ j \in 1..N
                BY <2>2, <2>3
            <4> QED BY <3>1, <4>1, <4>2
        <3>3. Declared[p].kind # "base"
            BY <2>3, <2>6 DEF InvalidKind
        <3> DEFINE fd == [d \in Deps(p) |-> f[d]]
                   gd == [d \in Deps(p) |-> g[d]]
        <3>4. Fingerprint(p, f, a) = CompositeFingerprint(fd, Nothing) /\ Fingerprint(p, g, b) = CompositeFingerprint(gd, Nothing)
            BY <2>6, <3>3 DEF Fingerprint
        <3>5. Value(p, a, u) = [d \in Deps(p) |-> u[d]] /\ Value(p, b, v) = [d \in Deps(p) |-> v[d]]
            BY <2>6 DEF Value
        <3>6. ASSUME a.events = b.events PROVE Same(p)
            <4>1. \A d \in Deps(p) : f[d] = g[d] /\ u[d] = v[d]
                BY <3>2, <3>6
            <4>2. fd = gd /\ [d \in Deps(p) |-> u[d]] = [d \in Deps(p) |-> v[d]]
                BY <4>1
            <4>3. Fingerprint(p, f, a) = Fingerprint(p, g, b)
                BY <3>4, <4>2
            <4>4. Value(p, a, u) = Value(p, b, v)
                BY <3>5, <4>2
            <4>5. f[p] = g[p]
                BY <1>1, <2>3, <4>3
            <4>6. u[p] = v[p]
                BY <1>2, <2>3, <4>4
            <4> QED BY <4>5, <4>6
        <3>7. ASSUME f[p] = g[p] PROVE Len(a.events) = Len(b.events)
            <4>1. CompositeFingerprint(fd, Nothing) = CompositeFingerprint(gd, Nothing)
                BY <1>1, <2>3, <3>4, <3>7
            <4>2. fd = gd
                BY <4>1 DEF CompositeFingerprint
            <4>3. PICK d \in Deps(p) : TRUE
                BY <2>6
            <4>4. f[d] = g[d]
                BY <4>2, <4>3
            <4> QED BY <3>2, <4>3, <4>4
        <3> QED BY <2>2, <3>6, <3>7
    <2> QED BY <2>5, <2>6
<1>4. Fine(n)
    BY <1>3
<1> QED BY <1>4 DEF TellsEvents, SameFrom, f, g, u, v

-----------------------------------------------------------------------------
(* The invariant of the planner *)

\* the first m events of the log, and no knowledge
UpTo(m) == [events |-> [i \in 1..m |-> log[i]], knowledge |-> NoNames]

\* the entry of p is what a build from the inputs stores
MadeFrom(p, inputs) ==
    /\ cached[p].fingerprint = Resolve(ComputeOrder(projections), inputs)[p]
    /\ cached[p].value = Rebuilt(ComputeOrder(projections), inputs)[p]

\* an entry of what the ledger feeds was made from the log as it was at some time
EntriesMade ==
    \A p \in projections : EventFed(p) /\ cached[p] # Nothing => \E m \in 0..Len(log) : MadeFrom(p, UpTo(m))

PlanRecord(waiting, fps, inputs, order, dirty) ==
    [todo |-> waiting, fps |-> fps, inputs |-> inputs, order |-> order, dirty |-> dirty]

\* a plan is for the log as it was at some time, and what it has not to build, or
\* no more, is there as of that time
BuildSound ==
    \/ build = NoBuild
    \/ /\ plans # 0
       /\ build = PlanRecord(build.todo, build.fps, build.inputs, build.order, build.dirty)
       /\ build.order = ComputeOrder(projections)
       /\ \E m \in 0..Len(log) : build.inputs.events = UpTo(m).events
       /\ build.fps = Resolve(build.order, build.inputs)
       /\ \A p \in projections : Deps(p) \cap build.dirty # {} => p \in build.dirty
       /\ build.todo # {} => \A p \in projections \ build.todo : EventFed(p) => MadeFrom(p, build.inputs)

PlanInv ==
    /\ projections \subseteq ProjectionNames
    /\ log \in Seq(LogMenu)
    /\ plans \in Nat
    /\ DOMAIN cached = ProjectionNames
    /\ plans = 0 => build = NoBuild /\ \A p \in ProjectionNames : cached[p] = Nothing
    /\ plans # 0 => RegistryValid(projections)
    /\ EntriesMade
    /\ BuildSound

\* A clean entry was made from the whole log: its fingerprint is that of the log
\* now, and no shorter prefix has it.
LEMMA CleanIsCurrent ==
    ASSUME PlanAssumption, PlanInv, RegistryValid(projections),
           NEW p \in projections, EventFed(p),
           p \notin DirtyNodes(ComputeOrder(projections), Resolve(ComputeOrder(projections), Inputs))
    PROVE  MadeFrom(p, Inputs)
<1> DEFINE order == ComputeOrder(projections)
           N == Cardinality(projections)
           fps == Resolve(order, Inputs)
           dirty == DirtyNodes(order, fps)
<1>1. InOrder(projections, order, N) /\ ToSet(order) = projections /\ N \in Nat
    BY OrderIsComplete DEF PlanInv
<1> HIDE DEF order, N
<1>2. PICK n \in 1..N : p = order[n]
    BY <1>1 DEF ToSet, InOrder
<1>3. DirtyUpTo(dirty, N, order, fps)
    BY <1>1, DirtyNodesIs
<1>4. p \notin dirty
    BY DEF order
<1> HIDE DEF dirty
<1>5. ~ IsDirty(p, dirty, fps)
    BY <1>2, <1>3, <1>4 DEF DirtyUpTo
<1>6. cached[p] # Nothing /\ cached[p].fingerprint = fps[p]
    BY <1>5 DEF IsDirty
<1>7. PICK m \in 0..Len(log) : MadeFrom(p, UpTo(m))
    BY <1>6 DEF PlanInv, EntriesMade
<1>8. Resolve(order, UpTo(m))[p] = fps[p]
    BY <1>6, <1>7 DEF MadeFrom, order
<1>9. ~ InvalidKind(projections) /\ projections \subseteq ProjectionNames /\ EventFed(order[n])
    BY <1>2 DEF PlanInv, RegistryValid
<1>10. TellsEvents(order[n], order, UpTo(m), Inputs)
    BY <1>1, <1>2, <1>9, LedgerAlone
<1>11. Len(UpTo(m).events) = m /\ Inputs.events = log
    BY DEF UpTo, Inputs
<1>12. m = Len(log)
    BY <1>2, <1>8, <1>10, <1>11 DEF TellsEvents
<1>13. UpTo(m).events = log
    BY <1>12 DEF UpTo, PlanInv
<1>14. SameFrom(order[n], order, UpTo(m), Inputs)
    BY <1>10, <1>11, <1>13 DEF TellsEvents
<1> QED BY <1>2, <1>7, <1>14 DEF MadeFrom, SameFrom, order

\* Initially nothing is registered.
LEMMA PlanStarts == PlanInit => PlanInv
<1> SUFFICES ASSUME PlanInit PROVE PlanInv
    OBVIOUS
<1>1. log \in Seq(LogMenu) /\ projections = {}
    BY DEF PlanInit
<1> QED BY <1>1 DEF PlanInit, PlanInv, EntriesMade, BuildSound

\* Before the first plan there is nothing that another projection could disturb.
LEMMA RegisterProjectionKeeps ==
    ASSUME PlanInv, NEW p \in ProjectionNames, RegisterProjection(p)
    PROVE  PlanInv'
<1>1. EntriesMade'
    BY DEF PlanInv, RegisterProjection, EntriesMade
<1>2. BuildSound'
    BY DEF PlanInv, RegisterProjection, BuildSound
<1> QED BY <1>1, <1>2 DEF PlanInv, RegisterProjection

\* A longer log, or other knowledge, leaves what was made from a prefix made from it.
LEMMA InputsGrow ==
    ASSUME PlanInv, UNCHANGED <<projections, cached, build, plans>>,
           log' \in Seq(LogMenu), Len(log') >= Len(log), \A i \in 1..Len(log) : log'[i] = log[i]
    PROVE  PlanInv'
<1>1. Len(log) \in Nat /\ Len(log') \in Nat
    BY DEF PlanInv
<1>2. ASSUME NEW m \in 0..Len(log) PROVE m \in 0..Len(log') /\ UpTo(m)' = UpTo(m)
    <2>1. [i \in 1..m |-> log'[i]] = [i \in 1..m |-> log[i]]
        BY <1>1
    <2> QED BY <1>1, <2>1 DEF UpTo
<1>3. EntriesMade'
    <2> SUFFICES ASSUME NEW p \in projections, EventFed(p), cached[p] # Nothing
                 PROVE  \E m \in 0..Len(log') : MadeFrom(p, UpTo(m))'
        BY DEF EntriesMade
    <2>1. PICK m \in 0..Len(log) : MadeFrom(p, UpTo(m))
        BY DEF PlanInv, EntriesMade
    <2>2. MadeFrom(p, UpTo(m))'
        BY <1>2, <2>1 DEF MadeFrom
    <2> QED BY <1>2, <2>2
<1>4. BuildSound'
    <2>1. CASE build = NoBuild
        BY <2>1 DEF BuildSound
    <2>2. CASE build # NoBuild
        <3>1. \E m \in 0..Len(log') : build.inputs.events = UpTo(m)'.events
            BY <1>2, <2>2 DEF PlanInv, BuildSound
        <3>2. \A p : MadeFrom(p, build.inputs)' <=> MadeFrom(p, build.inputs)
            BY DEF MadeFrom
        <3> QED BY <2>2, <3>1, <3>2 DEF PlanInv, BuildSound
    <2> QED BY <2>1, <2>2
<1> QED BY <1>3, <1>4 DEF PlanInv

\* A plan starts from entries that are either dirty or current.
LEMMA PlanKeeps ==
    ASSUME PlanAssumption, PlanInv, Plan
    PROVE  PlanInv'
<1> DEFINE order == ComputeOrder(projections)
           N == Cardinality(projections)
           fps == Resolve(order, Inputs)
           dirty == DirtyNodes(order, fps)
<1>1. /\ RegistryValid(projections)
      /\ build' = [todo |-> dirty, fps |-> fps, inputs |-> Inputs, order |-> order, dirty |-> dirty]
      /\ plans' = plans + 1 /\ UNCHANGED <<projections, log, knowledgeRows, cached>>
    BY DEF Plan
<1>2. InOrder(projections, order, N) /\ ToSet(order) = projections /\ N \in Nat
    BY <1>1, OrderIsComplete DEF PlanInv
<1>3. DirtyUpTo(dirty, N, order, fps)
    BY <1>2, DirtyNodesIs
<1>4. \A p \in projections \ dirty : EventFed(p) => MadeFrom(p, Inputs)
    BY <1>1, CleanIsCurrent
<1>5. ASSUME NEW p \in projections, Deps(p) \cap dirty # {} PROVE p \in dirty
    <2> HIDE DEF dirty, order, N
    <2>1. PICK n \in 1..N : p = order[n]
        BY <1>2 DEF ToSet, InOrder
    <2>2. IsDirty(p, dirty, fps)
        BY <1>5 DEF IsDirty
    <2> QED BY <1>3, <2>1, <2>2 DEF DirtyUpTo
<1> HIDE DEF dirty, fps, order
<1>6. plans' # 0 /\ plans' \in Nat
    BY <1>1 DEF PlanInv
<1>7. EntriesMade'
    <2> SUFFICES ASSUME NEW p \in projections, EventFed(p), cached[p] # Nothing
                 PROVE  \E m \in 0..Len(log) : MadeFrom(p, UpTo(m))'
        BY <1>1 DEF EntriesMade
    <2>1. PICK m \in 0..Len(log) : MadeFrom(p, UpTo(m))
        BY DEF PlanInv, EntriesMade
    <2>2. MadeFrom(p, UpTo(m))'
        BY <1>1, <2>1 DEF MadeFrom, UpTo
    <2> QED BY <2>2
<1>8. BuildSound'
    <2>1. build'.order = ComputeOrder(projections)' /\ build'.inputs = Inputs /\ build'.fps = fps /\ build'.dirty = dirty
          /\ build'.todo = dirty
          /\ build' = PlanRecord(build'.todo, build'.fps, build'.inputs, build'.order, build'.dirty)
        BY <1>1 DEF order, PlanRecord
    <2>2. \E m \in 0..Len(log') : build'.inputs.events = UpTo(m)'.events
        <3>1. Len(log) \in 0..Len(log) /\ log = [i \in 1..Len(log) |-> log[i]]
            BY DEF PlanInv
        <3>2. Inputs.events = log
            BY DEF Inputs
        <3>3. UpTo(Len(log))'.events = log
            BY <1>1, <3>1 DEF UpTo
        <3> QED BY <1>1, <2>1, <3>1, <3>2, <3>3
    <2>3. build'.fps = Resolve(build'.order, build'.inputs)
        BY <1>1 DEF fps
    <2>4. \A p \in projections' \ build'.todo : EventFed(p) => MadeFrom(p, build.inputs)'
        <3> SUFFICES ASSUME NEW p \in projections \ dirty, EventFed(p) PROVE MadeFrom(p, build.inputs)'
            BY <1>1, <2>1
        <3>1. MadeFrom(p, Inputs)
            BY <1>4
        <3> QED BY <1>1, <2>1, <3>1 DEF MadeFrom
    <2> QED BY <1>1, <1>5, <1>6, <2>1, <2>2, <2>3, <2>4 DEF BuildSound
<1> QED BY <1>1, <1>6, <1>7, <1>8 DEF PlanInv

\* The next node of a plan is built from entries that are as of the plan.
LEMMA BuildNodeKeeps ==
    ASSUME PlanAssumption, PlanInv, BuildNode
    PROVE  PlanInv'
<1>1. PICK i \in DOMAIN build.order :
          /\ build.order[i] \in build.todo /\ \A j \in 1..i - 1 : build.order[j] \notin build.todo
          /\ cached' = [cached EXCEPT ![build.order[i]] =
                           [value |-> Value(build.order[i], build.inputs, [d \in Deps(build.order[i]) |-> cached[d].value]),
                            fingerprint |-> build.fps[build.order[i]]]]
          /\ build' = [build EXCEPT !.todo = @ \ {build.order[i]}]
          /\ UNCHANGED <<projections, log, knowledgeRows, plans>>
    BY DEF BuildNode
<1> DEFINE order == ComputeOrder(projections)
           N == Cardinality(projections)
           p == build.order[i]
           inputs == build.inputs
           inputValues == [d \in Deps(p) |-> cached[d].value]
<1>2. build # NoBuild
    BY <1>1 DEF NoBuild
<1>3. /\ plans # 0 /\ build.order = order
      /\ build.fps = Resolve(order, inputs)
      /\ \A q \in projections \ build.todo : EventFed(q) => MadeFrom(q, inputs)
    BY <1>1, <1>2 DEF PlanInv, BuildSound
<1>4. RegistryValid(projections) /\ projections \subseteq ProjectionNames
    BY <1>3 DEF PlanInv
<1>5. InOrder(projections, order, N) /\ ToSet(order) = projections /\ N \in Nat
    BY <1>4, OrderIsComplete
<1> HIDE DEF order, N
<1>6. i \in 1..N /\ p = order[i] /\ p \in projections /\ p \in ProjectionNames
    BY <1>1, <1>3, <1>4, <1>5 DEF InOrder
<1>7. ASSUME EventFed(p)
      PROVE  Value(p, inputs, inputValues) = Rebuilt(order, inputs)[p] /\ build.fps[p] = Resolve(order, inputs)[p]
    <2>1. ASSUME NEW d \in Deps(p) PROVE inputValues[d] = Rebuilt(order, inputs)[d]
        <3>1. PICK j \in 1..i - 1 : d = order[j]
            BY <1>5, <1>6 DEF InOrder
        <3>2. d \notin build.todo /\ d \in projections
            BY <1>1, <1>3, <1>5, <1>6, <3>1 DEF InOrder
        <3>3. EventFed(d)
            BY <1>6, <1>7 DEF PlanAssumption, EventFed
        <3>4. MadeFrom(d, inputs)
            BY <1>3, <3>2, <3>3
        <3> QED BY <3>4 DEF MadeFrom, order
    <2>2. Value(p, inputs, inputValues) = Value(p, inputs, Rebuilt(order, inputs))
        BY <2>1, ValueSame
    <2>3. Valued(Rebuilt(order, inputs), N, order, inputs)
        BY <1>5, RebuiltIs
    <2>4. Rebuilt(order, inputs)[p] = Value(p, inputs, Rebuilt(order, inputs))
        BY <1>6, <2>3 DEF Valued
    <2> QED BY <1>3, <2>2, <2>4
<1> HIDE DEF inputValues
<1>8. /\ DOMAIN cached' = ProjectionNames
      /\ cached'[p] = [value |-> Value(p, inputs, inputValues), fingerprint |-> build.fps[p]]
      /\ \A q \in ProjectionNames : q # p => cached'[q] = cached[q]
    BY <1>1, <1>6 DEF PlanInv, inputValues
<1>9. build'.todo = build.todo \ {p} /\ build'.order = build.order /\ build'.inputs = inputs
      /\ build'.fps = build.fps /\ build'.dirty = build.dirty
      /\ build' = PlanRecord(build'.todo, build'.fps, build'.inputs, build'.order, build'.dirty)
    <2>1. build = PlanRecord(build.todo, build.fps, build.inputs, build.order, build.dirty)
        BY <1>2 DEF PlanInv, BuildSound
    <2> QED BY <1>1, <2>1 DEF PlanRecord
<1>10. ASSUME NEW q \in projections, q # p, NEW x PROVE MadeFrom(q, x)' <=> MadeFrom(q, x)
    BY <1>1, <1>4, <1>8, <1>10 DEF MadeFrom
<1>11. ASSUME EventFed(p) PROVE MadeFrom(p, build.inputs)'
    <2>1. cached'[p].value = Rebuilt(order, inputs)[p] /\ cached'[p].fingerprint = Resolve(order, inputs)[p]
        BY <1>7, <1>8, <1>11 DEF inputValues
    <2> QED BY <1>1, <1>9, <2>1 DEF MadeFrom, order
<1>12. EntriesMade'
    <2> SUFFICES ASSUME NEW q \in projections, EventFed(q), cached'[q] # Nothing
                 PROVE  \E m \in 0..Len(log) : MadeFrom(q, UpTo(m))'
        BY <1>1 DEF EntriesMade
    <2>0. \A m : UpTo(m)' = UpTo(m)
        BY <1>1 DEF UpTo
    <2>1. CASE q # p
        <3>1. PICK m \in 0..Len(log) : MadeFrom(q, UpTo(m))
            BY <1>4, <1>8, <2>1 DEF PlanInv, EntriesMade
        <3>2. MadeFrom(q, UpTo(m))'
            BY <1>1, <1>4, <1>8, <2>0, <2>1, <3>1 DEF MadeFrom
        <3> QED BY <3>2
    <2>2. CASE q = p
        <3>1. PICK m \in 0..Len(log) : inputs.events = UpTo(m).events
            BY <1>2 DEF PlanInv, BuildSound
        <3>2. ~ InvalidKind(projections) /\ EventFed(order[i])
            BY <1>4, <1>6, <2>2 DEF RegistryValid
        <3>3. TellsEvents(order[i], order, inputs, UpTo(m))
            BY <1>4, <1>5, <1>6, <3>2, LedgerAlone
        <3>4. SameFrom(p, order, inputs, UpTo(m))
            BY <1>6, <3>1, <3>3 DEF TellsEvents
        <3>5. MadeFrom(p, UpTo(m))'
            <4>1. cached'[p].value = Rebuilt(order, inputs)[p] /\ cached'[p].fingerprint = Resolve(order, inputs)[p]
                BY <1>7, <1>8, <2>2 DEF inputValues
            <4> QED BY <1>1, <2>0, <3>4, <4>1 DEF MadeFrom, SameFrom, order
        <3> QED BY <1>9, <2>2, <3>5 DEF MadeFrom
    <2> QED BY <2>1, <2>2
<1>13. BuildSound'
    <2>1. \E m \in 0..Len(log') : build'.inputs.events = UpTo(m)'.events
        <3>1. PICK m \in 0..Len(log) : inputs.events = UpTo(m).events
            BY <1>2 DEF PlanInv, BuildSound
        <3>2. UpTo(m)' = UpTo(m)
            BY <1>1 DEF UpTo
        <3> QED BY <1>1, <1>9, <3>1, <3>2
    <2>2. \A q \in projections' \ build'.todo : EventFed(q) => MadeFrom(q, build.inputs)'
        <3> SUFFICES ASSUME NEW q \in projections, q \notin build'.todo, EventFed(q) PROVE MadeFrom(q, build.inputs)'
            BY <1>1
        <3>1. CASE q = p
            BY <1>9, <1>11, <3>1 DEF MadeFrom
        <3>2. CASE q # p
            <4>1. MadeFrom(q, inputs)
                BY <1>3, <1>9, <3>2
            <4> QED BY <1>1, <1>4, <1>8, <1>9, <3>2, <4>1 DEF MadeFrom
        <3> QED BY <3>1, <3>2
    <2>3. \A q \in projections : Deps(q) \cap build.dirty # {} => q \in build.dirty
        BY <1>2 DEF PlanInv, BuildSound
    <2>4. build'.order = ComputeOrder(projections') /\ build'.fps = Resolve(build'.order, build'.inputs)
        BY <1>1, <1>3, <1>9 DEF order
    <2> QED BY <1>1, <1>3, <1>9, <2>1, <2>2, <2>3, <2>4 DEF BuildSound
<1> QED BY <1>1, <1>3, <1>4, <1>8, <1>12, <1>13 DEF PlanInv

\* Giving up a plan, or entries while no plan is executed, breaks nothing.
LEMMA DropKeeps ==
    ASSUME PlanInv, StopBuild \/ \E ps \in SUBSET ProjectionNames : Invalidate(ps)
    PROVE  PlanInv'
<1>0. \A m : UNCHANGED <<projections, log>> => UpTo(m)' = UpTo(m)
    BY DEF UpTo
<1>1. CASE StopBuild
    <2>1. EntriesMade'
        BY <1>0, <1>1 DEF PlanInv, StopBuild, EntriesMade, MadeFrom
    <2>2. BuildSound'
        BY <1>1 DEF StopBuild, BuildSound
    <2>3. plans # 0
        BY <1>1 DEF PlanInv, StopBuild, NoBuild
    <2> QED BY <1>1, <2>1, <2>2, <2>3 DEF PlanInv, StopBuild
<1>2. CASE \E ps \in SUBSET ProjectionNames : Invalidate(ps)
    <2>1. PICK ps \in SUBSET ProjectionNames : Invalidate(ps)
        BY <1>2
    <2>2. /\ build.todo = {} /\ plans # 0
          /\ cached' = [p \in ProjectionNames |-> IF p \in ps THEN Nothing ELSE cached[p]]
          /\ UNCHANGED <<projections, log, knowledgeRows, build, plans>>
        BY <2>1 DEF Invalidate, PlanInv
    <2>3. EntriesMade'
        <3> SUFFICES ASSUME NEW q \in projections, EventFed(q), cached'[q] # Nothing
                     PROVE  \E m \in 0..Len(log) : MadeFrom(q, UpTo(m))'
            BY <2>2 DEF EntriesMade
        <3>1. cached'[q] = cached[q] /\ cached[q] # Nothing
            BY <2>2 DEF PlanInv
        <3>2. PICK m \in 0..Len(log) : MadeFrom(q, UpTo(m))
            BY <3>1 DEF PlanInv, EntriesMade
        <3>3. MadeFrom(q, UpTo(m))'
            BY <1>0, <2>2, <3>1, <3>2 DEF MadeFrom
        <3> QED BY <3>3
    <2>4. BuildSound'
        <3>1. \A m : UpTo(m)' = UpTo(m)
            BY <1>0, <2>2
        <3> QED BY <2>2, <3>1 DEF PlanInv, BuildSound
    <2> QED BY <2>2, <2>3, <2>4 DEF PlanInv
<1> QED BY <1>1, <1>2

\* Every step keeps the invariant.
LEMMA PlanStep ==
    ASSUME PlanAssumption, PlanInv, [PlanNext]_planVars
    PROVE  PlanInv'
<1>1. ASSUME NEW p \in ProjectionNames, RegisterProjection(p) PROVE PlanInv'
    BY <1>1, RegisterProjectionKeeps
<1>2. ASSUME NEW e \in LogMenu, AppendToLog(e) PROVE PlanInv'
    <2>1. /\ log' = Append(log, e) /\ log \in Seq(LogMenu)
          /\ UNCHANGED <<projections, cached, build, plans>>
        BY <1>2 DEF AppendToLog, PlanInv
    <2>2. log' \in Seq(LogMenu) /\ Len(log') >= Len(log) /\ \A i \in 1..Len(log) : log'[i] = log[i]
        BY <2>1
    <2> QED BY <2>1, <2>2, InputsGrow
<1>3. ASSUME log' = log, UNCHANGED <<projections, cached, build, plans>> PROVE PlanInv'
    <2>1. log' \in Seq(LogMenu) /\ Len(log') >= Len(log) /\ \A i \in 1..Len(log) : log'[i] = log[i]
        BY <1>3 DEF PlanInv
    <2> QED BY <1>3, <2>1, InputsGrow
<1>4. ASSUME NEW k \in KnowledgeIds, ChangeKnowledge(k) PROVE PlanInv'
    BY <1>3, <1>4 DEF ChangeKnowledge
<1>5. ASSUME Plan PROVE PlanInv'
    BY <1>5, PlanKeeps
<1>6. ASSUME BuildNode PROVE PlanInv'
    BY <1>6, BuildNodeKeeps
<1>7. ASSUME StopBuild \/ (\E p \in ProjectionNames : Invalidate({p})) \/ Invalidate(ProjectionNames) PROVE PlanInv'
    <2>1. StopBuild \/ \E ps \in SUBSET ProjectionNames : Invalidate(ps)
        BY <1>7
    <2> QED BY <2>1, DropKeeps
<1>8. ASSUME UNCHANGED planVars PROVE PlanInv'
    BY <1>3, <1>8 DEF planVars
<1> QED BY <1>1, <1>2, <1>4, <1>5, <1>6, <1>7, <1>8 DEF PlanNext

\* For any declared projections, dependencies and events: a valid registry is
\* ordered completely and by dependence, the dirty nodes of a plan are closed under
\* dependence, and a clean entry of what the ledger feeds is that of a rebuild from
\* the whole ledger, also after plans that stopped half-way and invalidated entries
\* (registry.py:132-169, planner.py:26-104, cache.py, fingerprint.py).
THEOREM PlansAreSound ==
    ASSUME PlanAssumption
    PROVE  PlanSpec => []PlanSound
<1>1. PlanInv => OrderSound
    <2> SUFFICES ASSUME PlanInv PROVE OrderSound
        OBVIOUS
    <2>1. ASSUME RegistryValid(projections)
          PROVE  LET order == ComputeOrder(projections)
                 IN /\ ToSet(order) = projections /\ Len(order) = Cardinality(projections)
                    /\ \A i \in DOMAIN order : Deps(order[i]) \subseteq {order[j] : j \in 1 .. i - 1}
        <3>1. /\ InOrder(projections, ComputeOrder(projections), Cardinality(projections))
              /\ ToSet(ComputeOrder(projections)) = projections
            BY <2>1, OrderIsComplete DEF PlanInv
        <3> QED BY <3>1 DEF InOrder
    <2>2. ASSUME NEW p \in ToSet(build.order), Deps(p) \cap build.dirty # {} PROVE p \in build.dirty
        <3>1. build # NoBuild
            BY <2>2 DEF NoBuild, ToSet
        <3>2. plans # 0 /\ build.order = ComputeOrder(projections)
              /\ \A q \in projections : Deps(q) \cap build.dirty # {} => q \in build.dirty
            BY <3>1 DEF PlanInv, BuildSound
        <3>3. ToSet(build.order) = projections
            BY <3>2, OrderIsComplete DEF PlanInv
        <3> QED BY <2>2, <3>2, <3>3
    <2> QED BY <2>1, <2>2 DEF OrderSound
<1>2. PlanInv => CacheSound
    <2> SUFFICES ASSUME PlanInv, RegistryValid(projections),
                        NEW p \in projections \ DirtyNodes(ComputeOrder(projections),
                                                           Resolve(ComputeOrder(projections), Inputs)),
                        Declared[p].source = "events"
                 PROVE  cached[p].value = Rebuilt(ComputeOrder(projections), Inputs)[p]
        BY DEF CacheSound
    <2>1. MadeFrom(p, Inputs)
        BY CleanIsCurrent DEF EventFed
    <2> QED BY <2>1 DEF MadeFrom
<1>3. PlanInv => PlanSound
    BY <1>1, <1>2 DEF PlanSound
<1> QED BY <1>3, PlanStarts, PlanStep, PTL DEF PlanSpec
==============================================================================
