---------------------------- MODULE Continuation ----------------------------
(***************************************************************************)
(* ContinuationProjection (projections/continuation.py): what an agent     *)
(* that takes a project up again is told.  It reads the stream itself and  *)
(* runs the reducers of CognitiveHead, but filters, sorts and derives      *)
(* blockers with code of its own, so nothing makes it agree with the       *)
(* cognitive head but the two texts being alike.  Events may also carry    *)
(* the session that wrote them, NoSession if none.                         *)
(***************************************************************************)
EXTENDS CognitiveHead

CONSTANTS RecentDecisions, \* accepted decisions listed: 5 in the code
          RecentEvents,    \* events and context snapshots listed: 10
          NoSession        \* metadata without a session_id

Latest(s, n) == SubSeq(s, IF Len(s) > n THEN Len(s) - n + 1 ELSE 1, Len(s))

\* a set of positions of the stream, ascending
Ascending(at) == SelectSeq([k \in DOMAIN stream |-> k], LAMBDA k : k \in at)

-----------------------------------------------------------------------------
(* Work state *)

WithStatus(d, status) == SelectSeq(d, LAMBDA v : v.status = status)

DecisionEvents == {"DECISION_PROPOSED", "DECISION_ACCEPTED"}

\* Mutant: an acceptance does not count as news of the decision
DecisionLastSeq_Proposed(d) ==
    LET at == {k \in DOMAIN stream : stream[k].type = "DECISION_PROPOSED" /\ stream[k].id = d.id}
    IN  CHOOSE k \in at : \A j \in at : j <= k

\* the last event that proposed or accepted the decision
DecisionLastSeq(d) ==
    LET at == {k \in DOMAIN stream : stream[k].type \in DecisionEvents /\ stream[k].id = d.id}
    IN  CHOOSE k \in at : \A j \in at : j <= k

\* newest first, cut, and turned round again
Recent(decisions) ==
    Latest(SortSeq(WithStatus(decisions, "accepted"),
                   LAMBDA a, b : DecisionLastSeq(a) < DecisionLastSeq(b)),
           RecentDecisions)

\* a task that waits for a question by its own account only if it is listed; by
\* the question's account whatever its status
BlockedBy(tasks, listed, open) ==
    [t \in Ids(tasks) |->
        (UNION {listed[i].blockedBy : i \in {j \in DOMAIN listed : listed[j].id = t}} \cap Ids(open))
        \cup {open[i].id : i \in {j \in DOMAIN open : t \in open[j].blocks}}]

-----------------------------------------------------------------------------
(* Activity *)

ContextSnapshots == Latest(Ascending({k \in DOMAIN stream : stream[k].type = "CONTEXT_SNAPSHOT_RECORDED"}), RecentEvents)

RecentRecords == Latest(Ascending(DOMAIN stream), RecentEvents)

\* SessionProjection.last_session: of the sessions, the one whose last event is
\* the latest; recorded_at is taken to grow with the sequence
LastSession ==
    LET named == {k \in DOMAIN stream : stream[k].session # NoSession}
        newest == CHOOSE k \in named : \A j \in named : j <= k
    IN  IF named = {} THEN <<>>
        ELSE Ascending({k \in DOMAIN stream : stream[k].session = stream[newest].session})

\* Mutant: the oldest of the listed snapshots speaks
Speaking_Oldest == IF ContextSnapshots = <<>> THEN {} ELSE {stream[ContextSnapshots[1]]}

\* the latest context snapshot, the one whose blocked_on and next_action count
Speaking ==
    IF ContextSnapshots = <<>> THEN {} ELSE {stream[ContextSnapshots[Len(ContextSnapshots)]]}

-----------------------------------------------------------------------------
(* HeadNext actions and provenance *)

Each(verb, d) == [i \in DOMAIN d |-> <<verb, d[i].id>>]
Said(verb, field) ==
    LET words == {e[field] : e \in Speaking} \ {""}
    IN  [i \in 1 .. (IF words = {} THEN 0 ELSE 1) |-> <<verb, CHOOSE w \in words : TRUE>>]

NextActions(questions, inProgress, open) ==
    LET actions == Said("Unblock", "blockedOn") \o Each("Resolve", questions)
                   \o Said("Do", "nextAction")
                   \o Each("Continue", inProgress) \o Each("Start", open)
    IN  IF actions = <<>> THEN <<<<"Review", "project">>>> ELSE actions

TaskEvents == {"TASK_CREATED", "TASK_MUTATED", "TASK_COMPLETED", "TASK_PROGRESS_NOTED"}
QuestionEvents == {"OPEN_QUESTION_RAISED", "OPEN_QUESTION_RESOLVED"}
AllDecisionEvents == DecisionEvents \cup {"DECISION_SUPERSEDED"}

\* every event whose payload names a listed item
About(types, d) == Ascending({k \in DOMAIN stream : stream[k].type \in types /\ stream[k].id \in Ids(d)})

-----------------------------------------------------------------------------
(* project *)

ContinuationState ==
    LET s == Reduce(stream, EmptyState)
        inProgress == ByPriority(WithStatus(s.tasks, "in_progress"))
        open == ByPriority(WithStatus(s.tasks, "open"))
        questions == ByPriority(WithStatus(s.questions, "open"))
        recent == Recent(s.decisions)
    IN  [name |-> s.name, goal |-> s.goal, focus |-> s.focus,
         inProgress |-> inProgress, open |-> open, questions |-> questions,
         decisions |-> recent,
         blockers |-> BlockedBy(s.tasks, inProgress \o open, questions),
         events |-> RecentRecords, snapshots |-> ContextSnapshots, session |-> LastSession,
         actions |-> NextActions(questions, inProgress, open),
         provenance |-> [tasks |-> About(TaskEvents, inProgress),
                         questions |-> About(QuestionEvents, questions),
                         decisions |-> About(AllDecisionEvents, recent)]]

\* a stream without events, or without one of the three bootstrap events, is refused
Project ==
    /\ last' = IF Bootstrapped(stream)
               THEN [mode |-> "continuation", at |-> Len(stream), state |-> ContinuationState]
               ELSE [mode |-> "missing_bootstrap", at |-> Len(stream)]
    /\ UNCHANGED <<stream, snap>>

CNext == Project \/ \E e \in StreamEvents : AppendToStream(e)

CSpec == HeadInit /\ [][CNext]_headVars

-----------------------------------------------------------------------------
(* Properties *)

Positions(s) == {s[i] : i \in DOMAIN s}

\* The agent that continues a project is told the same as one that compiles its
\* head: project fields, questions, blockers, the open tasks in the head's order,
\* and of the accepted decisions the latest ones.
AgreesWithHead ==
    Done("continuation") =>
        LET c == last.state
            head == FullHead(stream)
        IN  /\ <<c.name, c.goal, c.focus>> = <<head.name, head.goal, head.focus>>
            /\ c.questions = head.questions
            /\ c.open = SelectSeq(head.tasks, LAMBDA t : t.status = "open")
            /\ c.inProgress = SelectSeq(head.tasks, LAMBDA t : t.status = "in_progress")
            /\ Ids(c.decisions) \subseteq Ids(head.decisions)
            /\ Len(c.decisions) < RecentDecisions => Ids(c.decisions) = Ids(head.decisions)
            /\ \A t \in DOMAIN c.blockers :
                   (\A i \in DOMAIN head.tasks :
                        head.tasks[i].id = t => head.tasks[i].status \in {"open", "in_progress"})
                   => c.blockers[t] = head.blockers[t]

\* What the agent is told can be traced: replaying only the events the provenance
\* names gives the listed tasks in progress, questions and decisions again.
ProvenanceSuffices ==
    Done("continuation") =>
        LET c == last.state
            cited == Positions(c.provenance.tasks) \cup Positions(c.provenance.questions)
                         \cup Positions(c.provenance.decisions)
            at == SelectSeq([k \in DOMAIN stream |-> k], LAMBDA k : k \in cited)
            s == Reduce([i \in DOMAIN at |-> stream[at[i]]], EmptyState)
        IN  /\ ByPriority(s.tasks) = c.inProgress
            /\ ByPriority(s.questions) = c.questions
            /\ Ids(s.decisions) = Ids(c.decisions)

\* A decision that is listed was last proposed or accepted after every accepted
\* one that is not, and no listed snapshot is newer than the one that speaks.
NewestAreListed ==
    Done("continuation") =>
        LET c == last.state
            NewsOf(id) == {k \in DOMAIN stream : stream[k].type \in DecisionEvents /\ stream[k].id = id}
        IN  /\ \A id \in Ids(c.decisions), other \in Ids(FullHead(stream).decisions) \ Ids(c.decisions) :
                   \E k \in NewsOf(id) : \A j \in NewsOf(other) : j < k
            /\ \A i \in DOMAIN c.actions : c.actions[i][1] = "Unblock" =>
                   \E k \in DOMAIN stream :
                       /\ stream[k].type = "CONTEXT_SNAPSHOT_RECORDED"
                       /\ stream[k].blockedOn = c.actions[i][2]
                       /\ \A j \in k + 1 .. Len(stream) : stream[j].type # "CONTEXT_SNAPSHOT_RECORDED"

\* The agent that continues hears of every task the head counts as active
\* ("blocked at any point", cognitive_head/reducers.py:51): refuted, a task whose
\* status is set to blocked is in neither list.
NoTaskForgotten ==
    Done("continuation") =>
        Ids(FullHead(stream).tasks) \subseteq Ids(last.state.inProgress) \cup Ids(last.state.open)

=============================================================================
