--------------------------- MODULE CognitiveHead ---------------------------
(***************************************************************************)
(* The cognitive head of one project: the four reducers                    *)
(* (cognitive_head/reducers.py), the snapshot payload                      *)
(* (snapshot_payload.py), the replay strategies of ReplayEngine            *)
(* (replay_engine.py) and compile_cognitive_head (compiler.py), as one     *)
(* process that appends events and compiles, one call at a time.           *)
(*                                                                         *)
(* Events are records; text fields are left out, and of the rest only what *)
(* a filter, a sort or a later event reads is kept.  A Python dict is the  *)
(* sequence of its values in insertion order.  The event at position k of  *)
(* the stream has event_sequence k.                                           *)
(***************************************************************************)
EXTENDS Integers, Sequences, SequencesExt

CONSTANTS InitialLogs,  \* the streams a behaviour may start from
          StreamEvents, \* the events an append may add
          HeadThreshold, \* EventCountPolicy.threshold
          MaxStream      \* bound on the length of the stream

VARIABLES stream,   \* the project's stream, ORDER BY event_sequence
          snap,  \* latest snapshot payload, or NoRow
          last   \* the result of the last call, and the stream length it was made at

headVars == <<stream, snap, last>>

\* Every stream a behaviour may start from is a sequence of events
LogsAssumption == \A l \in InitialLogs : l \in Seq({l[i] : i \in DOMAIN l})

NoRow == [sequence |-> -1]

-----------------------------------------------------------------------------
(* Dicts of records with an id: insertion order, update in place *)

Has(d, id) == \E i \in DOMAIN d : d[i].id = id
Put(d, v) == IF Has(d, v.id) THEN [i \in DOMAIN d |-> IF d[i].id = v.id THEN v ELSE d[i]]
             ELSE Append(d, v)
\* d[id].f = val for a known id; an unknown id is skipped
SetField(d, id, f, val) ==
    [i \in DOMAIN d |-> IF d[i].id = id THEN [d[i] EXCEPT ![f] = val] ELSE d[i]]
AddNote(d, id, note) ==
    [i \in DOMAIN d |-> IF d[i].id = id THEN [d[i] EXCEPT !.notes = Append(@, note)] ELSE d[i]]
Ids(d) == {d[i].id : i \in DOMAIN d}

\* [v for v in d if ...]: the values at the places that satisfy the condition
Picked(d, places) ==
    LET upTo[n \in 0..Len(d)] ==
            IF n = 0 THEN <<>> ELSE IF n \in places THEN Append(upTo[n - 1], d[n]) ELSE upTo[n - 1]
    IN  upTo[Len(d)]

-----------------------------------------------------------------------------
(* Reducers: one step per event *)

EmptyState == [name |-> "", goal |-> "", focus |-> "",
               tasks |-> <<>>, decisions |-> <<>>, questions |-> <<>>]

ProjectStep(s, e) ==
    CASE e.type = "PROJECT_CREATED"       -> [s EXCEPT !.name = e.value]
      [] e.type = "PROJECT_GOAL_SET"      -> [s EXCEPT !.goal = e.value]
      [] e.type = "PROJECT_FOCUS_CHANGED" -> [s EXCEPT !.focus = e.value]
      [] OTHER -> s

TaskStep(s, e) ==
    CASE e.type = "TASK_CREATED" ->
            [s EXCEPT !.tasks = Put(@, [id |-> e.id, status |-> "open",
                                        priority |-> e.priority,
                                        blockedBy |-> e.blockedBy, notes |-> <<>>])]
      [] e.type = "TASK_MUTATED" ->
            IF e.field = "id" THEN s ELSE [s EXCEPT !.tasks = SetField(@, e.id, e.field, e.value)]
      [] e.type = "TASK_COMPLETED" ->
            [s EXCEPT !.tasks = SetField(@, e.id, "status", "completed")]
      [] e.type = "TASK_PROGRESS_NOTED" ->
            [s EXCEPT !.tasks = AddNote(@, e.id, e.note)]
      [] OTHER -> s

DecisionStep(s, e) ==
    CASE e.type = "DECISION_PROPOSED" ->
            [s EXCEPT !.decisions = Put(@, [id |-> e.id, status |-> "proposed"])]
      [] e.type = "DECISION_ACCEPTED" ->
            [s EXCEPT !.decisions = SetField(@, e.id, "status", "accepted")]
      [] e.type = "DECISION_SUPERSEDED" ->
            [s EXCEPT !.decisions = SetField(@, e.id, "status", "superseded")]
      [] OTHER -> s

QuestionStep(s, e) ==
    CASE e.type = "OPEN_QUESTION_RAISED" ->
            [s EXCEPT !.questions = Put(@, [id |-> e.id, status |-> "open",
                                            priority |-> e.priority, blocks |-> e.blocks])]
      [] e.type = "OPEN_QUESTION_RESOLVED" ->
            [s EXCEPT !.questions = SetField(@, e.id, "status", "resolved")]
      [] OTHER -> s

ReduceStep(s, e) == QuestionStep(DecisionStep(TaskStep(ProjectStep(s, e), e), e), e)

\* the state after each of the events
StatesAfter(events, initial) ==
    LET state[n \in 0..Len(events)] ==
            IF n = 0 THEN initial ELSE ReduceStep(state[n - 1], events[n])
    IN  state

Reduce(events, initial) == StatesAfter(events, initial)[Len(events)]

-----------------------------------------------------------------------------
(* Building the head *)

\* _PRIORITY_ORDER.get(priority, 2): an unknown priority counts as normal
Rank(priority) == CASE priority = "critical" -> 0 [] priority = "high" -> 1
                    [] priority = "low" -> 3 [] OTHER -> 2

\* list.sort(key=Rank): stable
ByPriority(d) ==
    LET Of(rank) == Picked(d, {i \in DOMAIN d : Rank(d[i].priority) = rank})
    IN  Of(0) \o Of(1) \o Of(2) \o Of(3)

\* both directions: an active task's blocked_by, and the tasks (completed ones
\* too) an open question says it blocks
Blockers(tasks, active, open) ==
    [t \in Ids(tasks) |->
        {q \in Ids(open) :
            \/ \E i \in DOMAIN active : active[i].id = t /\ q \in active[i].blockedBy
            \/ \E i \in DOMAIN open : open[i].id = q /\ t \in open[i].blocks}]

ActiveTasks(d) == ByPriority(Picked(d, {i \in DOMAIN d : d[i].status # "completed"}))
ActiveDecisions(d) == Picked(d, {i \in DOMAIN d : d[i].status = "accepted"})
OpenQuestions(d) == ByPriority(Picked(d, {i \in DOMAIN d : d[i].status = "open"}))

BuildHead(s, version) ==
    [name |-> s.name, goal |-> s.goal, focus |-> s.focus, version |-> version,
     tasks |-> ActiveTasks(s.tasks), decisions |-> ActiveDecisions(s.decisions),
     questions |-> OpenQuestions(s.questions),
     blockers |-> Blockers(s.tasks, ActiveTasks(s.tasks), OpenQuestions(s.questions))]

FullHead(events) == BuildHead(Reduce(events, EmptyState), Len(events))

-----------------------------------------------------------------------------
(* Snapshot payload *)

\* Mutant: only the head's active items are stored (what from_cognitive_head
\* does when it is not given the full reducer state)
Payload_ActiveOnly(head, state, seq) ==
    [sequence |-> seq, name |-> head.name, goal |-> head.goal, focus |-> head.focus,
     version |-> head.version, tasks |-> head.tasks, decisions |-> head.decisions,
     questions |-> head.questions, blockers |-> head.blockers]

\* from_cognitive_head: project fields, version and blockers from the head, the
\* three dicts from the full reducer state
Payload(head, state, seq) ==
    [sequence |-> seq, name |-> head.name, goal |-> head.goal, focus |-> head.focus,
     version |-> head.version, tasks |-> state.tasks, decisions |-> state.decisions,
     questions |-> state.questions, blockers |-> head.blockers]

\* to_cognitive_head: every stored item, in stored order
ToCognitiveHead(p) ==
    [name |-> p.name, goal |-> p.goal, focus |-> p.focus, version |-> p.version,
     tasks |-> p.tasks, decisions |-> p.decisions, questions |-> p.questions,
     blockers |-> p.blockers]

\* the initial_state that delta replay gives the reducers
ResumeState(p) ==
    [name |-> p.name, goal |-> p.goal, focus |-> p.focus,
     tasks |-> p.tasks, decisions |-> p.decisions, questions |-> p.questions]

-----------------------------------------------------------------------------
(* ReplayEngine.build_projection *)

Required == {"PROJECT_CREATED", "PROJECT_GOAL_SET", "PROJECT_FOCUS_CHANGED"}
Bootstrapped(events) == Required \subseteq {events[i].type : i \in DOMAIN events}

\* Mutant: the event at the snapshot's own sequence is read again
EventsSince_Inclusive(events, seq) == SubSeq(events, IF seq = 0 THEN 1 ELSE seq, Len(events))

\* get_project_stream(project_id, since_sequence)
EventsSince(events, seq) == SubSeq(events, seq + 1, Len(events))

\* Mutant: one event behind counts as current
IsCurrent_OneBehind(p, latest) == p # NoRow /\ p.sequence + 1 >= latest

IsCurrent(p, latest) == p # NoRow /\ p.sequence >= latest

DeltaHead(p, events) ==
    BuildHead(Reduce(EventsSince(events, p.sequence), ResumeState(p)), Len(events))

BuildProjection(p, events) ==
    CASE IsCurrent(p, Len(events)) -> [mode |-> "fast_path", head |-> ToCognitiveHead(p)]
      [] ~IsCurrent(p, Len(events)) /\ p # NoRow /\ p.sequence > 0 ->
            [mode |-> "delta", head |-> DeltaHead(p, events)]
      [] OTHER -> [mode |-> "full", head |-> FullHead(events)]

\* EventCountPolicy.should_snapshot
ShouldSnapshot(current, p) == p = NoRow \/ current - p.sequence >= HeadThreshold

-----------------------------------------------------------------------------
HeadInit ==
    /\ stream \in InitialLogs
    /\ snap = NoRow
    /\ last = [mode |-> "none"]

AppendToStream(e) ==
    /\ Len(stream) < MaxStream
    /\ stream' = Append(stream, e)
    /\ last' = [mode |-> "none"]
    /\ UNCHANGED snap

Compilable == snap # NoRow \/ Bootstrapped(stream)

\* compile_cognitive_head with a SnapshotManager whose store returns what was
\* saved: replay, then refresh_snapshot with the reducers' full state
Compile ==
    /\ Compilable
    /\ LET result == BuildProjection(snap, stream)
       IN  /\ last' = [mode |-> result.mode, head |-> result.head, at |-> Len(stream)]
           /\ snap' = IF ShouldSnapshot(Len(stream), snap)
                      THEN Payload(result.head, Reduce(stream, EmptyState), Len(stream))
                      ELSE snap
    /\ UNCHANGED stream

\* full replay of an incomplete stream raises MissingProjectBootstrapError
CompileRefused ==
    /\ ~Compilable
    /\ last' = [mode |-> "missing_bootstrap", at |-> Len(stream)]
    /\ UNCHANGED <<stream, snap>>

HeadNext == Compile \/ CompileRefused \/ \E e \in StreamEvents : AppendToStream(e)

HeadSpec == HeadInit /\ [][HeadNext]_headVars

-----------------------------------------------------------------------------
(* Properties *)

Done(mode) == last.mode = mode /\ last.at = Len(stream)

\* Reducer state survives the payload: cutting a stream of events anywhere, storing
\* the state of the first part and reducing the rest from what was stored gives the
\* head of the whole stream (ADR-026, reduce(A+B) == reduce(B, reduce(A))).
SplitLaw ==
    stream # <<>> => \A k \in 0..Len(stream) :
        LET first == SubSeq(stream, 1, k)
            p == Payload(FullHead(first), Reduce(first, EmptyState), k)
        IN  DeltaHead(p, stream) = FullHead(stream)

\* A head compiled by delta replay, from a snapshot that may itself come
\* from a delta replay, is the head of a full replay.
DeltaIsFull == Done("delta") => last.head = FullHead(stream)

\* The fast path is taken only when the snapshot holds the reducer state of the
\* whole stream: its dicts are what a full replay would reduce to.
FastPathHoldsAll ==
    Done("fast_path") =>
        LET s == Reduce(stream, EmptyState)
        IN  /\ last.head.tasks = s.tasks
            /\ last.head.decisions = s.decisions
            /\ last.head.questions = s.questions
            /\ last.head.focus = s.focus

\* README.md: "Snapshot-assisted replay is observationally equivalent to full
\* replay", the fast path included.  The code's to_cognitive_head does not filter
\* out completed tasks, superseded decisions and resolved questions.
FastPathIsFull == Done("fast_path") => last.head = FullHead(stream)

=============================================================================
