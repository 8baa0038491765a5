------------------------------- MODULE MCReplay -------------------------------
(***************************************************************************)
(* How a head is replayed, in one run.  A behaviour is one deployment,     *)
(* named by scenario: two processes of two releases that share a snapshot  *)
(* table ("shared"), one process alone ("single"), the real reducers on a  *)
(* menu of events, compiled by the legacy path and by the projection       *)
(* platform ("reducers"), replay under schema policies ("schema"), or the  *)
(* reference kernel's replayer ("kernel").                                 *)
(***************************************************************************)
EXTENDS SnapshotReplay, HeadProjection, SchemaReplay, KernelReplay

CONSTANTS p1

VARIABLES scenario

allVars == <<scenario, vars, headVars, schemaVars, kernelVars>>

OneRelease == [p \in Procs |-> 1]

\* p1 still runs the previous release
TwoReleases == [p \in Procs |-> IF p = p1 THEN 1 ELSE 2]

\* p2 takes no step
Single == INSTANCE SnapshotReplay WITH
    Procs <- {p1}, Release <- [p \in {p1} |-> 1], KeepsHash <- TRUE,
    Threshold <- 2, Bootstrap <- 2, MaxSequence <- 6

Created == [type |-> "PROJECT_CREATED", value |-> "n"]
GoalSet == [type |-> "PROJECT_GOAL_SET", value |-> "g"]
FocusChanged(f) == [type |-> "PROJECT_FOCUS_CHANGED", value |-> f]

\* a project whose bootstrap is not complete, and one whose bootstrap is
MCInitialLogs == {<<Created, GoalSet>>, <<Created, GoalSet, FocusChanged("f1")>>}

TaskCreated(t, priority, questions) ==
    [type |-> "TASK_CREATED", id |-> t, priority |-> priority, blockedBy |-> questions]

\* two tasks, one decision and one question
MCEventMenu ==
    {FocusChanged("f2"),
     TaskCreated("t1", "normal", {"q1"}),
     TaskCreated("t2", "high", {}),
     [type |-> "TASK_MUTATED", id |-> "t1", field |-> "status", value |-> "open"],
     [type |-> "TASK_COMPLETED", id |-> "t1"],
     [type |-> "TASK_PROGRESS_NOTED", id |-> "t1", note |-> "x"],
     [type |-> "DECISION_PROPOSED", id |-> "d1"],
     [type |-> "DECISION_ACCEPTED", id |-> "d1"],
     [type |-> "DECISION_SUPERSEDED", id |-> "d1"],
     [type |-> "OPEN_QUESTION_RAISED", id |-> "q1", priority |-> "high", blocks |-> {"t1", "t2"}],
     [type |-> "OPEN_QUESTION_RESOLVED", id |-> "q1"]}

ASSUME StreamsAssumption == LogsAssumption

Written(version) == [type |-> "A", version |-> version, payload |-> <<>>]
Decided(domain, action, target, new, effective) ==
    [type |-> "GOVERNANCE_DECISION_RECORDED", version |-> 1, payload |-> <<>>, domain |-> domain,
     action |-> action, target |-> target, new |-> new, effective |-> effective]

MCSchemaEvents ==
    {Written(1), Written(2),
     Decided("SCHEMA", "MIGRATION_APPLIED", "A", 2, 0), Decided("SCHEMA", "MIGRATION_APPLIED", "A", 3, 3),
     Decided("SCHEMA", "MIGRATION_APPLIED", "A", -1, 0),
     Decided("PROJECTION", "DISABLED", "p", 0, 2), Decided("PROJECTION", "ADJUSTED", "p", 0, 0),
     Decided("POLICY", "ADJUSTED", "p", 5, 0), Decided("POLICY", "DISABLED", "p", 0, 0)}

\* to version 3, and two that cannot be followed to their end: one in the wrong
\* order and one that goes on beyond its canonical version
MCPolicies ==
    {"A" :> [latest |-> 3, path |-> <<<<1, 2>>, <<2, 3>>>>],
     "A" :> [latest |-> 3, path |-> <<<<2, 3>>, <<1, 2>>>>], "A" :> [latest |-> 2, path |-> <<<<1, 2>>, <<2, 3>>>>]}

Reducer(name, body, wrapper) == [name |-> name, body |-> body, wrapper |-> wrapper, known |-> {"x"}]

\* reducers that write into their state, the event or the payload, guarded or not
MCReducers ==
    {Reducer("f", "fold", "known"), Reducer("c", "counter", "purity"), Reducer("t", "tag", "none"),
     Reducer("u", "tag", "purity"), Reducer("s", "scrub", "purity"), Reducer("d", "scrub", "determinism")}

MCCommits == {[stream |-> "a", type |-> "x"], [stream |-> "b", type |-> "y"]}

-----------------------------------------------------------------------------
HeadAtRest == stream = <<>> /\ snap = NoRow /\ last = [mode |-> "none"]
SchemaAtRest == ledger = <<>> /\ registered = {} /\ replays = <<>>
KernelAtRest == backend = "sqlite" /\ entries = <<>> /\ registry = <<>> /\ results = <<>>

ReplayInit ==
    /\ Init
    /\ \/ scenario \in {"shared", "single"} /\ HeadAtRest /\ SchemaAtRest /\ KernelAtRest
       \/ scenario = "reducers" /\ HeadInit /\ SchemaAtRest /\ KernelAtRest
       \/ scenario = "schema" /\ SInit /\ HeadAtRest /\ KernelAtRest
       \/ scenario = "kernel" /\ KInit /\ HeadAtRest /\ SchemaAtRest

ReplayNext ==
    \/ scenario = "shared" /\ Next /\ UNCHANGED <<scenario, headVars, schemaVars, kernelVars>>
    \/ scenario = "single" /\ Single!Next /\ UNCHANGED <<scenario, headVars, schemaVars, kernelVars>>
    \/ scenario = "reducers" /\ BothNext /\ UNCHANGED <<scenario, vars, schemaVars, kernelVars>>
    \/ scenario = "schema" /\ SNext /\ UNCHANGED <<scenario, vars, headVars, kernelVars>>
    \/ scenario = "kernel" /\ KNext /\ UNCHANGED <<scenario, vars, headVars, schemaVars>>

\* the last two end when the replays they are bounded to have been made
Over == (Len(replays) = MaxReplays \/ Len(results) = MaxResults) /\ UNCHANGED allVars

ReplaySpec == ReplayInit /\ [][ReplayNext \/ Over]_allVars

\* one process whose stores give a payload back without its hash, in a run of its own
NeverUsedSpec ==
    /\ scenario = "shared" /\ Init /\ HeadAtRest /\ SchemaAtRest /\ KernelAtRest
    /\ [][Next /\ UNCHANGED <<scenario, headVars, schemaVars, kernelVars>>]_allVars

-----------------------------------------------------------------------------
(* Properties of one deployment.  RacesOnlyOmit of SnapshotReplay, SplitLaw    *)
(* and ResumedIsFull of HeadProjection, SchemaSound of SchemaReplay and        *)
(* KernelSound of KernelReplay are checked of all: what a deployment does not  *)
(* use stays as it was at first.                                               *)

\* One process alone, across crashes and failed saves: every strategy returns the
\* head of a full replay, and a snapshot that is there is used ("after first
\* snapshot, only new events are replayed", README.md:37; replay_engine.py).
SingleIsExact == scenario = "single" => Single!HeadIsFullReplay /\ Single!OnlyNewEvents

=============================================================================
