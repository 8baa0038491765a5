--------------------------- MODULE SkillExecution ---------------------------
(***************************************************************************)
(* The skill platform: decisions are bridged to skills, SkillExecutor runs *)
(* a plan and returns a result with an event, and the caller appends the   *)
(* event to the ledger.  The executor does everything in the caller's      *)
(* thread except the skill itself, which SkillSandbox runs in a daemon     *)
(* thread of its own: the two interleave, and a thread that was given up   *)
(* on goes on running.  SkillRuntime is the older path, in one thread.     *)
(* Plugins and manifests live in the process and are lost with it.         *)
(***************************************************************************)
EXTENDS SkillHistory

CONSTANTS
    ManifestOf,    \* skill -> SkillManifest
    CategoryOf,    \* decision -> its category
    Plugins,       \* plugin ids
    Outputs,       \* what a skill may return
    Timeouts,      \* timeout_seconds a plan may carry
    MaxRuns,       \* bound: executions
    None

VARIABLES
    manifests,     \* SkillManifestRegistry._manifests
    plugins,       \* PluginRegistry: plugin -> status, None when not registered
    runs,          \* the executions, in the order they began
    ledger,        \* SKILL_EXECUTED events appended by the callers
    effects        \* the runs whose skill has taken effect, in that order

svars == <<manifests, plugins, runs, ledger, effects>>

PluginStatus == {"ENABLED", "DISABLED"}
Capability == {"projection:memory", "projection:knowledge", "projection:graph", "projection:context",
               "projection:organization", "ledger:read", "ledger:write", "skill:execute"}
SynthesisCategory == {"AFFIRM", "CHALLENGE", "RESOLVE", "DEFER", "MONITOR"}

\* plugin is the plugin the activation target names; base says that the
\* activated object is a BaseSkill, whose SkillOutput carries no artifacts
SkillManifest ==
    [permissions : SUBSET Capability, categories : SUBSET SynthesisCategory, timeout : Nat,
     required : SUBSET STRING, plugin : Plugins \cup {None}, base : BOOLEAN]

\* An artifact candidate that does not parse (an unknown kind) is known = FALSE
ArtifactCandidate == [hash : Nat, known : BOOLEAN]
SkillOutput == [raises : BOOLEAN, fields : SUBSET STRING, artifacts : SUBSET ArtifactCandidate]
SkillResult == [status : SkillResultStatus \cup {"RESULT_CREATED"}, error : ErrorKind, artifacts : SUBSET (Skills \X Nat)]

\* main is the caller's thread in this run, thread the one the sandbox started
SkillRun == [decision : Decisions, skill : Skills, limit : Nat,
        main : {"waiting", "returned", "recorded", "dead"}, thread : {"none", "running", "done", "dead"},
        output : Outputs \cup {None}, result : SkillResult \cup {None}, inline : BOOLEAN]

\* What becomes of a run: its skill ends, execute returns, the event is
\* appended, the process dies
Ended(r, o) == [r EXCEPT !.thread = "done", !.output = o]
Returned(r, result) == [r EXCEPT !.main = "returned", !.result = result]
Recorded(r) == [r EXCEPT !.main = "recorded"]
Killed(r) == [r EXCEPT !.main = IF @ = "recorded" THEN @ ELSE "dead",
                       !.thread = IF @ = "running" THEN "dead" ELSE @]

Failure(kind) == [status |-> "FAILED", error |-> kind, artifacts |-> {}]
Denied == [status |-> "DENIED", error |-> "denied", artifacts |-> {}]

\* DecisionSkillBridge: fewest categories first, then the smallest id
FindByCategory(c) == {s \in manifests : c \in ManifestOf[s].categories}

SelectBest(candidates) ==
    CHOOSE s \in candidates : \A t \in candidates :
        LET size(x) == Cardinality(ManifestOf[x].categories)
        IN  size(s) < size(t) \/ (size(s) = size(t) /\ s <= t)

\* What create_execution_plans grants to every plan
PlanCapabilities == {"projection:memory", "ledger:read"}

\* SkillActivator.activate asks for the plugin's instance, not for its status
Activates(s) == ManifestOf[s].plugin = None \/ plugins[ManifestOf[s].plugin] # None

Allowed(s) == ManifestOf[s].permissions \subseteq PlanCapabilities

\* Mutant: no timeout wins over a timeout
ValidateTimeout_Least(t, u) == IF t < u THEN t ELSE u

\* SkillSandbox.validate_timeout: 0 stands for no limit of its own
ValidateTimeout(t, u) ==
    IF t <= 0 THEN u ELSE IF u <= 0 THEN t ELSE IF t < u THEN t ELSE u

Valid(output, s) == ManifestOf[s].required \subseteq output.fields

\* The gate sees this execution alone
SingleEvaluation(r) ==
    Evaluate(Reduce(<<[decision |-> r.decision, skill |-> r.skill, state |-> "COMPLETED",
                       error |-> "none", started |-> 0]>>, {}))

\* Mutant: the candidates are promoted whatever became of the output
Outcome_PromoteFirst(r) ==
    [status |-> IF r.output = None \/ ~ Valid(r.output, r.skill) THEN "FAILED" ELSE "COMPLETED",
     error |-> IF r.output = None THEN "raised" ELSE IF Valid(r.output, r.skill) THEN "none" ELSE "invalid",
     artifacts |-> IF r.output = None THEN {}
                   ELSE {<<r.skill, a.hash>> : a \in {b \in r.output.artifacts : b.known}}]

\* Steps 6 and 7 of execute: validate, evaluate, parse candidates, promote
Outcome(r) ==
    IF r.output.raises THEN Failure("raised")
    ELSE IF ~ Valid(r.output, r.skill) THEN Failure("invalid")
    ELSE [status |-> "COMPLETED", error |-> "none",
          artifacts |-> IF ExecutionGate(SingleEvaluation(r)) = "PASS" /\ ~ ManifestOf[r.skill].base
                        THEN {<<r.skill, a.hash>> : a \in {b \in r.output.artifacts : b.known}}
                        ELSE {}]

EventOf(i) ==
    [decision |-> runs[i].decision, skill |-> runs[i].skill, state |-> runs[i].result.status,
     error |-> runs[i].result.error, started |-> i]

\* What the proofs need of the constants
SkillAssumption ==
    /\ None \notin SkillResult
    /\ Outputs \subseteq SkillOutput

-----------------------------------------------------------------------------
SInit ==
    /\ manifests = {}
    /\ plugins = [p \in Plugins |-> None]
    /\ runs = <<>>
    /\ ledger = <<>>
    /\ effects = <<>>

RegisterManifest(s) ==
    /\ s \notin manifests
    /\ manifests' = manifests \cup {s}
    /\ UNCHANGED <<plugins, runs, ledger, effects>>

\* PluginRegistry.register, after PluginValidator and PluginLoader: it
\* replaces an instance of the same id and enables the plugin again
RegisterPlugin(p) ==
    /\ plugins' = [plugins EXCEPT ![p] = "ENABLED"]
    /\ UNCHANGED <<manifests, runs, ledger, effects>>

SetStatus(p, status) ==
    /\ plugins[p] # None
    /\ plugins' = [plugins EXCEPT ![p] = status]
    /\ UNCHANGED <<manifests, runs, ledger, effects>>

\* Steps 1 to 4 of execute, and the start of the sandbox's thread.  A
\* decision without a matching skill is blocked and gets no plan
Execute(d, t) ==
    LET candidates == FindByCategory(CategoryOf[d])
        s == SelectBest(candidates)
        result == IF ~ Activates(s) THEN Failure("activation")
                  ELSE IF ~ Allowed(s) THEN Denied ELSE None
    IN  /\ candidates # {}
        /\ Len(runs) < MaxRuns
        /\ runs' = Append(runs,
                [decision |-> d, skill |-> s, limit |-> ValidateTimeout(t, ManifestOf[s].timeout),
                 main |-> IF result = None THEN "waiting" ELSE "returned",
                 thread |-> IF result = None THEN "running" ELSE "none",
                 output |-> None, result |-> result, inline |-> FALSE])
        /\ UNCHANGED <<manifests, plugins, ledger, effects>>

\* SkillRuntime.execute: permissions, the skill in the caller's thread, and
\* RESULT_CREATED whatever the outcome; the timeout is compared afterwards
RunInline(d, o, late) ==
    LET candidates == FindByCategory(CategoryOf[d])
        s == SelectBest(candidates)
        error == IF ~ Allowed(s) THEN "denied" ELSE IF o.raises THEN "raised"
                 ELSE IF late /\ ManifestOf[s].timeout > 0 THEN "timeout" ELSE "none"
    IN  /\ candidates # {}
        /\ Len(runs) < MaxRuns
        /\ runs' = Append(runs,
                [decision |-> d, skill |-> s, limit |-> ManifestOf[s].timeout, main |-> "returned",
                 thread |-> "none", output |-> o, inline |-> TRUE,
                 result |-> [status |-> "RESULT_CREATED", error |-> error, artifacts |-> {}]])
        /\ effects' = IF Allowed(s) THEN Append(effects, Len(runs) + 1) ELSE effects
        /\ UNCHANGED <<manifests, plugins, ledger>>

\* _target: the skill returns or raises, and completed is set
SkillEnds(i, o) ==
    /\ runs[i].thread = "running"
    /\ runs' = [runs EXCEPT ![i] = Ended(@, o)]
    /\ effects' = Append(effects, i)
    /\ UNCHANGED <<manifests, plugins, ledger>>

\* completed.wait(timeout) returns False: SandboxViolation, reported as FAILED
TimesOut(i) ==
    /\ runs[i].main = "waiting"
    /\ runs[i].limit > 0
    /\ runs[i].thread # "done"
    /\ runs' = [runs EXCEPT ![i] = Returned(@, Failure("timeout"))]
    /\ UNCHANGED <<manifests, plugins, ledger, effects>>

\* The wait is over: steps 5 to 8
Collect(i) ==
    /\ runs[i].main = "waiting"
    /\ runs[i].thread = "done"
    /\ runs' = [runs EXCEPT ![i] = Returned(@, Outcome(@))]
    /\ UNCHANGED <<manifests, plugins, ledger, effects>>

\* The caller appends the event that execute returned
Record(i) ==
    /\ runs[i].main = "returned"
    /\ runs' = [runs EXCEPT ![i] = Recorded(@)]
    /\ ledger' = Append(ledger, EventOf(i))
    /\ UNCHANGED <<manifests, plugins, effects>>

\* The process ends: daemon threads and registries go with it
Crash ==
    /\ \E i \in 1..Len(runs) : runs[i].main \in {"waiting", "returned"}
    /\ runs' = [i \in 1..Len(runs) |-> Killed(runs[i])]
    /\ manifests' = {}
    /\ plugins' = [p \in Plugins |-> None]
    /\ UNCHANGED <<ledger, effects>>

SNext ==
    \/ \E s \in Skills : RegisterManifest(s)
    \/ \E p \in Plugins : RegisterPlugin(p) \/ \E st \in PluginStatus : SetStatus(p, st)
    \/ \E d \in Decisions :
           \/ \E t \in Timeouts : Execute(d, t)
           \/ \E o \in Outputs, late \in BOOLEAN : RunInline(d, o, late)
    \/ \E i \in 1..Len(runs) :
           \/ \E o \in Outputs : SkillEnds(i, o)
           \/ TimesOut(i) \/ Collect(i) \/ Record(i)
    \/ Crash

\* The caller's thread goes on: Event.wait returns, execute returns, the
\* caller appends.  Nothing is assumed of the skill's thread
Fairness == \A i \in 1..MaxRuns :
    /\ WF_svars(i <= Len(runs) /\ (TimesOut(i) \/ Collect(i)))
    /\ WF_svars(i <= Len(runs) /\ Record(i))

SSpec == SInit /\ [][SNext]_svars /\ Fairness

-----------------------------------------------------------------------------
(* Properties *)

SkillTypeOK ==
    /\ manifests \subseteq Skills
    /\ plugins \in [Plugins -> PluginStatus \cup {None}]
    /\ \A i \in 1..Len(runs) : runs[i].decision \in Decisions /\ runs[i].skill \in Skills
    /\ \A i \in 1..Len(ledger) : ledger[i] \in SkillExecutionEvent

\* An artifact is promoted only by a run whose permissions were granted, whose
\* skill ended without an exception before the result was built, and whose
\* output passed the schema; a run reported otherwise promotes nothing, even
\* when its thread ends later.
ArtifactsEarned ==
    \A i \in 1..Len(runs) :
        LET r == runs[i] IN
        r.result # None /\ r.result.artifacts # {} =>
            /\ r.result.status = "COMPLETED" /\ r.thread = "done"
            /\ Allowed(r.skill) /\ ~ r.output.raises /\ Valid(r.output, r.skill)
            /\ \A a \in r.result.artifacts : [hash |-> a[2], known |-> TRUE] \in r.output.artifacts

\* The projection of the ledger agrees with the reports of the runs that were
\* recorded, status by status; only inline runs, which are all RESULT_CREATED,
\* add to the failures, and a decision is pending exactly when no run of it
\* was recorded, so that a crash before the append leaves it to be retried.
LedgerAgrees ==
    LET state == Reduce(ledger, Decisions)
        recorded == {i \in 1..Len(runs) : runs[i].main = "recorded"}
        Of(status) == Cardinality({i \in recorded : runs[i].result.status = status})
    IN  /\ Total(state) = Cardinality(recorded)
        /\ Cardinality(state.completed) = Of("COMPLETED")
        /\ Cardinality(state.denied) = Of("DENIED")
        /\ Cardinality(state.failed) = Of("FAILED") + Of("RESULT_CREATED")
        /\ state.timeout = {}
        /\ state.pending = Decisions \ {runs[i].decision : i \in recorded}

\* Advice to run a skill again is given only for a run of the executor that may
\* end differently: never for one that was denied or whose output was invalid,
\* and never for one that completed.
RetryAdviceSound ==
    \A a \in RetryRecommendations(ledger) :
        LET r == runs[a.entry.started] IN
        a.decision # "PERMANENT_FAILURE" /\ ~ r.inline =>
            /\ r.result.status = "FAILED"
            /\ r.output # None /\ ~ r.output.raises => r.result.error = "timeout"

\* Every execution under a time limit is reported in the ledger unless its
\* process dies, even if the skill never returns.
EventuallyReported ==
    \A i \in 1..MaxRuns :
        (i <= Len(runs) /\ ManifestOf[runs[i].skill].timeout > 0) ~> (i <= Len(runs) /\ runs[i].main \in {"recorded", "dead"})

\* "terminates executions exceeding timeouts" (docs/v1.4.0_plugin_sdk_freeze.md):
\* nothing takes effect for a run that was reported already
NothingAfterReport ==
    \A i \in 1..Len(runs) : runs[i].main = "recorded" => runs[i].thread # "running"
=============================================================================
