------------------------------ MODULE MCDerived ------------------------------
(***************************************************************************)
(* The components that derive something from the ledger, and the skills    *)
(* that are run on what was derived, checked in one run: a behaviour       *)
(* belongs to one of them, named by scenario.  Reflections, the projection *)
(* compiler, governance and embeddings have their own variables, which     *)
(* stay as they were in the behaviours of the others; v1 to v5 are the     *)
(* variables of one of the rest, the ones it does not need are at Rest.    *)
(* The state spaces add up instead of multiplying.                         *)
(***************************************************************************)
EXTENDS Reflection, ProjectionCompiler, Governance, Embedding

CONSTANTS t1, t2, t3, plugin, d1, d2, Rest

VARIABLES scenario, v1, v2, v3, v4, v5

others == <<v1, v2, v3, v4, v5>>
vars == <<scenario, rvars, pvars, gvars, evars, others>>

-----------------------------------------------------------------------------
MCQuoted == t1 :> t1 @@ t2 :> t3

\* what the proofs assume of the targets and the threshold holds of these
ASSUME TargetsAssumption == ReflectionAssumption

On(p, optional) == [id |-> p, optional |-> optional]

\* the registry of governance/cli.py without its stand-ins
SomeDependencies == "k" :> <<>> @@ "r" :> <<On("k", FALSE)>> @@ "g" :> <<On("r", FALSE), On("k", TRUE)>>

\* that one, one with a cycle through all three, and one with a projection that
\* needs itself
MCDependencies ==
    {SomeDependencies,
     "k" :> <<On("g", FALSE)>> @@ "r" :> <<On("k", TRUE)>> @@ "g" :> <<On("r", FALSE)>>,
     "k" :> <<>> @@ "r" :> <<On("g", TRUE)>> @@ "g" :> <<On("g", FALSE)>>}

\* what the proofs assume of the dependencies holds of these
ASSUME DependenciesAssumption == CompilerAssumption

Rule(id, version, categories, minimum, enabled) ==
    [id |-> id, version |-> version, categories |-> categories, minimum |-> minimum,
     severity |-> "warning", action |-> "notify", enabled |-> enabled]

MCGovernanceEvents ==
    {[type |-> "GOVERNANCE_RULE_CREATED", rule |-> Rule("a", 1, {"risk"}, 40, TRUE)],
     [type |-> "GOVERNANCE_RULE_CREATED", rule |-> Rule("a", 2, Unset, 45, TRUE)],
     [type |-> "GOVERNANCE_RULE_UPDATED", rule |-> Rule("a", 1, {"risk"}, Unset, FALSE)],
     [type |-> "GOVERNANCE_RULE_DELETED", key |-> <<"a", 1>>],
     [type |-> "MALFORMED_RULE"],
     [type |-> "KNOWLEDGE_CREATED", entity |-> "y", related |-> FALSE],
     [type |-> "KNOWLEDGE_DELETED", entity |-> "x"]}

\* what the proofs assume of the rules holds of these
ASSUME RulesAssumption == GovernanceAssumption

\* A plugin's skill under a time limit, and a skill without one that accepts
\* more categories and asks for more than plans are granted
MCManifests ==
    1 :> [permissions |-> {"projection:memory"}, categories |-> {"AFFIRM"}, timeout |-> 1,
          required |-> {"status"}, plugin |-> plugin, base |-> FALSE]
    @@ 2 :> [permissions |-> {"ledger:write"}, categories |-> {"AFFIRM", "RESOLVE"}, timeout |-> 0,
             required |-> {}, plugin |-> Unset, base |-> TRUE]

MCOutputs ==
    {[raises |-> TRUE, fields |-> {}, artifacts |-> {}],
     [raises |-> FALSE, fields |-> {}, artifacts |-> {[hash |-> 1, known |-> TRUE]}],
     [raises |-> FALSE, fields |-> {"status"},
      artifacts |-> {[hash |-> 1, known |-> TRUE], [hash |-> 2, known |-> FALSE]}]}

S == INSTANCE SkillExecution WITH
        manifests <- v1, plugins <- v2, runs <- v3, ledger <- v4, effects <- v5,
        Skills <- {1, 2}, Decisions <- {d1, d2}, WindowSize <- 2, ManifestOf <- MCManifests,
        CategoryOf <- (d1 :> "AFFIRM" @@ d2 :> "RESOLVE"), Plugins <- {plugin}, Outputs <- MCOutputs,
        Timeouts <- {0, 2}, MaxRuns <- 2, None <- Unset

\* what the proofs assume of outputs and results holds of these
ASSUME OutputsAssumption == S!SkillAssumption

At(session, e) == e @@ [session |-> session]
MCFirst == <<At(Rest, [type |-> "PROJECT_CREATED", value |-> "n"]),
             At(Rest, [type |-> "PROJECT_GOAL_SET", value |-> "g"]),
             At("s", [type |-> "PROJECT_FOCUS_CHANGED", value |-> "f"])>>
Task(t, priority, questions) ==
    At("s", [type |-> "TASK_CREATED", id |-> t, priority |-> priority, blockedBy |-> questions])
Of(type, id) == At(Rest, [type |-> type, id |-> id])
StatusOf(t, status) ==
    At("s", [type |-> "TASK_MUTATED", id |-> t, field |-> "status", value |-> status])

MCContinuationEvents ==
    {MCFirst[3], StatusOf("t", "in_progress"), StatusOf("t", "blocked"), Of("TASK_COMPLETED", "t"),
     Task("u", "high", {}),
     Of("DECISION_PROPOSED", "d"), Of("DECISION_ACCEPTED", "d"), Of("DECISION_ACCEPTED", "e"),
     Of("DECISION_SUPERSEDED", "d"),
     At(Rest, [type |-> "OPEN_QUESTION_RAISED", id |-> "q", priority |-> "low", blocks |-> {"u"}]),
     Of("OPEN_QUESTION_RESOLVED", "q"),
     At("r", [type |-> "CONTEXT_SNAPSHOT_RECORDED", blockedOn |-> "w", nextAction |-> ""]),
     At("s", [type |-> "CONTEXT_SNAPSHOT_RECORDED", blockedOn |-> "", nextAction |-> "x"])}

\* a stream that is not bootstrapped, and one with a task and two
\* decisions proposed
MCContinuationLogs ==
    {SubSeq(MCFirst, 1, 2) \o <<Task("t", "low", {"q"}), Task("u", "low", {}),
                                Of("DECISION_PROPOSED", "d"), Of("DECISION_ACCEPTED", "d")>>,
     MCFirst \o <<Task("t", "low", {"q"}), Of("DECISION_PROPOSED", "e"), Of("DECISION_PROPOSED", "d")>>}

C == INSTANCE Continuation WITH
        stream <- v1, snap <- v2, last <- v3,
        InitialLogs <- MCContinuationLogs, StreamEvents <- MCContinuationEvents,
        HeadThreshold <- 2, MaxStream <- 10, RecentDecisions <- 1, RecentEvents <- 2, NoSession <- Rest

M == INSTANCE McpTools WITH
        tools <- v1, bindings <- v2, calls <- v3, made <- v4,
        Names <- {"a"}, Categories <- {"x", "y"}, Workspaces <- {"w"}, Sessions <- {"s", "r"},
        MaxTools <- 3, MaxBindings <- 2, MaxCalls <- 2

N == INSTANCE RuntimeNodes WITH
        nodes <- v1, health <- v2, reported <- v3, samples <- v4, steps <- v5,
        NodeIds <- {"n", "m"}, Values <- {1, 2}, MaxNodes <- 2, MaxSamples <- 2, MaxSteps <- 4

-----------------------------------------------------------------------------
AtRest == v1 = Rest /\ v2 = Rest /\ v3 = Rest /\ v4 = Rest /\ v5 = Rest

OtherInit ==
    \/ scenario = "continuation" /\ C!HeadInit /\ v4 = Rest /\ v5 = Rest
    \/ scenario = "tools" /\ M!MInit /\ v5 = Rest
    \/ scenario = "nodes" /\ N!NInit
    \/ scenario = "skills" /\ S!SInit

\* one registry and one provider where they are not what the behaviour is about
CompilerAtRest == PInit /\ dependencies = SomeDependencies
EmbeddingAtRest == EInit /\ provider = "p"

Init ==
    /\ RInit /\ GInit
    /\ \/ scenario \in {"reflection", "governance"} /\ CompilerAtRest /\ EmbeddingAtRest /\ AtRest
       \/ scenario = "compiler" /\ PInit /\ EmbeddingAtRest /\ AtRest
       \/ scenario = "embedding" /\ EInit /\ CompilerAtRest /\ AtRest
       \/ OtherInit /\ CompilerAtRest /\ EmbeddingAtRest

Reflects == scenario = "reflection" /\ RNext /\ UNCHANGED <<scenario, pvars, gvars, evars, others>>
Compiles == scenario = "compiler" /\ PNext /\ UNCHANGED <<scenario, rvars, gvars, evars, others>>
Governs == scenario = "governance" /\ GNext /\ UNCHANGED <<scenario, rvars, pvars, evars, others>>
Embeds == scenario = "embedding" /\ ENext /\ UNCHANGED <<scenario, rvars, pvars, gvars, others>>

\* the components on v1 to v5
Continues == scenario = "continuation" /\ C!CNext /\ UNCHANGED <<v4, v5>>
Tools == scenario = "tools" /\ M!MNext /\ UNCHANGED v5
RemoteNodes == scenario = "nodes" /\ N!NNext
Skills == scenario = "skills" /\ S!SNext
OtherNext == (Continues \/ Tools \/ RemoteNodes \/ Skills) /\ UNCHANGED <<scenario, rvars, pvars, gvars, evars>>

Next == Reflects \/ Compiles \/ Governs \/ Embeds \/ OtherNext

\* the caller's thread of run i: Event.wait returns, execute returns, the caller
\* appends; nothing is assumed of the skill's thread
Returns(i) ==
    /\ scenario = "skills" /\ i <= Len(v3) /\ (S!TimesOut(i) \/ S!Collect(i))
    /\ UNCHANGED <<scenario, rvars, pvars, gvars, evars>>
Appends(i) ==
    /\ scenario = "skills" /\ i <= Len(v3) /\ S!Record(i)
    /\ UNCHANGED <<scenario, rvars, pvars, gvars, evars>>

\* a call of the compiler that was made runs to its end
CompilesOn == scenario = "compiler" /\ CompilerStep /\ UNCHANGED <<scenario, rvars, gvars, evars, others>>

Spec ==
    /\ Init /\ [][Next]_vars
    /\ WF_vars(CompilesOn)
    /\ \A i \in 1 .. 2 : WF_vars(Returns(i)) /\ WF_vars(Appends(i))

-----------------------------------------------------------------------------
(* Properties, each of its scenario; those of reflections, the compiler,      *)
(* governance and embeddings are the components' own                          *)

\* The agent that continues a project is told what its cognitive head holds, the
\* latest first, with provenance that replays to it (projections/continuation.py).
ContinuationAgrees ==
    scenario = "continuation" => C!AgreesWithHead /\ C!ProvenanceSuffices /\ C!NewestAreListed

\* What runs for an agent.  Artifacts are promoted only by runs that earned it,
\* the history read from the ledger agrees with the reports, and advice to retry
\* can help, with skills that end late and processes that die (sandbox.py,
\* executor.py, execution_state.py); a tool's name keeps its meaning and a bound
\* call runs a tool of the bound name (mcp/v2_runtime.py); a remote node is online
\* by its latest report and aggregates follow the samples (runtime/).
ExecutionSound ==
    /\ scenario = "skills" => S!ArtifactsEarned /\ S!LedgerAgrees /\ S!RetryAdviceSound
    /\ scenario = "tools" => M!NameKeepsMeaning /\ M!BoundNameRuns
    /\ scenario = "nodes" => N!LatestReportCounts /\ N!AggregatesMonotone

\* Every execution under a time limit is reported in the ledger unless its
\* process dies, even if the skill never returns (sandbox.py, executor.py).
EventuallyReported ==
    \A i \in 1 .. 2 :
        (scenario = "skills" /\ i <= Len(v3) /\ MCManifests[v3[i].skill].timeout > 0)
            ~> (scenario = "skills" /\ i <= Len(v3) /\ v3[i].main \in {"recorded", "dead"})
=============================================================================
