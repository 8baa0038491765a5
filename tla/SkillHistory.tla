---------------------------- MODULE SkillHistory ----------------------------
(***************************************************************************)
(* What the SKILL_EXECUTED events of the ledger are reduced to: the        *)
(* ExecutionState projection, the ExecutionAnalytics and the Execution-    *)
(* Intelligence derived from it, and the evaluator and gate that decide    *)
(* on promotion.  Pure operators over a sequence of events.  A rate is     *)
(* kept as its two counts and compared by cross-multiplication, in         *)
(* hundredths: no rounding is modelled because no decision depends on it.  *)
(***************************************************************************)
EXTENDS Integers, Sequences, FiniteSets, TLC

CONSTANTS Skills,       \* skill ids: naturals, ordered as the ids are
          Decisions,    \* decision ids
          WindowSize    \* ExecutionAnalyticsConfig.window_size

\* Why a result carries an error; "none" when it carries none
ErrorKind == {"none", "activation", "timeout", "raised", "invalid", "denied"}
SkillResultStatus == {"COMPLETED", "FAILED", "TIMEOUT", "DENIED"}
SkillExecutionEvent ==
    [decision : Decisions, skill : Skills, state : SkillResultStatus \cup {"RESULT_CREATED"},
     error : ErrorKind, started : Nat]

\* The projection keeps an entry per event; an entry is named by its event's
\* place in the ledger, in whose order the code lists them
ExecutionEntry == Nat
ExecutionState ==
    [completed : SUBSET ExecutionEntry, failed : SUBSET ExecutionEntry, timeout : SUBSET ExecutionEntry,
     denied : SUBSET ExecutionEntry, pending : SUBSET Decisions]

Only(events, status) == {i \in DOMAIN events : events[i].state = status}

\* whatever is none of the three is a failure
Unrecognized(events) == {i \in DOMAIN events : events[i].state \notin {"COMPLETED", "TIMEOUT", "DENIED"}}

\* Mutant: an unknown state is dropped
Reduce_DropsUnknown(events, known) ==
    [completed |-> Only(events, "COMPLETED"), failed |-> Only(events, "FAILED"),
     timeout |-> Only(events, "TIMEOUT"), denied |-> Only(events, "DENIED"),
     pending |-> known \ {events[i].decision : i \in DOMAIN events}]

\* ExecutionStateProjection.reduce
Reduce(events, known) ==
    [completed |-> Only(events, "COMPLETED"), failed |-> Unrecognized(events),
     timeout |-> Only(events, "TIMEOUT"), denied |-> Only(events, "DENIED"),
     pending |-> known \ {events[i].decision : i \in DOMAIN events}]

Total(state) ==
    Cardinality(state.completed) + Cardinality(state.failed) + Cardinality(state.timeout) + Cardinality(state.denied)

\* ExecutionReport.from_results, over results in place of events
FromResults(results) ==
    LET Count(status) == Cardinality(Only(results, status))
    IN  [total |-> Len(results), completed |-> Count("COMPLETED"), failed |-> Count("FAILED"),
         timeout |-> Count("TIMEOUT"), denied |-> Count("DENIED")]

-----------------------------------------------------------------------------
(* ExecutionEvaluator and ExecutionGate *)

\* ExecutionEvaluator.evaluate: the rates, and 100 * total * score
Evaluate(state) ==
    LET Count(list) == Cardinality(state[list])
        n == IF Total(state) = 0 THEN 1 ELSE Total(state)
        c == IF Total(state) = 0 THEN 1 ELSE Count("completed")
        raw == 100 * c - 50 * Count("timeout") - 20 * Count("denied") - 30 * Count("failed")
                 + IF 100 * c >= 99 * n THEN 5 * n ELSE 0
    IN  [total    |-> n, completed |-> c, timeout |-> Count("timeout"), denied |-> Count("denied"),
         score    |-> IF raw < 0 THEN 0 ELSE IF raw > 100 * n THEN 100 * n ELSE raw,
         warnings |-> Cardinality({k \in {"timeout", "denied"} : 100 * Count(k) > 5 * n})]

\* The rules of the default ExecutionGatePolicy that are violated
GateViolations(v) ==
    {rule \in {"success_rate", "timeout_rate", "denial_rate", "overall_score", "warnings"} :
        \/ rule = "success_rate" /\ 100 * v.completed < 90 * v.total
        \/ rule = "timeout_rate" /\ 100 * v.timeout > 5 * v.total
        \/ rule = "denial_rate" /\ 100 * v.denied > 5 * v.total
        \/ rule = "overall_score" /\ v.score < 95 * v.total
        \/ rule = "warnings" /\ v.warnings > 5}

\* ExecutionGate.evaluate; ExecutionPromoter.promote repeats its decision
ExecutionGate(v) ==
    IF GateViolations(v) # {} THEN "BLOCK" ELSE IF v.warnings > 0 THEN "REVIEW" ELSE "PASS"

-----------------------------------------------------------------------------
(* ExecutionAnalytics and ExecutionIntelligence *)

\* The entries of a skill in the order of started_at
Entries(events, s) ==
    LET T(e) == e.skill = s
        mine == SelectSeq(events, T)
    IN  SortSeq(mine, LAMBDA a, b : a.started < b.started)

\* ExecutionAnalyticsProjection.project, for one skill
SkillStatistics(events, s) ==
    LET all == Entries(events, s)
        window == SubSeq(all, IF Len(all) > WindowSize THEN Len(all) - WindowSize + 1 ELSE 1, Len(all))
        Count(list, status) == Cardinality(Only(list, status))
    IN  [total |-> Len(all), success |-> Count(all, "COMPLETED"),
         rollingTotal |-> Len(window), rollingSuccess |-> Count(window, "COMPLETED"),
         timeouts |-> Count(all, "TIMEOUT")]

\* ReliabilityRule and TimeoutRule
AssessmentRules(events) ==
    [reliability |-> \A s \in Skills : LET t == SkillStatistics(events, s) IN 100 * t.success >= 90 * t.total,
     timeout     |-> \A s \in Skills : SkillStatistics(events, s).timeouts = 0]

\* trend_epsilon is 0.05
Trend(t) ==
    LET rolling == 100 * t.rollingSuccess * t.total
        overall == 100 * t.success * t.rollingTotal
        epsilon == 5 * t.total * t.rollingTotal
    IN  IF rolling > overall + epsilon THEN "IMPROVING"
        ELSE IF rolling < overall - epsilon THEN "DEGRADING" ELSE "STABLE"

SkillHealth(t) ==
    IF 100 * t.rollingSuccess < 80 * t.rollingTotal THEN "UNHEALTHY"
    ELSE IF 100 * t.rollingSuccess < 95 * t.rollingTotal \/ t.timeouts > 0 THEN "WARNING" ELSE "HEALTHY"

\* Failures count by state, so a RESULT_CREATED event is nobody's failure here
PluginHealth(events, skills) ==
    LET mine == {i \in DOMAIN events : events[i].skill \in skills}
        errors == Cardinality(mine \cap (Only(events, "FAILED") \cup Only(events, "TIMEOUT")))
    IN  IF 100 * errors >= 20 * Cardinality(mine) /\ mine # {} THEN "UNHEALTHY"
        ELSE IF errors > 0 THEN "WARNING" ELSE "HEALTHY"

\* Mutant: a denial is not recognized in the error
RetryDecision_NoDenied(e) ==
    IF e.state = "TIMEOUT" THEN "BACKOFF" ELSE IF e.error = "invalid" THEN "PERMANENT_FAILURE" ELSE "IMMEDIATE"

\* ExecutionIntelligenceProjection: what to do about an entry that is not completed
RetryDecision(e) ==
    IF e.state = "TIMEOUT" THEN "BACKOFF"
    ELSE IF e.error \in {"invalid", "denied"} THEN "PERMANENT_FAILURE"
    ELSE "IMMEDIATE"

RetryRecommendations(events) ==
    LET st == Reduce(events, {})
    IN  {[entry |-> events[i], decision |-> RetryDecision(events[i])] : i \in st.failed \cup st.timeout \cup st.denied}
=============================================================================
