---------------------------- MODULE SchemaReplay ----------------------------
(***************************************************************************)
(* Replay under governance: the governance decisions in the ledger are     *)
(* projected (projections/governance.py), compiled to a schema policy      *)
(* (schema/factory.py, policy.py), and a replay (projections/context.py,   *)
(* pipeline.py) brings every event to its type's canonical version with    *)
(* the registered upcasters (schema/resolver.py, upcaster.py).  Policies   *)
(* with migration paths are written by hand: the factory gives none.       *)
(*                                                                         *)
(* A payload is the sequence of versions it was upcast from.               *)
(***************************************************************************)
EXTENDS Integers, Sequences

CONSTANTS EventTypes,   \* the event types that have payload schemas
          SchemaEvents, \* the events an append may add
          HandWritten,  \* the policies with migration paths
          MaxLedger,    \* bound on the ledger
          MaxReplays    \* bound on the replays

\* a migration path is a sequence of pairs of versions
ASSUME SchemaAssumption ==
    /\ MaxLedger \in Nat \ {0}
    /\ \A policy \in HandWritten : \A type \in DOMAIN policy : policy[type].path \in Seq(Int \X Int)

VARIABLES ledger,     \* the events, ORDER BY event_sequence
          registered, \* UpcasterRegistry._upcasters: pairs of type and version
          replays     \* the replays made: what was asked and what came back

schemaVars == <<ledger, registered, replays>>

-----------------------------------------------------------------------------
(* GovernanceProjection *)

NotANumber == -1

NoGovernance == [policies |-> <<>>, topology |-> <<"default", 0>>, schemas |-> <<>>, disabled |-> <<>>]

Without(f, key) == [k \in DOMAIN f \ {key} |-> f[k]]
With(f, key, value) == [k \in DOMAIN f \cup {key} |-> IF k = key THEN value ELSE f[k]]

\* a record that cannot be parsed is skipped
Decision(e) == e.type = "GOVERNANCE_DECISION_RECORDED" /\ e.domain # "?"
Decides(e, domain, action) == Decision(e) /\ e.domain = domain /\ e.action = action

\* without an effective sequence a decision takes effect at its own
TakesEffect(k) == IF ledger[k].effective = 0 THEN k ELSE ledger[k].effective

\* Mutant: a projection that was disabled stays disabled
DisabledAfter_Never(disabled, k) ==
    LET e == ledger[k]
    IN  IF Decides(e, "PROJECTION", "DISABLED") THEN With(disabled, e.target, TakesEffect(k)) ELSE disabled

\* the latest decision about a target wins, whenever it takes effect
DisabledAfter(disabled, k) ==
    LET e == ledger[k]
    IN  CASE Decides(e, "PROJECTION", "DISABLED") -> With(disabled, e.target, TakesEffect(k))
          [] Decides(e, "PROJECTION", "ADJUSTED") -> Without(disabled, e.target)
          [] OTHER -> disabled

PoliciesAfter(policies, k) ==
    LET e == ledger[k]
    IN  CASE Decides(e, "POLICY", "ADJUSTED") -> With(policies, e.target, <<e.new, TakesEffect(k)>>)
          [] Decides(e, "POLICY", "DISABLED") -> Without(policies, e.target)
          [] OTHER -> policies

SchemasAfter(schemas, k) ==
    LET e == ledger[k]
    IN  IF Decides(e, "SCHEMA", "MIGRATION_APPLIED") /\ e.new > 0
        THEN With(schemas, e.target, <<e.new, TakesEffect(k)>>) ELSE schemas

GovernanceStep(g, k) ==
    [policies |-> PoliciesAfter(g.policies, k), schemas |-> SchemasAfter(g.schemas, k),
     disabled |-> DisabledAfter(g.disabled, k),
     topology |-> IF Decides(ledger[k], "PROJECTION", "TOPOLOGY_CHANGED")
                  THEN <<ledger[k].target, TakesEffect(k)>> ELSE g.topology]

\* a migration to a version that is not a number is an exception, not a record to skip
Governable ==
    ~ \E k \in DOMAIN ledger : Decides(ledger[k], "SCHEMA", "MIGRATION_APPLIED") /\ ledger[k].new = NotANumber

GovernanceAfter ==
    LET g[k \in 0 .. Len(ledger)] == IF k = 0 THEN NoGovernance ELSE GovernanceStep(g[k - 1], k)
    IN  g

GovernanceState == GovernanceAfter[Len(ledger)]

\* get_effective_schema_version, is_component_disabled and get_effective_policy
EffectiveSchema(g, type, at) ==
    IF type \in DOMAIN g.schemas /\ g.schemas[type][2] <= at THEN g.schemas[type][1] ELSE 1
IsDisabled(g, name, at) == name \in DOMAIN g.disabled /\ g.disabled[name] <= at
EffectivePolicy(g, name, at) ==
    IF name \in DOMAIN g.policies /\ g.policies[name][2] <= at THEN g.policies[name][1] ELSE 0

-----------------------------------------------------------------------------
(* SchemaPolicyFactory and SchemaPolicy *)

\* targets that are no event types are left out; no migration path is compiled
CompilePolicy(g) ==
    [type \in DOMAIN g.schemas \cap EventTypes |-> [latest |-> g.schemas[type][1], path |-> <<>>]]

SchemaOf(policy, type) ==
    IF type \in DOMAIN policy THEN policy[type] ELSE [latest |-> 1, path |-> <<>>]

IsCurrentVersion(policy, e) == e.version = SchemaOf(policy, e.type).latest

\* one pass over the steps in their order, up to the canonical version
VersionsAlong(s, version) ==
    LET v[i \in 0 .. Len(s.path)] ==
            IF i = 0 THEN version
            ELSE IF v[i - 1] # s.latest /\ s.path[i][1] = v[i - 1] THEN s.path[i][2] ELSE v[i - 1]
    IN  v

CanResolve(policy, e) ==
    LET s == SchemaOf(policy, e.type) IN VersionsAlong(s, e.version)[Len(s.path)] = s.latest

-----------------------------------------------------------------------------
(* ReplayResolver and ReplayPipeline *)

\* what a reducer reads of an event; ok is FALSE where UnknownSchemaError is raised
Resolved(e, ok) == [ok |-> ok, type |-> e.type, version |-> e.version, payload |-> e.payload]

\* Mutant: the upcaster of every step runs, wherever the event starts
Upcast_EveryStep(upcasters, r, step) ==
    IF ~ r.ok THEN r
    ELSE IF <<r.type, step[1]>> \in upcasters
    THEN [ok |-> TRUE, type |-> r.type, version |-> step[2], payload |-> Append(r.payload, step[1])]
    ELSE Resolved(r, FALSE)

Upcast(upcasters, r, step) ==
    IF step[1] # r.version \/ ~ r.ok THEN r
    ELSE IF <<r.type, step[1]>> \in upcasters
    THEN [ok |-> TRUE, type |-> r.type, version |-> step[2], payload |-> Append(r.payload, step[1])]
    ELSE Resolved(r, FALSE)

\* all steps of the path, those beyond the canonical version too
UpcastAlong(upcasters, path, e) ==
    LET r[i \in 0 .. Len(path)] ==
            IF i = 0 THEN Resolved(e, TRUE) ELSE Upcast(upcasters, r[i - 1], path[i])
    IN  r

ResolveWith(upcasters, policy, e) ==
    LET path == SchemaOf(policy, e.type).path
    IN  CASE IsCurrentVersion(policy, e) -> Resolved(e, TRUE)
          [] ~ IsCurrentVersion(policy, e) /\ ~ CanResolve(policy, e) -> Resolved(e, FALSE)
          [] OTHER -> UpcastAlong(upcasters, path, e)[Len(path)]

Resolve(policy, e) == ResolveWith(registered, policy, e)

Bounded(max, length) == IF max < length THEN max ELSE length

\* process, run: the events up to the bound; one that cannot be resolved ends it all
Process(policy, max) == [k \in 1 .. Bounded(max, Len(ledger)) |-> Resolve(policy, ledger[k])]

Unlimited == MaxLedger

\* InterpretiveContextBuilder.build: the policy is that of today in every mode,
\* and a CURRENT replay has no bound
Request(mode, sequence) ==
    [policy |-> CompilePolicy(GovernanceState), mode |-> mode,
     max |-> IF mode = "CURRENT" THEN Unlimited ELSE sequence]

-----------------------------------------------------------------------------
SInit ==
    /\ ledger = <<>>
    /\ registered = {<<type, 1>> : type \in EventTypes}
    /\ replays = <<>>

\* governance decisions are of schema version 1 like every other event
AppendToLedger(e) ==
    /\ Len(ledger) < MaxLedger
    /\ ledger' = Append(ledger, e)
    /\ UNCHANGED <<registered, replays>>

\* an upcaster that was registered is taken not to be replaced by another
RegisterUpcaster(type, version) ==
    /\ <<type, version>> \notin registered
    /\ registered' = registered \cup {<<type, version>>}
    /\ UNCHANGED <<ledger, replays>>

RunPipeline(request) ==
    LET events == Process(request.policy, request.max)
    IN  /\ Len(replays) < MaxReplays
        /\ request.mode # "by hand" => Governable
        /\ replays' = Append(replays, [policy |-> request.policy, mode |-> request.mode, max |-> request.max,
                                       ok |-> \A k \in DOMAIN events : events[k].ok,
                                       events |-> events, length |-> Len(ledger)])
        /\ UNCHANGED <<ledger, registered>>

\* int(new_version) raises, and no replay by request is possible any more
GovernanceFails ==
    /\ Len(replays) < MaxReplays
    /\ ~ Governable
    /\ replays' = Append(replays, [policy |-> <<>>, mode |-> "failed", max |-> 0, ok |-> FALSE,
                                   events |-> <<>>, length |-> Len(ledger)])
    /\ UNCHANGED <<ledger, registered>>

\* INTERPRETIVE is built like HISTORICAL, COUNTERFACTUAL is refused
Modes == {"CURRENT", "HISTORICAL"}

SNext ==
    \/ \E e \in SchemaEvents : AppendToLedger(e)
    \/ \E type \in EventTypes, version \in {2} : RegisterUpcaster(type, version)
    \/ \E mode \in Modes, sequence \in 1 .. Len(ledger) :
           /\ mode = "CURRENT" => sequence = 1
           /\ RunPipeline(Request(mode, sequence))
    \/ GovernanceFails
    \/ \E policy \in HandWritten :
           RunPipeline([policy |-> policy, mode |-> "by hand", max |-> Unlimited])

SchemaSpec == SInit /\ [][SNext]_schemaVars

-----------------------------------------------------------------------------
(* Properties *)

Overshoots(s) == \E i \in DOMAIN s.path : s.path[i][1] = s.latest

\* the versions that were upcast from lead along steps of the path, without a gap
Chain(path, from, versions, to) ==
    LET reached == Append(versions, to)
    IN  /\ reached[1] = from
        /\ \A n \in DOMAIN versions : \E i \in DOMAIN path : path[i] = <<reached[n], reached[n + 1]>>

\* A replay that returns gives the ledger's events, in order and each of them
\* once, at the canonical version of the policy, brought there by upcasters that
\* each went on from the version the one before had made; and the reducers may
\* resolve them once more without a change.  Only of paths that end at the
\* canonical version.
ReplayIsCanonical ==
    \A i \in DOMAIN replays :
        LET r == replays[i]
            Clean(e) == ~ Overshoots(SchemaOf(r.policy, e.type))
        IN  r.ok =>
            /\ Len(r.events) = Bounded(r.max, r.length)
            /\ \A k \in DOMAIN r.events :
                   LET e == r.events[k]
                   IN  /\ e.type = ledger[k].type
                       /\ ledger[k].payload = <<>> =>
                              Chain(SchemaOf(r.policy, e.type).path, ledger[k].version, e.payload, e.version)
                       /\ Clean(e) => IsCurrentVersion(r.policy, e) /\ Resolve(r.policy, e) = e

\* A replay is reproducible: one with the same policy and the same bound, within
\* what the ledger held, gives the same events later, whatever was appended and
\* registered in between; and what could be resolved stays resolvable.
ReplayReproducible ==
    \A i, j \in DOMAIN replays :
        LET a == replays[i]
            b == replays[j]
        IN  i < j /\ a.policy = b.policy /\ a.max = b.max /\ a.max <= a.length /\ a.ok
                => b.ok /\ a.events = b.events

DecidedAbout(domain, target, actions) ==
    {k \in DOMAIN ledger : Decision(ledger[k]) /\ ledger[k].domain = domain
                          /\ ledger[k].target = target /\ ledger[k].action \in actions}
LastOf(S) == CHOOSE k \in S : \A j \in S : j <= k

\* The governance in force at a place in the ledger is that of the last decision
\* about each target, read off the ledger itself, once it takes effect.
GovernanceExact ==
    LET g == GovernanceState
    IN  Governable => \A target \in {ledger[k].target : k \in {j \in DOMAIN ledger : Decision(ledger[j])}},
                         at \in DOMAIN ledger :
        LET switches == DecidedAbout("PROJECTION", target, {"DISABLED", "ADJUSTED"})
            moves == {k \in DecidedAbout("SCHEMA", target, {"MIGRATION_APPLIED"}) : ledger[k].new > 0}
            tunes == DecidedAbout("POLICY", target, {"ADJUSTED", "DISABLED"})
            InForce(S, action) ==
                S # {} /\ ledger[LastOf(S)].action = action /\ TakesEffect(LastOf(S)) <= at
        IN  /\ IsDisabled(g, target, at) <=> InForce(switches, "DISABLED")
            /\ EffectiveSchema(g, target, at) =
                   IF InForce(moves, "MIGRATION_APPLIED") THEN ledger[LastOf(moves)].new ELSE 1
            /\ EffectivePolicy(g, target, at) =
                   IF InForce(tunes, "ADJUSTED") THEN ledger[LastOf(tunes)].new ELSE 0

\* Of the decisions about schemas, policies and projections the last one about a
\* target is in force, and a replay gives canonical events, and the same again
\* (projections/governance.py, pipeline.py, schema/).
SchemaSound == ReplayIsCanonical /\ ReplayReproducible /\ GovernanceExact

\* "Retrieve the schema version of an event type effective at the given sequence
\* number" (projections/governance.py:46): refuted, of two migrations only the
\* later is kept, and before it takes effect the answer is version 1.
EffectiveHistory ==
    \A type \in EventTypes, at \in 1 .. Len(ledger) :
        LET moves == {k \in DecidedAbout("SCHEMA", type, {"MIGRATION_APPLIED"}) :
                          ledger[k].new > 0 /\ TakesEffect(k) <= at}
        IN  moves # {} =>
                EffectiveSchema(GovernanceState, type, at) = ledger[CHOOSE k \in moves : \A j \in moves : j <= k].new

\* A historical replay does not depend on what came after: refuted, the policy
\* is compiled from all decisions (projections/context.py:69), and the factory
\* compiles no migration paths, so a later migration makes it fail.
HistoricalStable ==
    \A i, j \in DOMAIN replays :
        LET a == replays[i]
            b == replays[j]
        IN  i < j /\ a.mode = "HISTORICAL" /\ b.mode = "HISTORICAL" /\ a.max = b.max
               /\ a.max <= a.length /\ a.ok => b.ok

\* "The reducer receives only canonical-version events" (projections/pipeline.py:57):
\* refuted by a path that goes on beyond the canonical version.
OnlyCanonical ==
    \A i \in DOMAIN replays :
        replays[i].ok => \A k \in DOMAIN replays[i].events :
            IsCurrentVersion(replays[i].policy, replays[i].events[k])

=============================================================================
