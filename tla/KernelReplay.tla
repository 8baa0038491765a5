---------------------------- MODULE KernelReplay ----------------------------
(***************************************************************************)
(* The replayer of the reference kernel (replay/engine/default.py) with    *)
(* its registry of projections (registry.py) and the wrappers that guard a *)
(* reducer (reducer.py).  A reducer is any Python function: it may write   *)
(* into the dicts it is given.  The event dicts of a replay are shared by  *)
(* its reducers, and their payloads are the very objects a MemoryLedger    *)
(* keeps; SQLiteLedger parses them anew at every read.                     *)
(*                                                                         *)
(* Commits have one event here, CommitLedger has longer ones.  What a      *)
(* projection holds is the sequence of events its reducer was shown; tags  *)
(* and payload are the names of the reducers that wrote there.             *)
(***************************************************************************)
EXTENDS Integers, Sequences

CONSTANTS Streams,    \* stream ids
          CommitMenu, \* the events a commit may add: stream and type
          Reducers,   \* what may be registered: name, body, wrapper and known types
          MaxEntries, \* bound on the ledger
          MaxReducers,\* bound on the registry
          MaxResults  \* bound on the replays

VARIABLES backend,   \* "memory" or "sqlite"
          entries,   \* the ledger, in global order
          registry,  \* ProjectionRegistry, in registration order
          results    \* every ReplayResult, and the PurityViolationErrors

kernelVars == <<backend, entries, registry, results>>

-----------------------------------------------------------------------------
(* Reducers and their wrappers *)

\* "fold" builds a new state, "counter" updates the one it is given, "tag" sets a
\* key of the event and "scrub" one of its payload
Touch(r, e) ==
    CASE r.body = "tag" -> [e EXCEPT !.tags = @ \cup {r.name}]
      [] r.body = "scrub" -> [e EXCEPT !.payload = @ \cup {r.name}]
      [] OTHER -> e

\* verify_purity compares the inputs after the call, when they have been written
\* to; verify_determinism calls the reducer on deep copies only
Call(r, state, e) ==
    LET seen == Append(state, e)
        after == Touch(r, e)
    IN  CASE r.wrapper = "known" /\ e.type \notin r.known -> [ok |-> TRUE, state |-> state, event |-> e]
          [] r.wrapper = "determinism" -> [ok |-> TRUE, state |-> seen, event |-> e]
          [] r.wrapper = "purity" -> [ok |-> r.body # "counter" /\ after = e, state |-> seen, event |-> after]
          [] OTHER -> [ok |-> TRUE, state |-> seen, event |-> after]

Feed(r, run, k) ==
    LET c == Call(r, run.state, run.events[k])
    IN  IF run.ok THEN [ok |-> c.ok, state |-> c.state, events |-> [run.events EXCEPT ![k] = c.event]]
        ELSE run

\* one reducer, after each of the events
FedBy(r, start, events) ==
    LET fed[k \in 0 .. Len(events)] ==
            IF k = 0 THEN [ok |-> TRUE, state |-> start, events |-> events] ELSE Feed(r, fed[k - 1], k)
    IN  fed

FeedAll(r, start, events) == FedBy(r, start, events)[Len(events)]

\* the next reducer goes on unless one has raised
Project(run, r, start) ==
    LET fed == FeedAll(r, start, run.events)
    IN  IF run.ok THEN [ok |-> fed.ok, events |-> fed.events, states |-> Append(run.states, fed.state)]
        ELSE run

\* Mutant: every reducer goes on from the state of the one before
RunsAfter_OneState(reducers, events) ==
    LET run[n \in 0 .. Len(reducers)] ==
            IF n = 0 THEN [ok |-> TRUE, events |-> events, states |-> <<>>]
            ELSE Project(run[n - 1], reducers[n],
                         IF run[n - 1].states = <<>> THEN <<>> ELSE run[n - 1].states[Len(run[n - 1].states)])
    IN  run

\* each reducer from an empty state over the same event dicts
RunsAfter(reducers, events) ==
    LET run[n \in 0 .. Len(reducers)] ==
            IF n = 0 THEN [ok |-> TRUE, events |-> events, states |-> <<>>]
            ELSE Project(run[n - 1], reducers[n], <<>>)
    IN  run

ApplyReducers(reducers, events) == RunsAfter(reducers, events)[Len(reducers)]

-----------------------------------------------------------------------------
(* DefaultReplayer *)

\* all entries, a stream's, or those up to a boundary
InScope(scope, k) ==
    CASE scope.kind = "stream" -> entries[k].stream = scope.stream
      [] scope.kind = "to" -> k - 1 <= scope.order
      [] OTHER -> TRUE

\* the positions of the entries a replay reads, ascending
ReadUpTo(scope) ==
    LET read[k \in 0 .. Len(entries)] ==
            IF k = 0 THEN <<>> ELSE IF InScope(scope, k) THEN Append(read[k - 1], k) ELSE read[k - 1]
    IN  read

ReadEntries(scope) == ReadUpTo(scope)[Len(entries)]

EntryToEvent(k, payload) ==
    [order |-> k - 1, stream |-> entries[k].stream, type |-> entries[k].type, tags |-> {}, payload |-> payload]

ComputeBoundary(read) == IF read = <<>> THEN 0 ELSE read[Len(read)] - 1

-----------------------------------------------------------------------------
KInit ==
    /\ backend \in {"memory", "sqlite"}
    /\ entries = <<>> /\ registry = <<>> /\ results = <<>>

AppendCommit(e) ==
    /\ Len(entries) < MaxEntries
    /\ entries' = Append(entries, [stream |-> e.stream, type |-> e.type, payload |-> {}])
    /\ UNCHANGED <<backend, registry, results>>

\* a second projection of the same name is refused
RegisterProjection(r) ==
    /\ Len(registry) < MaxReducers
    /\ \A i \in DOMAIN registry : registry[i].name # r.name
    /\ registry' = Append(registry, r)
    /\ UNCHANGED <<backend, entries, results>>

\* replay, replay_to and replay_stream; what a reducer wrote into a payload stays
\* written, also when the replay is given up
ReplayScope(scope) ==
    LET read == ReadEntries(scope)
        run == ApplyReducers(registry, [i \in DOMAIN read |-> EntryToEvent(read[i], entries[read[i]].payload)])
    IN  /\ Len(results) < MaxResults
        /\ results' = Append(results, [scope |-> scope, reducers |-> registry, read |-> read, ok |-> run.ok,
                                       states |-> run.states, boundary |-> ComputeBoundary(read)])
        /\ entries' = IF backend = "sqlite" THEN entries
                      ELSE [k \in DOMAIN entries |->
                               IF \E i \in DOMAIN read : read[i] = k
                               THEN [entries[k] EXCEPT !.payload =
                                        run.events[CHOOSE i \in DOMAIN read : read[i] = k].payload]
                               ELSE entries[k]]
        /\ UNCHANGED <<backend, registry>>

Scopes == {[kind |-> "global"]} \cup {[kind |-> "stream", stream |-> s] : s \in Streams}
              \cup {[kind |-> "to", order |-> n] : n \in 0 .. MaxEntries - 1}

KNext ==
    \/ \E e \in CommitMenu : AppendCommit(e)
    \/ \E r \in Reducers : RegisterProjection(r)
    \/ \E scope \in Scopes : ReplayScope(scope)

KSpec == KInit /\ [][KNext]_kernelVars

-----------------------------------------------------------------------------
(* Properties *)

WritesPayload(r) == r.body = "scrub" /\ r.wrapper # "determinism"
Guarded(r) == r.body \in {"fold", "counter"} \/ r.wrapper \in {"purity", "determinism"}

\* no reducer can have written into the ledger
LedgerIsSafe == backend = "sqlite" \/ \A i \in DOMAIN registry : ~ WritesPayload(registry[i])

Committed(read) == [i \in DOMAIN read |-> EntryToEvent(read[i], {})]

\* A replay that returns gives every projection what its reducer makes of the
\* committed events alone, whatever else is registered and in which order, if no
\* reducer is left to write into events unguarded; and its boundary is the order
\* of the last event it read (I-01a, I-09; default.py:146-168).
ProjectionsIsolated ==
    LedgerIsSafe => \A i \in DOMAIN results :
        LET r == results[i]
            Alone(n) == ApplyReducers(<<r.reducers[n]>>, Committed(r.read)).states[1]
        IN  r.ok /\ (\A n \in DOMAIN r.reducers : Guarded(r.reducers[n])) =>
                /\ \A n \in DOMAIN r.reducers : r.states[n] = Alone(n)
                /\ \A k \in DOMAIN r.read : r.read[k] - 1 <= r.boundary

\* Replays of the same entries by the same reducers agree, before and after other
\* commits and other replays, guarded or not (I-01; default.py:63-130).
KernelDeterministic ==
    LedgerIsSafe => \A i, j \in DOMAIN results :
        results[i].read = results[j].read /\ results[i].reducers = results[j].reducers =>
            results[i].ok = results[j].ok /\ results[i].states = results[j].states

\* The ledger's events stay as they were committed (default.py, reducer.py).
LedgerUntouched == LedgerIsSafe => \A k \in DOMAIN entries : entries[k].payload = {}

\* The kernel's replays agree, keep projections apart and leave the ledger as it
\* is (replay/engine/default.py, replay/reducer.py).
KernelSound == ProjectionsIsolated /\ KernelDeterministic /\ LedgerUntouched

\* "Wrap a reducer to enforce I-12" (replay/reducer.py:60): refuted on a
\* MemoryLedger.  verify_purity raises after the reducer has written into the
\* ledger's own payload, and the next replay finds nothing changed by it.
PurityEnforced ==
    \A i \in DOMAIN results :
        LET r == results[i]
        IN  r.ok /\ (\A n \in DOMAIN r.reducers : r.reducers[n].wrapper = "purity") =>
                \A n \in DOMAIN r.reducers : \A k \in DOMAIN r.states[n] : r.states[n][k].payload = {}

=============================================================================
