-------------------------- MODULE SnapshotReplay ---------------------------
(***************************************************************************)
(* compile_cognitive_head (cognitive_head/compiler.py) with a              *)
(* SnapshotManager (snapshot.py), run by several processes that also       *)
(* append events of the project.  Each read of the store is a step of its  *)
(* own: nothing in the code holds the store still between them.            *)
(*                                                                         *)
(* What a reducer has folded is represented by the set of events it was    *)
(* given, the finest reducer there is; CognitiveHead checks that the real  *)
(* reducers can be resumed from a payload.  A head has two parts because a *)
(* snapshot mixes two reads: the project fields come from the head, the    *)
(* tasks, decisions and questions from a second pass over the stream.      *)
(***************************************************************************)
EXTENDS Integers, FiniteSets

CONSTANTS Procs,        \* processes: CLI calls, MCP server, agents
          Release,      \* [Procs -> release], SCHEMA_VERSION of the code they run
          KeepsHash,    \* the store gives snapshot_hash back with the payload
          Threshold,    \* EventCountPolicy.threshold
          Bootstrap,    \* how many events complete the bootstrap sequence
          MaxSequence,  \* bound on event_sequence
          NoSnapshot    \* load_valid_snapshot found nothing usable

Releases == {Release[p] : p \in Procs}
Snapshot == [seq : Nat, proj : SUBSET Nat, items : SUBSET Nat,
             release : Releases, by : Procs]

ASSUME ReplayAssumption ==
    /\ Release = [p \in Procs |-> Release[p]]
    /\ KeepsHash \in BOOLEAN
    /\ Threshold \in Nat \ {0}
    /\ Bootstrap \in Nat \ {0}
    /\ MaxSequence \in Nat
    /\ NoSnapshot \notin Snapshot

VARIABLES
    log,      \* event_sequence of every committed event of the project
    counter,  \* last event_sequence drawn by any project
    snaps,    \* rows of rationalevault_snapshots
    pc,       \* where in compile_cognitive_head a process is
    found,    \* the raw row it loaded was written by its own release
    payload,  \* the snapshot load_valid_snapshot gave it, or NoSnapshot
    head,     \* the head it has built: [mode, proj, items]
    seen,     \* the log at the read that decided the head
    items,    \* what the second pass over the stream folded
    current   \* current_seq, the sequence the next snapshot will carry

vars == <<log, counter, snaps, pc, found, payload, head, seen, items, current>>
storeVars == <<log, counter, snaps>>

Phases == {"idle", "checking", "loaded", "replay", "built", "folded", "policy", "save"}
HeadRecord == [mode : {"none", "full", "delta", "fast_path"}, proj : SUBSET Nat, items : SUBSET Nat]

-----------------------------------------------------------------------------
Largest(S) == CHOOSE x \in S : \A y \in S : y <= x
LatestSequence == IF log = {} THEN 0 ELSE Largest(log)
Since(n) == {e \in log : e > n}
LatestSnapshots == {s \in snaps : \A t \in snaps : t.seq <= s.seq}

\* Steps 3 to 6 of load_valid_snapshot: hash, then the two versions
Usable(p, s) == KeepsHash /\ s.release = Release[p]

-----------------------------------------------------------------------------
Init ==
    /\ log = {}
    /\ counter = 0
    /\ snaps = {}
    /\ pc = [p \in Procs |-> "idle"]
    /\ found = [p \in Procs |-> FALSE]
    /\ payload = [p \in Procs |-> NoSnapshot]
    /\ head = [p \in Procs |-> [mode |-> "none", proj |-> {}, items |-> {}]]
    /\ seen = [p \in Procs |-> {}]
    /\ items = [p \in Procs |-> {}]
    /\ current = [p \in Procs |-> 0]

Goto(p, phase) == pc' = [pc EXCEPT ![p] = phase]

\* append_event, a committed transaction of EventLedger
AppendEvent(p) ==
    /\ pc[p] = "idle"
    /\ counter < MaxSequence
    /\ counter' = counter + 1
    /\ log' = log \cup {counter + 1}
    /\ UNCHANGED <<snaps, pc, found, payload, head, seen, items, current>>

\* another project draws a number: sequences have gaps within a project
AppendElsewhere ==
    /\ counter < MaxSequence
    /\ counter' = counter + 1
    /\ UNCHANGED <<log, snaps, pc, found, payload, head, seen, items, current>>

\* load_valid_snapshot up to the version checks
LoadSnapshot(p) ==
    /\ pc[p] = "idle"
    /\ \/ /\ snaps = {}
          /\ payload' = [payload EXCEPT ![p] = NoSnapshot]
          /\ found' = [found EXCEPT ![p] = FALSE]
          /\ Goto(p, "loaded")
       \/ \E s \in LatestSnapshots :
             /\ payload' = [payload EXCEPT ![p] = IF Usable(p, s) THEN s ELSE NoSnapshot]
             /\ found' = [found EXCEPT ![p] = s.release = Release[p]]
             /\ Goto(p, IF Usable(p, s) THEN "checking" ELSE "loaded")
    /\ UNCHANGED <<storeVars, head, seen, items, current>>

\* Mutant: >= for >
CheckFuture_RejectsCurrent(p) ==
    /\ pc[p] = "checking"
    /\ payload' = [payload EXCEPT ![p] = IF @.seq >= LatestSequence THEN NoSnapshot ELSE @]
    /\ Goto(p, "loaded")
    /\ UNCHANGED <<storeVars, found, head, seen, items, current>>

\* step 7: a snapshot from the future is not used
CheckFuture(p) ==
    /\ pc[p] = "checking"
    /\ payload' = [payload EXCEPT ![p] = IF @.seq > LatestSequence THEN NoSnapshot ELSE @]
    /\ Goto(p, "loaded")
    /\ UNCHANGED <<storeVars, found, head, seen, items, current>>

\* get_latest_sequence, then the fast path if the snapshot is current
ReadLatest(p) ==
    /\ pc[p] = "loaded"
    /\ IF payload[p] # NoSnapshot /\ payload[p].seq >= LatestSequence
       THEN /\ head' = [head EXCEPT ![p] = [mode |-> "fast_path", proj |-> payload[p].proj,
                                            items |-> payload[p].items]]
            /\ seen' = [seen EXCEPT ![p] = log]
            /\ Goto(p, "built")
       ELSE Goto(p, "replay") /\ UNCHANGED <<head, seen>>
    /\ UNCHANGED <<storeVars, found, payload, items, current>>

\* get_project_stream(since_sequence=snapshot_sequence), reduced from the payload
ReplayDelta(p) ==
    /\ pc[p] = "replay"
    /\ payload[p] # NoSnapshot /\ payload[p].seq > 0
    /\ LET delta == Since(payload[p].seq)
       IN  head' = [head EXCEPT ![p] = [mode |-> "delta",
                                        proj |-> payload[p].proj \cup delta,
                                        items |-> payload[p].items \cup delta]]
    /\ seen' = [seen EXCEPT ![p] = log]
    /\ Goto(p, "built")
    /\ UNCHANGED <<storeVars, found, payload, items, current>>

NoBase(p) == payload[p] # NoSnapshot => payload[p].seq = 0

\* the whole stream, which must contain the bootstrap events
ReplayFull(p) ==
    /\ pc[p] = "replay"
    /\ NoBase(p)
    /\ Cardinality(log) >= Bootstrap
    /\ head' = [head EXCEPT ![p] = [mode |-> "full", proj |-> log, items |-> log]]
    /\ seen' = [seen EXCEPT ![p] = log]
    /\ Goto(p, "built")
    /\ UNCHANGED <<storeVars, found, payload, items, current>>

\* MissingProjectBootstrapError leaves compile_cognitive_head
RefuseFull(p) ==
    /\ pc[p] = "replay"
    /\ NoBase(p)
    /\ Cardinality(log) < Bootstrap
    /\ Goto(p, "idle")
    /\ UNCHANGED <<storeVars, found, payload, head, seen, items, current>>

\* the second pass: events = store.get_project_stream(project_id)
FoldAll(p) ==
    /\ pc[p] = "built"
    /\ items' = [items EXCEPT ![p] = log]
    /\ Goto(p, "folded")
    /\ UNCHANGED <<storeVars, found, payload, head, seen, current>>

\* Mutant: the sequence is the one the engine replayed to
ReadCurrent_FromEngine(p) ==
    /\ pc[p] = "folded"
    /\ current' = [current EXCEPT ![p] = IF seen[p] = {} THEN 0 ELSE Largest(seen[p])]
    /\ Goto(p, "policy")
    /\ UNCHANGED <<storeVars, found, payload, head, seen, items>>

\* current_seq = store.get_latest_sequence(project_id)
ReadCurrent(p) ==
    /\ pc[p] = "folded"
    /\ current' = [current EXCEPT ![p] = LatestSequence]
    /\ Goto(p, "policy")
    /\ UNCHANGED <<storeVars, found, payload, head, seen, items>>

\* refresh_snapshot: get_latest_snapshot_sequence and should_snapshot
EvaluatePolicy(p) ==
    /\ pc[p] = "policy"
    /\ Goto(p, IF \A s \in snaps : current[p] - s.seq >= Threshold THEN "save" ELSE "idle")
    /\ UNCHANGED <<storeVars, found, payload, head, seen, items, current>>

\* save_snapshot inserts a new row whatever rows there are
SaveSnapshot(p) ==
    /\ pc[p] = "save"
    /\ snaps' = snaps \cup {[seq |-> current[p], proj |-> head[p].proj, items |-> items[p],
                             release |-> Release[p], by |-> p]}
    /\ Goto(p, "idle")
    /\ UNCHANGED <<log, counter, found, payload, head, seen, items, current>>

\* an exception in refresh_snapshot is swallowed; a process may die anywhere
Abandon(p) ==
    /\ pc[p] # "idle"
    /\ Goto(p, "idle")
    /\ UNCHANGED <<storeVars, found, payload, head, seen, items, current>>

\* delete_snapshots_before(sequence), for any latest sequence someone has read
DeleteSnapshotsBefore ==
    /\ \E n \in log : snaps' = {s \in snaps : s.seq >= n}
    /\ UNCHANGED <<log, counter, pc, found, payload, head, seen, items, current>>

CompileStep(p) ==
    \/ CheckFuture(p) \/ ReadLatest(p) \/ ReplayDelta(p) \/ ReplayFull(p) \/ RefuseFull(p)
    \/ FoldAll(p) \/ ReadCurrent(p) \/ EvaluatePolicy(p) \/ SaveSnapshot(p)

Next ==
    \/ \E p \in Procs : AppendEvent(p) \/ LoadSnapshot(p) \/ CompileStep(p) \/ Abandon(p)
    \/ AppendElsewhere
    \/ DeleteSnapshotsBefore

Spec == Init /\ [][Next]_vars

-----------------------------------------------------------------------------
(* Properties *)

TypeOK ==
    /\ log \subseteq Nat
    /\ counter \in Nat
    /\ snaps \subseteq Snapshot
    /\ pc \in [Procs -> Phases]
    /\ found \in [Procs -> BOOLEAN]
    /\ payload \in [Procs -> Snapshot \cup {NoSnapshot}]
    /\ head \in [Procs -> HeadRecord]
    /\ seen \in [Procs -> SUBSET Nat]
    /\ items \in [Procs -> SUBSET Nat]
    /\ current \in [Procs -> Nat]

HasHead(p) == pc[p] \in {"built", "folded", "policy", "save"}

\* A snapshot never holds an event above its own sequence and never claims a
\* sequence the log has not reached: delta replay from it folds no event twice,
\* whatever was appended while it was being made.
NothingTwice ==
    \A s \in snaps :
        /\ s.seq <= LatestSequence
        /\ \A e \in s.proj \cup s.items : e \in log /\ e <= s.seq

\* compile_cognitive_head returns what a full replay at the deciding read would
\* have returned (README.md, "Snapshot Replay Invariant").
HeadIsFullReplay ==
    \A p \in Procs : HasHead(p) => head[p].proj = seen[p] /\ head[p].items = seen[p]

\* Even then a head is made of committed events only: what a race can do is to
\* leave events out.
HeadInventsNothing ==
    \A p \in Procs : HasHead(p) => head[p].proj \cup head[p].items \subseteq seen[p]

\* Of two processes that compile, save and append at once, no event is reduced
\* twice and none is invented (compiler.py:219, snapshot.py, replay_engine.py).
RacesOnlyOmit == NothingTwice /\ HeadInventsNothing

\* README.md, "after first snapshot, only new events are replayed": a full
\* replay means that the latest snapshot was missing or of another release.
OnlyNewEvents ==
    \A p \in Procs : HasHead(p) /\ head[p].mode = "full" => ~found[p]

\* EventCountPolicy: snapshots are at least Threshold events apart.
SnapshotsSpaced ==
    \A s, t \in snaps : s # t => s.seq - t.seq >= Threshold \/ t.seq - s.seq >= Threshold

\* ADR-026, "UNIQUE constraint prevents duplicates; last writer wins".
NoDuplicateSnapshot == \A s, t \in snaps : s.seq = t.seq => s = t

=============================================================================
