----------------------- MODULE SnapshotReplayProofs ------------------------
(***************************************************************************)
(* Proofs about SnapshotReplay, for any number of processes and events.    *)
(***************************************************************************)
EXTENDS SnapshotReplay, FiniteSetTheorems, TLAPS

-----------------------------------------------------------------------------
(* The inductive invariant *)

\* Numbers are drawn upwards from 1, and a non-empty log has a last event.
LogShape ==
    /\ \A e \in log : 1 <= e /\ e <= counter
    /\ log # {} => \E m \in log : \A e \in log : e <= m

\* s holds committed events up to its sequence, which the log has reached.
Sound(s) ==
    /\ s.seq <= LatestSequence
    /\ \A e \in s.proj \cup s.items : e \in log /\ e <= s.seq

PayloadSound == \A p \in Procs : payload[p] # NoSnapshot => Sound(payload[p])

\* A process in "checking" has a candidate.
CheckingHas == \A p \in Procs : pc[p] = "checking" => payload[p] # NoSnapshot

\* A head holds events its process has seen, which are in the log.
HeadSound ==
    \A p \in Procs : HasHead(p) =>
        /\ head[p].proj \cup head[p].items \subseteq seen[p]
        /\ seen[p] \subseteq log

\* What will be saved lies in the log, and below the sequence read for it.
FoldSound ==
    \A p \in Procs :
        /\ pc[p] \in {"folded", "policy", "save"} => items[p] \subseteq log
        /\ pc[p] \in {"policy", "save"} =>
              /\ current[p] <= LatestSequence
              /\ \A e \in items[p] \cup seen[p] : e <= current[p]

\* The inductive invariant
ReplayInv ==
    /\ TypeOK
    /\ LogShape
    /\ NothingTwice
    /\ PayloadSound
    /\ CheckingHas
    /\ HeadSound
    /\ FoldSound

-----------------------------------------------------------------------------
(* get_latest_sequence *)

\* An element of a set of numbers that no other exceeds is its Largest.
LEMMA LargestIs ==
    ASSUME NEW S \in SUBSET Int, NEW m \in S, \A y \in S : y <= m
    PROVE  Largest(S) = m
<1>1. \A x \in S : (\A y \in S : y <= x) => x = m
    OBVIOUS
<1> QED BY <1>1 DEF Largest

\* The latest sequence bounds the log and is bounded by the numbers drawn.
LEMMA LatestBounds ==
    ASSUME TypeOK, LogShape
    PROVE  /\ LatestSequence \in Nat
           /\ LatestSequence <= counter
           /\ \A e \in log : e <= LatestSequence
<1> USE DEF TypeOK
<1>1. CASE log = {}
    BY <1>1 DEF LatestSequence
<1>2. CASE log # {}
    <2>1. PICK m \in log : \A e \in log : e <= m
        BY <1>2 DEF LogShape
    <2>2. Largest(log) = m
        BY <2>1, LargestIs
    <2> QED BY <1>2, <2>1, <2>2 DEF LatestSequence, LogShape
<1> QED BY <1>1, <1>2

\* An append moves the latest sequence to the number it drew.
LEMMA AppendMovesLatest ==
    ASSUME TypeOK, LogShape, NEW p \in Procs, AppendEvent(p)
    PROVE  LogShape' /\ LatestSequence' = counter + 1
<1> USE DEF TypeOK, AppendEvent
<1>1. log' \in SUBSET Int /\ counter + 1 \in log' /\ \A y \in log' : y <= counter + 1
    BY DEF LogShape
<1>2. Largest(log') = counter + 1
    BY <1>1, LargestIs
<1>3. LogShape'
    BY <1>1 DEF LogShape
<1> QED BY <1>1, <1>2, <1>3 DEF LatestSequence

-----------------------------------------------------------------------------
\* The empty ledger satisfies the invariant.
LEMMA InitReplayInv == Init => ReplayInv
<1> SUFFICES ASSUME Init PROVE ReplayInv
    OBVIOUS
<1> USE DEF Init
<1>1. TypeOK
    BY ReplayAssumption DEF TypeOK, Phases, HeadRecord
<1> QED BY <1>1 DEF ReplayInv, LogShape, NothingTwice, PayloadSound, CheckingHas, HeadSound,
        FoldSound, HasHead

\* Soundness of a snapshot is about the log alone.
LEMMA SoundStable ==
    ASSUME log' = log
    PROVE  /\ LatestSequence' = LatestSequence
           /\ \A s : Sound(s) => Sound(s)'
BY DEF LatestSequence, Sound

\* An event of any process keeps the invariant: it is beyond every label.
LEMMA AppendPreserves ==
    ASSUME ReplayInv, NEW p \in Procs, AppendEvent(p)
    PROVE  ReplayInv'
<1> USE DEF ReplayInv
<1>1. LogShape' /\ LatestSequence' = counter + 1
    BY AppendMovesLatest
<1>2. LatestSequence \in Nat /\ LatestSequence <= counter /\ counter \in Nat
    BY LatestBounds DEF TypeOK
<1> USE DEF AppendEvent
<1>3. TypeOK'
    BY <1>2 DEF TypeOK
<1>4. ASSUME NEW s \in Snapshot, Sound(s)
      PROVE  Sound(s)'
    BY <1>1, <1>2, <1>4 DEF Sound, Snapshot
<1>5. NothingTwice'
    BY <1>4 DEF NothingTwice, Sound, TypeOK
<1>6. PayloadSound'
    BY <1>4 DEF PayloadSound, TypeOK
<1>7. CheckingHas' /\ HeadSound'
    BY DEF CheckingHas, HeadSound, HasHead
<1>8. FoldSound'
    BY <1>1, <1>2 DEF FoldSound, TypeOK
<1> QED BY <1>1, <1>3, <1>5, <1>6, <1>7, <1>8

\* Events of other projects and the deletion of old snapshots keep the invariant.
LEMMA StorePreserves ==
    ASSUME ReplayInv, AppendElsewhere \/ DeleteSnapshotsBefore
    PROVE  ReplayInv'
<1> USE DEF ReplayInv, AppendElsewhere, DeleteSnapshotsBefore
<1>1. log' = log /\ snaps' \subseteq snaps /\ counter <= counter' /\ counter' \in Nat
    BY DEF TypeOK
<1>2. LatestSequence' = LatestSequence
    BY <1>1, SoundStable
<1>3. TypeOK'
    BY <1>1 DEF TypeOK
<1>4. LogShape'
    BY <1>1 DEF LogShape, TypeOK
<1>5. NothingTwice'
    BY <1>1, <1>2 DEF NothingTwice
<1>6. PayloadSound'
    BY <1>1, <1>2 DEF PayloadSound, Sound
<1>7. CheckingHas' /\ HeadSound' /\ FoldSound'
    BY <1>1, <1>2 DEF CheckingHas, HeadSound, HasHead, FoldSound
<1> QED BY <1>3, <1>4, <1>5, <1>6, <1>7

\* Reading a snapshot's row keeps the invariant.
LEMMA LoadPreserves ==
    ASSUME ReplayInv, NEW p \in Procs, LoadSnapshot(p)
    PROVE  ReplayInv'
<1> USE DEF ReplayInv, LoadSnapshot, Goto, storeVars
<1>1. log' = log /\ snaps' = snaps /\ counter' = counter
    OBVIOUS
<1>2. LatestSequence' = LatestSequence
    BY <1>1, SoundStable
<1>3. payload'[p] # NoSnapshot => payload'[p] \in snaps
    BY DEF LatestSnapshots, TypeOK
<1>4. TypeOK'
    BY <1>1, <1>3 DEF TypeOK, Phases, LatestSnapshots
<1>5. LogShape' /\ NothingTwice'
    BY <1>1, <1>2 DEF LogShape, NothingTwice
<1>6. PayloadSound'
    BY <1>1, <1>2, <1>3 DEF PayloadSound, Sound, NothingTwice, TypeOK
<1>7. CheckingHas'
    BY ReplayAssumption DEF CheckingHas, TypeOK, LatestSnapshots
<1>8. HeadSound' /\ FoldSound'
    BY <1>1, <1>2 DEF HeadSound, HasHead, FoldSound, TypeOK
<1> QED BY <1>4, <1>5, <1>6, <1>7, <1>8

\* The reads that decide the head
LEMMA BuildPreserves ==
    ASSUME ReplayInv, NEW p \in Procs,
           \/ CheckFuture(p) \/ ReadLatest(p) \/ ReplayDelta(p)
           \/ ReplayFull(p) \/ RefuseFull(p) \/ Abandon(p)
    PROVE  ReplayInv'
<1> USE DEF ReplayInv, Goto, storeVars
<1>1. /\ log' = log /\ snaps' = snaps /\ counter' = counter
      /\ items' = items /\ current' = current
      /\ pc'[p] \in {"idle", "loaded", "replay", "built"}
      /\ \A q \in Procs : q # p => pc'[q] = pc[q] /\ payload'[q] = payload[q]
                                   /\ head'[q] = head[q] /\ seen'[q] = seen[q]
    BY DEF CheckFuture, ReadLatest, ReplayDelta, ReplayFull, RefuseFull, Abandon, TypeOK
<1>2. LatestSequence' = LatestSequence
    BY <1>1, SoundStable
<1>3. payload'[p] \in {payload[p], NoSnapshot}
    BY DEF CheckFuture, ReadLatest, ReplayDelta, ReplayFull, RefuseFull, Abandon, TypeOK
<1>4. TypeOK'
    <2>1. CASE CheckFuture(p)
        BY <2>1 DEF CheckFuture, TypeOK, Phases
    <2>2. CASE ReadLatest(p)
        <3>1. payload[p] # NoSnapshot =>
                [mode |-> "fast_path", proj |-> payload[p].proj, items |-> payload[p].items] \in HeadRecord
            BY DEF TypeOK, HeadRecord, Snapshot
        <3>2. /\ log' = log /\ counter' = counter /\ snaps' = snaps /\ found' = found
              /\ payload' = payload /\ items' = items /\ current' = current
            BY <2>2 DEF ReadLatest
        <3>3. pc' \in [Procs -> Phases] /\ seen' \in [Procs -> SUBSET Nat]
            BY <2>2 DEF ReadLatest, TypeOK, Phases
        <3>4. head' \in [Procs -> HeadRecord]
            BY <2>2, <3>1 DEF ReadLatest, TypeOK
        <3> QED BY <3>2, <3>3, <3>4 DEF TypeOK
    <2>3. CASE ReplayDelta(p)
        <3>1. payload[p] # NoSnapshot =>
                [mode |-> "delta", proj |-> payload[p].proj \cup Since(payload[p].seq),
                 items |-> payload[p].items \cup Since(payload[p].seq)] \in HeadRecord
            BY DEF TypeOK, HeadRecord, Snapshot, Since
        <3> QED BY <2>3, <3>1 DEF ReplayDelta, TypeOK, Phases
    <2>4. CASE ReplayFull(p)
        BY <2>4 DEF ReplayFull, TypeOK, Phases, HeadRecord
    <2>5. CASE RefuseFull(p) \/ Abandon(p)
        BY <2>5 DEF RefuseFull, Abandon, TypeOK, Phases
    <2> QED BY <2>1, <2>2, <2>3, <2>4, <2>5
<1>5. LogShape' /\ NothingTwice'
    BY <1>1, <1>2 DEF LogShape, NothingTwice
<1>6. PayloadSound'
    BY <1>1, <1>2, <1>3 DEF PayloadSound, Sound
<1>7. CheckingHas'
    BY <1>1 DEF CheckingHas
<1>8. HeadSound'
    <2>1. HasHead(p)' => /\ head'[p].proj \cup head'[p].items \subseteq seen'[p]
                         /\ seen'[p] \subseteq log
        <3>1. CASE CheckFuture(p) \/ RefuseFull(p) \/ Abandon(p)
            BY <3>1 DEF CheckFuture, RefuseFull, Abandon, HasHead, TypeOK
        <3>2. CASE ReadLatest(p)
            BY <3>2 DEF ReadLatest, HasHead, TypeOK, PayloadSound, Sound
        <3>3. CASE ReplayDelta(p)
            BY <3>3 DEF ReplayDelta, HasHead, TypeOK, PayloadSound, Sound, Since
        <3>4. CASE ReplayFull(p)
            BY <3>4 DEF ReplayFull, HasHead, TypeOK
        <3> QED BY <3>1, <3>2, <3>3, <3>4
    <2> QED BY <1>1, <2>1 DEF HeadSound, HasHead
<1>9. FoldSound'
    BY <1>1, <1>2 DEF FoldSound
<1> QED BY <1>4, <1>5, <1>6, <1>7, <1>8, <1>9

\* The reads that make the next snapshot, and its policy
LEMMA RefreshPreserves ==
    ASSUME ReplayInv, NEW p \in Procs,
           FoldAll(p) \/ ReadCurrent(p) \/ EvaluatePolicy(p)
    PROVE  ReplayInv'
<1> USE DEF ReplayInv, Goto, storeVars, FoldAll, ReadCurrent, EvaluatePolicy
<1>1. /\ log' = log /\ snaps' = snaps /\ counter' = counter /\ payload' = payload
      /\ head' = head /\ seen' = seen
      /\ \A q \in Procs : q # p => pc'[q] = pc[q] /\ items'[q] = items[q]
                                   /\ current'[q] = current[q]
    BY DEF TypeOK
<1>2. LatestSequence' = LatestSequence
    BY <1>1, SoundStable
<1>3. LatestSequence \in Nat /\ \A e \in log : e <= LatestSequence
    BY LatestBounds
<1>4. TypeOK'
    <2>1. CASE FoldAll(p)
        BY <1>1, <2>1 DEF TypeOK, Phases
    <2>2. CASE ReadCurrent(p)
        BY <1>1, <1>3, <2>2 DEF TypeOK, Phases
    <2>3. CASE EvaluatePolicy(p)
        BY <1>1, <2>3 DEF TypeOK, Phases
    <2> QED BY <2>1, <2>2, <2>3
<1>5. LogShape' /\ NothingTwice' /\ PayloadSound'
    BY <1>1, <1>2 DEF LogShape, NothingTwice, PayloadSound, Sound
<1>6. CheckingHas' /\ HeadSound'
    BY <1>1 DEF CheckingHas, HeadSound, HasHead, TypeOK
<1>7. FoldSound'
    <2>1. /\ pc'[p] \in {"folded", "policy", "save"} => items'[p] \subseteq log
          /\ pc'[p] \in {"policy", "save"} =>
                /\ current'[p] <= LatestSequence
                /\ \A e \in items'[p] \cup seen[p] : e <= current'[p]
        BY <1>3 DEF FoldSound, HeadSound, HasHead, TypeOK
    <2> QED BY <1>1, <1>2, <2>1 DEF FoldSound
<1> QED BY <1>4, <1>5, <1>6, <1>7

\* Saving a snapshot keeps the invariant.
LEMMA SavePreserves ==
    ASSUME ReplayInv, NEW p \in Procs, SaveSnapshot(p)
    PROVE  ReplayInv'
<1> DEFINE new == [seq |-> current[p], proj |-> head[p].proj, items |-> items[p],
                   release |-> Release[p], by |-> p]
<1> USE DEF ReplayInv, Goto, SaveSnapshot
<1>1. log' = log /\ counter' = counter /\ payload' = payload /\ snaps' = snaps \cup {new}
    OBVIOUS
<1>2. LatestSequence' = LatestSequence
    BY <1>1, SoundStable
<1>3. new \in Snapshot
    BY DEF TypeOK, HeadRecord, Snapshot, Releases
<1>4. TypeOK'
    BY <1>3 DEF TypeOK, Phases
<1>5. Sound(new)
    BY DEF Sound, FoldSound, HeadSound, HasHead
<1>6. NothingTwice'
    BY <1>1, <1>2, <1>5 DEF NothingTwice, Sound
<1>7. LogShape' /\ PayloadSound'
    BY <1>1, <1>2 DEF LogShape, PayloadSound, Sound
<1>8. CheckingHas' /\ HeadSound' /\ FoldSound'
    BY <1>1, <1>2 DEF CheckingHas, HeadSound, HasHead, FoldSound, TypeOK
<1> QED BY <1>4, <1>6, <1>7, <1>8

\* ReplayInv is inductive under every interleaving of compiles and appends.
THEOREM ReplayInvariant == Spec => []ReplayInv
<1>1. Init => ReplayInv
    BY InitReplayInv
<1>2. ReplayInv /\ [Next]_vars => ReplayInv'
    <2> SUFFICES ASSUME ReplayInv, [Next]_vars PROVE ReplayInv'
        OBVIOUS
    <2>1. ASSUME NEW p \in Procs, AppendEvent(p) PROVE ReplayInv'
        BY <2>1, AppendPreserves
    <2>2. ASSUME NEW p \in Procs, LoadSnapshot(p) PROVE ReplayInv'
        BY <2>2, LoadPreserves
    <2>3. ASSUME NEW p \in Procs, CompileStep(p) PROVE ReplayInv'
        BY <2>3, BuildPreserves, RefreshPreserves, SavePreserves DEF CompileStep
    <2>4. ASSUME NEW p \in Procs, Abandon(p) PROVE ReplayInv'
        BY <2>4, BuildPreserves
    <2>5. CASE AppendElsewhere \/ DeleteSnapshotsBefore
        BY <2>5, StorePreserves
    <2>6. CASE UNCHANGED vars
        <3>1. LatestSequence' = LatestSequence
            BY <2>6, SoundStable DEF vars
        <3> QED BY <2>6, <3>1 DEF vars, ReplayInv, TypeOK, LogShape, NothingTwice, PayloadSound,
                Sound, CheckingHas, HeadSound, HasHead, FoldSound
    <2> QED BY <2>1, <2>2, <2>3, <2>4, <2>5, <2>6 DEF Next
<1> QED BY <1>1, <1>2, PTL DEF Spec

-----------------------------------------------------------------------------
(* What holds for every store and any number of processes *)

\* Type correctness of concurrent compiles.
THEOREM TypeCorrect == Spec => []TypeOK
BY ReplayInvariant, PTL DEF ReplayInv

\* No snapshot, however the reads behind it interleave with appends, makes a
\* delta replay fold an event twice, and a compiled head contains committed
\* events only.
THEOREM RacesOnlyOmitHolds == Spec => []RacesOnlyOmit
<1>1. ReplayInv => RacesOnlyOmit
    BY DEF ReplayInv, HeadSound, HeadInventsNothing, RacesOnlyOmit
<1> QED BY <1>1, ReplayInvariant, PTL

-----------------------------------------------------------------------------
(* The shipped stores: save_snapshot drops the hash, nothing is ever usable *)

\* No process ever has a payload, and every head is the log its replay read.
AlwaysFull ==
    \A p \in Procs :
        /\ payload[p] = NoSnapshot
        /\ HasHead(p) => head[p].proj = seen[p] /\ head[p].items = seen[p]

\* Without the hash every step keeps every head a full replay.
LEMMA AlwaysFullStep ==
    ASSUME ReplayInv, ~KeepsHash, AlwaysFull, [Next]_vars
    PROVE  AlwaysFull'
<1> USE DEF ReplayInv, TypeOK, AlwaysFull, HasHead, Goto, storeVars
<1>1. ASSUME NEW p \in Procs, AppendEvent(p) PROVE AlwaysFull'
    BY <1>1 DEF AppendEvent
<1>2. ASSUME NEW p \in Procs, LoadSnapshot(p) PROVE AlwaysFull'
    BY <1>2 DEF LoadSnapshot, Usable
<1>3. ASSUME NEW p \in Procs, CompileStep(p) PROVE AlwaysFull'
    <2>1. CASE CheckFuture(p)
        BY <2>1 DEF CheckFuture, CheckingHas
    <2>2. CASE ReadLatest(p)
        BY <2>2 DEF ReadLatest
    <2>3. CASE ReplayDelta(p)
        BY <2>3 DEF ReplayDelta
    <2>4. CASE ReplayFull(p)
        BY <2>4 DEF ReplayFull
    <2>5. CASE RefuseFull(p)
        BY <2>5 DEF RefuseFull
    <2>6. CASE FoldAll(p) \/ ReadCurrent(p) \/ EvaluatePolicy(p) \/ SaveSnapshot(p)
        BY <2>6 DEF FoldAll, ReadCurrent, EvaluatePolicy, SaveSnapshot
    <2> QED BY <1>3, <2>1, <2>2, <2>3, <2>4, <2>5, <2>6 DEF CompileStep
<1>4. ASSUME NEW p \in Procs, Abandon(p) PROVE AlwaysFull'
    BY <1>4 DEF Abandon
<1>5. CASE AppendElsewhere \/ DeleteSnapshotsBefore
    BY <1>5 DEF AppendElsewhere, DeleteSnapshotsBefore
<1>6. CASE UNCHANGED vars
    BY <1>6 DEF vars
<1> QED BY <1>1, <1>2, <1>3, <1>4, <1>5, <1>6 DEF Next

\* With a store that does not return the hash (SQLiteEventStore and
\* PostgresEventStore), compile_cognitive_head is right under any concurrency.
THEOREM ShippedStoresReplayFully ==
    ASSUME ~KeepsHash
    PROVE  Spec => []HeadIsFullReplay
<1>1. Init => AlwaysFull
    BY DEF Init, AlwaysFull, HasHead
<1>2. ReplayInv /\ AlwaysFull /\ [Next]_vars => AlwaysFull'
    BY AlwaysFullStep
<1>3. AlwaysFull => HeadIsFullReplay
    BY DEF AlwaysFull, HeadIsFullReplay
<1> QED BY <1>1, <1>2, <1>3, ReplayInvariant, PTL DEF Spec

-----------------------------------------------------------------------------
(* One process: no append falls between the reads of a compile *)

UpTo(n) == {e \in log : e <= n}

\* Snapshots are exact, and so is everything a compile under way has read.
Exact ==
    /\ \A s \in snaps : s.proj = UpTo(s.seq) /\ s.items = UpTo(s.seq)
    /\ \A p \in Procs :
          /\ payload[p] # NoSnapshot =>
                payload[p].proj = UpTo(payload[p].seq) /\ payload[p].items = UpTo(payload[p].seq)
          /\ HasHead(p) => head[p].proj = seen[p] /\ head[p].items = seen[p] /\ seen[p] = log
          /\ pc[p] \in {"folded", "policy", "save"} => items[p] = log
          /\ pc[p] \in {"policy", "save"} => current[p] = LatestSequence

\* With one process every step keeps every head exact.
LEMMA ExactStep ==
    ASSUME ReplayInv, Exact, NEW p \in Procs, Procs = {p}, [Next]_vars
    PROVE  Exact'
<1> USE DEF ReplayInv, TypeOK, Goto, storeVars
<1>0. LatestSequence \in Nat /\ LatestSequence <= counter /\ \A e \in log : e <= LatestSequence
    BY LatestBounds
<1>a. payload[p] # NoSnapshot => payload[p] \in Snapshot /\ payload[p].seq \in Nat
    BY DEF Snapshot
<1>1. CASE AppendEvent(p)
    <2>1. ASSUME NEW s \in Snapshot, Sound(s) PROVE UpTo(s.seq)' = UpTo(s.seq)
        BY <1>0, <1>1, <2>1 DEF AppendEvent, UpTo, Sound, Snapshot
    <2>2. \A s \in snaps : UpTo(s.seq)' = UpTo(s.seq)
        BY <2>1 DEF NothingTwice, Sound
    <2>3. payload[p] # NoSnapshot => UpTo(payload[p].seq)' = UpTo(payload[p].seq)
        <3> SUFFICES ASSUME payload[p] # NoSnapshot
                     PROVE  UpTo(payload[p].seq)' = UpTo(payload[p].seq)
            OBVIOUS
        <3>1. payload[p] \in Snapshot /\ Sound(payload[p])
            BY <1>a DEF PayloadSound
        <3> QED BY <1>0, <1>1, <1>a, <3>1 DEF AppendEvent, UpTo, Sound
    <2> QED BY <1>1, <2>2, <2>3 DEF AppendEvent, Exact, HasHead
<1>2. ASSUME log' = log PROVE LatestSequence' = LatestSequence /\ \A n : UpTo(n)' = UpTo(n)
    BY <1>2 DEF LatestSequence, UpTo
<1>3. CASE LoadSnapshot(p)
    BY <1>2, <1>3 DEF LoadSnapshot, Exact, HasHead, LatestSnapshots
<1>4. CASE CheckFuture(p) \/ RefuseFull(p) \/ Abandon(p)
    BY <1>2, <1>4 DEF CheckFuture, RefuseFull, Abandon, Exact, HasHead
<1>5. CASE ReadLatest(p)
    <2>1. ASSUME payload[p] # NoSnapshot, payload[p].seq >= LatestSequence
          PROVE  UpTo(payload[p].seq) = log
        <3>1. \A e \in log : e \in Nat /\ e <= payload[p].seq
            BY <1>0, <1>a, <2>1
        <3> QED BY <3>1 DEF UpTo
    <2> QED BY <1>2, <1>5, <2>1 DEF ReadLatest, Exact, HasHead
<1>6. CASE ReplayDelta(p)
    <2>1. ASSUME payload[p] # NoSnapshot
          PROVE  UpTo(payload[p].seq) \cup Since(payload[p].seq) = log
        <3>1. \A e \in log : e <= payload[p].seq \/ e > payload[p].seq
            BY <1>a, <2>1
        <3> QED BY <3>1 DEF UpTo, Since
    <2> QED BY <1>2, <1>6, <2>1 DEF ReplayDelta, Exact, HasHead
<1>7. CASE ReplayFull(p)
    BY <1>2, <1>7 DEF ReplayFull, Exact, HasHead
<1>8. CASE FoldAll(p) \/ ReadCurrent(p) \/ EvaluatePolicy(p)
    BY <1>2, <1>8 DEF FoldAll, ReadCurrent, EvaluatePolicy, Exact, HasHead
<1>9. CASE SaveSnapshot(p)
    <2>1. UpTo(LatestSequence) = log
        BY <1>0 DEF UpTo
    <2> QED BY <1>2, <1>9, <2>1 DEF SaveSnapshot, Exact, HasHead
<1>10. CASE AppendElsewhere \/ DeleteSnapshotsBefore
    BY <1>2, <1>10 DEF AppendElsewhere, DeleteSnapshotsBefore, Exact, HasHead
<1>11. CASE UNCHANGED vars
    BY <1>2, <1>11 DEF vars, Exact, HasHead
<1> QED BY <1>1, <1>3, <1>4, <1>5, <1>6, <1>7, <1>8, <1>9, <1>10, <1>11 DEF Next, CompileStep

\* With a store that keeps the hash, a single process gets the full-replay head
\* from every strategy, across crashes, failed saves and deleted snapshots.
THEOREM SingleProcessIsExact ==
    ASSUME NEW p \in Procs, Procs = {p}
    PROVE  Spec => []HeadIsFullReplay
<1>1. Init => Exact
    BY DEF Init, Exact, HasHead
<1>2. ReplayInv /\ Exact /\ [Next]_vars => Exact'
    BY ExactStep
<1>3. Exact => HeadIsFullReplay
    BY DEF Exact, HeadIsFullReplay
<1> QED BY <1>1, <1>2, <1>3, ReplayInvariant, PTL DEF Spec

-----------------------------------------------------------------------------
(* A snapshot that is there is used *)

\* There is no head and no snapshot of an empty log, so a snapshot of the
\* process's own release is still in its hands when a strategy is chosen.
Used ==
    /\ \A s \in snaps : s.seq > 0
    /\ \A p \in Procs :
          /\ payload[p] # NoSnapshot => payload[p].seq > 0
          /\ pc[p] \in {"checking", "loaded", "replay"} /\ found[p] => payload[p] # NoSnapshot
          /\ HasHead(p) => LatestSequence > 0
          /\ pc[p] \in {"policy", "save"} => current[p] > 0
          /\ HasHead(p) /\ head[p].mode = "full" => ~found[p]

\* An event, or a snapshot with a positive sequence, means that the log has begun.
LEMMA LogHasBegun ==
    ASSUME TypeOK, LogShape
    PROVE  /\ log # {} => LatestSequence > 0
           /\ Cardinality(log) >= Bootstrap => LatestSequence > 0
<1>1. ASSUME log # {} PROVE LatestSequence > 0
    <2>1. PICK e \in log : 1 <= e
        BY <1>1 DEF LogShape
    <2> QED BY <2>1, LatestBounds DEF TypeOK
<1>2. Cardinality(log) >= Bootstrap => log # {}
    BY FS_EmptySet, ReplayAssumption
<1> QED BY <1>1, <1>2

\* Every step of any process keeps it so, where the stores keep the hash.
LEMMA UsedStep ==
    ASSUME ReplayInv, Used, KeepsHash, [Next]_vars
    PROVE  Used'
<1> USE DEF ReplayInv, TypeOK, Goto, storeVars
<1>0. LatestSequence \in Nat
    BY LatestBounds
<1>a. ASSUME NEW q \in Procs, payload[q] # NoSnapshot
      PROVE  payload[q] \in Snapshot /\ payload[q].seq \in Nat /\ payload[q].seq <= LatestSequence
    BY <1>a DEF Snapshot, PayloadSound, Sound
<1>2. ASSUME log' = log PROVE LatestSequence' = LatestSequence
    BY <1>2 DEF LatestSequence
<1>3. ASSUME NEW p \in Procs, AppendEvent(p) PROVE Used'
    <2>1. LatestSequence' > 0
        BY <1>3, AppendMovesLatest
    <2> QED BY <1>3, <2>1 DEF AppendEvent, Used, HasHead
<1>4. ASSUME NEW p \in Procs, LoadSnapshot(p) PROVE Used'
    <2>1. LatestSequence' = LatestSequence
        BY <1>2, <1>4 DEF LoadSnapshot
    <2>2. \A s \in LatestSnapshots : s \in Snapshot /\ s # NoSnapshot /\ s.seq > 0
        BY ReplayAssumption DEF LatestSnapshots, Used
    <2>3. /\ snaps' = snaps /\ head' = head /\ current' = current
          /\ \A q \in Procs : q # p => pc'[q] = pc[q] /\ payload'[q] = payload[q] /\ found'[q] = found[q]
        BY <1>4 DEF LoadSnapshot
    <2>4. /\ pc'[p] \in {"checking", "loaded"}
          /\ payload'[p] # NoSnapshot => payload'[p].seq > 0
          /\ found'[p] => payload'[p] # NoSnapshot
        <3>1. CASE snaps = {}
            BY <1>4, <3>1 DEF LoadSnapshot, LatestSnapshots
        <3>2. CASE snaps # {}
            <4>1. PICK s \in LatestSnapshots :
                    /\ payload'[p] = IF Usable(p, s) THEN s ELSE NoSnapshot
                    /\ found'[p] = (s.release = Release[p])
                    /\ pc'[p] = IF Usable(p, s) THEN "checking" ELSE "loaded"
                BY <1>4, <3>2 DEF LoadSnapshot
            <4> QED BY <2>2, <4>1 DEF Usable
        <3> QED BY <3>1, <3>2
    <2> QED BY <2>1, <2>3, <2>4 DEF Used, HasHead
<1>5. ASSUME NEW p \in Procs, CheckFuture(p) PROVE Used'
    <2>1. LatestSequence' = LatestSequence
        BY <1>2, <1>5 DEF CheckFuture
    <2>2. payload[p] # NoSnapshot /\ ~(payload[p].seq > LatestSequence)
        BY <1>0, <1>5, <1>a DEF CheckFuture, CheckingHas
    <2>3. payload' = payload
        BY <1>5, <2>2 DEF CheckFuture
    <2> QED BY <1>5, <2>1, <2>3 DEF CheckFuture, Used, HasHead
<1>6. ASSUME NEW p \in Procs, ReadLatest(p) PROVE Used'
    <2>1. LatestSequence' = LatestSequence
        BY <1>2, <1>6 DEF ReadLatest
    <2>2. payload[p] # NoSnapshot => LatestSequence > 0
        BY <1>0, <1>a DEF Used
    <2> QED BY <1>6, <2>1, <2>2 DEF ReadLatest, Used, HasHead
<1>7. ASSUME NEW p \in Procs, ReplayDelta(p) PROVE Used'
    <2>1. LatestSequence' = LatestSequence
        BY <1>2, <1>7 DEF ReplayDelta
    <2>2. payload[p] # NoSnapshot => LatestSequence > 0
        BY <1>0, <1>a DEF Used
    <2> QED BY <1>7, <2>1, <2>2 DEF ReplayDelta, Used, HasHead
<1>8. ASSUME NEW p \in Procs, ReplayFull(p) PROVE Used'
    <2>1. LatestSequence' = LatestSequence /\ LatestSequence > 0
        BY <1>2, <1>8, LogHasBegun DEF ReplayFull
    <2>2. payload[p] = NoSnapshot
        BY <1>8, <1>a DEF ReplayFull, NoBase, Used
    <2>3. ~found[p]
        BY <1>8, <2>2 DEF ReplayFull, Used
    <2> QED BY <1>8, <2>1, <2>3 DEF ReplayFull, Used, HasHead
<1>9. ASSUME NEW p \in Procs, RefuseFull(p) \/ Abandon(p) PROVE Used'
    <2>1. LatestSequence' = LatestSequence
        BY <1>2, <1>9 DEF RefuseFull, Abandon
    <2> QED BY <1>9, <2>1 DEF RefuseFull, Abandon, Used, HasHead
<1>10. ASSUME NEW p \in Procs, FoldAll(p) \/ ReadCurrent(p) \/ EvaluatePolicy(p) PROVE Used'
    <2>1. LatestSequence' = LatestSequence
        BY <1>2, <1>10 DEF FoldAll, ReadCurrent, EvaluatePolicy
    <2> QED BY <1>0, <1>10, <2>1 DEF FoldAll, ReadCurrent, EvaluatePolicy, Used, HasHead
<1>11. ASSUME NEW p \in Procs, SaveSnapshot(p) PROVE Used'
    <2>1. LatestSequence' = LatestSequence
        BY <1>2, <1>11 DEF SaveSnapshot
    <2> QED BY <1>11, <2>1 DEF SaveSnapshot, Used, HasHead
<1>12. CASE AppendElsewhere \/ DeleteSnapshotsBefore
    <2>1. LatestSequence' = LatestSequence
        BY <1>2, <1>12 DEF AppendElsewhere, DeleteSnapshotsBefore
    <2> QED BY <1>12, <2>1 DEF AppendElsewhere, DeleteSnapshotsBefore, Used, HasHead
<1>13. CASE UNCHANGED vars
    BY <1>2, <1>13 DEF vars, Used, HasHead
<1> QED BY <1>3, <1>4, <1>5, <1>6, <1>7, <1>8, <1>9, <1>10, <1>11, <1>12, <1>13 DEF Next, CompileStep

\* With a store that keeps the hash, "after first snapshot, only new events are
\* replayed" (README.md:37), however many processes append, save and delete
\* snapshots meanwhile: a full replay means that the latest snapshot was missing
\* or of another release (snapshot.py, replay_engine.py).
THEOREM SnapshotsAreUsed ==
    ASSUME KeepsHash
    PROVE  Spec => []OnlyNewEvents
<1>1. Init => Used
    BY DEF Init, Used, HasHead
<1>2. ReplayInv /\ Used /\ [Next]_vars => Used'
    BY UsedStep
<1>3. Used => OnlyNewEvents
    BY DEF Used, OnlyNewEvents
<1> QED BY <1>1, <1>2, <1>3, ReplayInvariant, PTL DEF Spec

\* What a single process is promised: README.md, "Snapshot Replay Invariant" and
\* "after first snapshot, only new events are replayed".
SingleIsExact == HeadIsFullReplay /\ OnlyNewEvents

\* One process alone on a store that keeps the hash: every strategy gives the
\* head of a full replay, and a snapshot that is there is used.
THEOREM SingleProcess ==
    ASSUME NEW p \in Procs, Procs = {p}, KeepsHash
    PROVE  Spec => []SingleIsExact
<1>1. HeadIsFullReplay /\ OnlyNewEvents => SingleIsExact
    BY DEF SingleIsExact
<1> QED BY <1>1, SingleProcessIsExact, SnapshotsAreUsed, PTL

=============================================================================
