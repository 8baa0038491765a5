---------------------------- MODULE EventLedger ----------------------------
(***************************************************************************)
(* The append-only event table behind BaseEventStore (db/sqlite_store.py,  *)
(* db/postgres_store.py), written by concurrent processes.  append_event   *)
(* is a transaction: take the write lock, read MAX(version) of the         *)
(* project, insert (which draws the next event_sequence) and commit.       *)
(*                                                                         *)
(* The two backends differ in two constants only.  SQLite: BEGIN IMMEDIATE *)
(* is one lock for the whole file, and AUTOINCREMENT rolls back with the   *)
(* transaction.  PostgreSQL: pg_advisory_xact_lock is keyed by the low 63  *)
(* bits of the project's UUID (two projects may share a key), and a        *)
(* BIGSERIAL number drawn by a rolled back transaction is lost.            *)
(*                                                                         *)
(* A follower is any client of get_project_stream(project, since_sequence) *)
(* that remembers the highest event_sequence it has seen: what delta       *)
(* replay does with a snapshot's sequence.                                 *)
(***************************************************************************)
EXTENDS Integers, FiniteSets

CONSTANTS Projects,       \* project ids
          Writers,        \* processes that call append_event
          LockKeys,       \* what the write lock is keyed by
          LockOf,         \* [Projects -> LockKeys]
          SerialSurvives, \* TRUE: a number drawn from the sequence is never given back
          NoWriter,       \* the holder of a free lock
          MaxSequence     \* bound on event_sequence

ASSUME LedgerAssumption ==
    /\ Projects # {}
    /\ LockOf \in [Projects -> LockKeys]
    /\ SerialSurvives \in BOOLEAN
    /\ ~SerialSurvives => \A p, q \in Projects : LockOf[p] = LockOf[q]
    /\ NoWriter \notin Writers
    /\ MaxSequence \in Nat

VARIABLES
    rows,     \* the committed rows of rationalevault_events
    counter,  \* last event_sequence drawn (sqlite_sequence / BIGSERIAL)
    lock,     \* lock key -> the writer whose open transaction holds it
    pc,       \* writer -> how far its append_event has come
    txn,      \* writer -> the row its append_event is building
    cursor,   \* project -> highest event_sequence its follower has seen
    seen      \* project -> the rows its follower has been given

vars == <<rows, counter, lock, pc, txn, cursor, seen>>
ledgerVars == <<rows, counter, lock, pc, txn>>

Row == [seq : Nat, project : Projects, version : Nat]
EmptyTxn(p) == [seq |-> 0, project |-> p, version |-> 0]

-----------------------------------------------------------------------------
(* Queries *)

RowsOf(p) == {r \in rows : r.project = p}
Versions(p) == {r.version : r \in RowsOf(p)}
Largest(S) == CHOOSE x \in S : \A y \in S : y <= x

\* Mutant: the version is taken from the global sequence
NextVersion_FromSequence(p) == counter + 1

\* SELECT COALESCE(MAX(version), 0) + 1
NextVersion(p) == IF Versions(p) = {} THEN 1 ELSE Largest(Versions(p)) + 1

\* SELECT COALESCE(MAX(event_sequence), 0)
GetLatestSequence(p) == IF RowsOf(p) = {} THEN 0 ELSE Largest({r.seq : r \in RowsOf(p)})

\* get_project_stream: the rows after since_sequence (ORDER BY event_sequence
\* makes the set a list)
GetProjectStream(p, since) == {r \in RowsOf(p) : r.seq > since}

-----------------------------------------------------------------------------
Init ==
    /\ rows = {}
    /\ counter = 0
    /\ lock = [k \in LockKeys |-> NoWriter]
    /\ pc = [w \in Writers |-> "idle"]
    /\ txn = [w \in Writers |-> EmptyTxn(CHOOSE p \in Projects : TRUE)]
    /\ cursor = [p \in Projects |-> 0]
    /\ seen = [p \in Projects |-> {}]

\* Mutant: a plain BEGIN, which does not wait for the other writers
BeginAppend_Deferred(w, p) ==
    /\ pc[w] = "idle"
    /\ txn' = [txn EXCEPT ![w] = EmptyTxn(p)]
    /\ pc' = [pc EXCEPT ![w] = "locked"]
    /\ UNCHANGED <<rows, counter, lock, cursor, seen>>

\* BEGIN IMMEDIATE / pg_advisory_xact_lock: waits until the lock is free
BeginAppend(w, p) ==
    /\ pc[w] = "idle"
    /\ lock[LockOf[p]] = NoWriter
    /\ lock' = [lock EXCEPT ![LockOf[p]] = w]
    /\ txn' = [txn EXCEPT ![w] = EmptyTxn(p)]
    /\ pc' = [pc EXCEPT ![w] = "locked"]
    /\ UNCHANGED <<rows, counter, cursor, seen>>

ReadVersion(w) ==
    /\ pc[w] = "locked"
    /\ txn' = [txn EXCEPT ![w].version = NextVersion(txn[w].project)]
    /\ pc' = [pc EXCEPT ![w] = "versioned"]
    /\ UNCHANGED <<rows, counter, lock, cursor, seen>>

\* Mutant: a session lock that is let go after the INSERT instead of the
\* transaction's lock
InsertRow_EarlyUnlock(w) ==
    /\ pc[w] = "versioned"
    /\ txn[w].version \notin Versions(txn[w].project)
    /\ counter < MaxSequence
    /\ counter' = counter + 1
    /\ txn' = [txn EXCEPT ![w].seq = counter + 1]
    /\ lock' = [lock EXCEPT ![LockOf[txn[w].project]] = NoWriter]
    /\ pc' = [pc EXCEPT ![w] = "inserted"]
    /\ UNCHANGED <<rows, cursor, seen>>

\* INSERT: UNIQUE (project_id, version) must not be violated; the row is not
\* visible to others before COMMIT, the number drawn from the sequence is
InsertRow(w) ==
    /\ pc[w] = "versioned"
    /\ txn[w].version \notin Versions(txn[w].project)
    /\ counter < MaxSequence
    /\ counter' = counter + 1
    /\ txn' = [txn EXCEPT ![w].seq = counter + 1]
    /\ pc' = [pc EXCEPT ![w] = "inserted"]
    /\ UNCHANGED <<rows, lock, cursor, seen>>

\* COMMIT publishes the row and releases the lock
CommitAppend(w) ==
    /\ pc[w] = "inserted"
    /\ rows' = rows \cup {txn[w]}
    /\ lock' = [lock EXCEPT ![LockOf[txn[w].project]] = NoWriter]
    /\ pc' = [pc EXCEPT ![w] = "idle"]
    /\ UNCHANGED <<counter, txn, cursor, seen>>

\* Mutant: the number is given back even when none was drawn
RollbackAppend_AlwaysReturns(w) ==
    /\ pc[w] \in {"locked", "versioned", "inserted"}
    /\ counter' = counter - 1
    /\ lock' = [lock EXCEPT ![LockOf[txn[w].project]] = NoWriter]
    /\ pc' = [pc EXCEPT ![w] = "idle"]
    /\ UNCHANGED <<rows, txn, cursor, seen>>

\* An exception or the death of the process anywhere in the transaction
RollbackAppend(w) ==
    /\ pc[w] \in {"locked", "versioned", "inserted"}
    /\ counter' = IF pc[w] = "inserted" /\ ~SerialSurvives THEN counter - 1 ELSE counter
    /\ lock' = [lock EXCEPT ![LockOf[txn[w].project]] = NoWriter]
    /\ pc' = [pc EXCEPT ![w] = "idle"]
    /\ UNCHANGED <<rows, txn, cursor, seen>>

\* Mutant: the cursor is not moved
Follow_StuckCursor(p) ==
    /\ GetProjectStream(p, cursor[p]) # {}
    /\ seen' = [seen EXCEPT ![p] = @ \cup GetProjectStream(p, cursor[p])]
    /\ UNCHANGED <<ledgerVars, cursor>>

\* get_project_stream(p, since_sequence=cursor), then move the cursor on
Follow(p) ==
    /\ GetProjectStream(p, cursor[p]) # {}
    /\ seen' = [seen EXCEPT ![p] = @ \cup GetProjectStream(p, cursor[p])]
    /\ cursor' = [cursor EXCEPT ![p] = GetLatestSequence(p)]
    /\ UNCHANGED ledgerVars

WriterStep(w) ==
    ReadVersion(w) \/ InsertRow(w) \/ CommitAppend(w) \/ RollbackAppend(w)

Next ==
    \/ \E w \in Writers, p \in Projects : BeginAppend(w, p)
    \/ \E w \in Writers : WriterStep(w)
    \/ \E p \in Projects : Follow(p)

\* A process that opened a transaction goes on with it, or dies and the
\* database rolls it back; a follower polls again.
Fairness ==
    /\ \A w \in Writers : WF_vars(WriterStep(w))
    /\ \A p \in Projects : WF_vars(Follow(p))

Spec == Init /\ [][Next]_vars
LiveSpec == Spec /\ Fairness

-----------------------------------------------------------------------------
(* Properties *)

TypeOK ==
    /\ rows \subseteq Row
    /\ counter \in Nat
    /\ lock \in [LockKeys -> Writers \cup {NoWriter}]
    /\ pc \in [Writers -> {"idle", "locked", "versioned", "inserted"}]
    /\ txn \in [Writers -> Row]
    /\ cursor \in [Projects -> Nat]
    /\ seen \in [Projects -> SUBSET Row]

\* Whatever was rolled back in between, the committed versions of a project
\* are 1, 2, ..., n: append_event leaves no gap and hands out no version twice.
VersionsContiguous ==
    \A p \in Projects : \E n \in 0..counter : Versions(p) = 1..n

\* Within a project the two orders agree: replay (ORDER BY event_sequence)
\* visits the rows in the order of their versions, and two rows with one
\* sequence or one version are the same row.
OrdersAgree ==
    \A r, s \in rows :
        r.project = s.project =>
            /\ r.seq < s.seq <=> r.version < s.version
            /\ r.seq = s.seq => r = s

\* A client that reads past a cursor misses nothing: no row of the project is
\* ever committed at or below an event_sequence a reader has already passed.
NoMissedEvent ==
    \A p \in Projects : \A r \in RowsOf(p) : r.seq <= cursor[p] => r \in seen[p]

\* UNIQUE (project_id, version) is a guard that never fires: the version a
\* transaction has read is still free when it inserts and when it commits.
VersionStaysFree ==
    \A w \in Writers :
        pc[w] \in {"versioned", "inserted"} =>
            txn[w].version = NextVersion(txn[w].project)

\* Every committed event reaches the follower of its project.
EventuallyFollowed ==
    \A p \in Projects :
        (GetProjectStream(p, cursor[p]) # {}) ~> (GetProjectStream(p, cursor[p]) = {})

\* What readers are promised: the ledger implements an append-only stream per
\* project, whatever its transactions do.
Stream == INSTANCE ProjectStream WITH
            stream <- [p \in Projects |-> {r.seq : r \in RowsOf(p)}]
ImplementsStream == Stream!Spec

=============================================================================
