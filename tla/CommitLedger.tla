---------------------------- MODULE CommitLedger ----------------------------
(***************************************************************************)
(* The reference kernel's ledger of commits (ledger/) and the replayer     *)
(* that reads it (replay/engine/default.py).                               *)
(*                                                                         *)
(* A commit is 1..N events of one stream, numbered by the caller, under a  *)
(* content-addressed commit_id; two commits are the same commit iff they   *)
(* have the same events, so the record itself stands for the digest.       *)
(*                                                                         *)
(* MemoryLedger.append is one step (Atomic).  SQLiteLedger.append of       *)
(* several processes on one file is not: it looks for the commit_id, reads *)
(* MAX(sequence) and reads MAX(global_order) in autocommit mode, and only  *)
(* the INSERTs and the COMMIT are one transaction (sqlite3 opens it at the *)
(* first INSERT).  What protects the ledger is PRIMARY KEY (stream_id,     *)
(* sequence).                                                              *)
(***************************************************************************)
EXTENDS Integers, FiniteSets

CONSTANTS Procs,    \* processes (or callers) that append
          Streams,  \* stream ids
          Tags,     \* contents that tell commits of the same place apart
          MaxSeq,   \* bound: highest sequence of a stream
          MaxLen,   \* bound: events per commit
          Atomic    \* TRUE: MemoryLedger; FALSE: SQLiteLedger

ASSUME CommitAssumption ==
    /\ MaxSeq \in Nat
    /\ MaxLen \in Nat
    /\ Atomic \in BOOLEAN

VARIABLES
    entries,   \* ledger_entries: the committed entries
    pc,        \* process -> how far its append has come
    job,       \* process -> the commit it appends
    order,     \* process -> the global_order it has computed
    receipts,  \* every CommitReceipt handed out so far
    outcome,   \* process -> how its last append ended
    replayed   \* the last ReplayResult: its events and its boundary

vars == <<entries, pc, job, order, receipts, outcome, replayed>>

Commit == {c \in [stream : Streams, first : 1..MaxSeq, len : 1..MaxLen, tag : Tags] :
             c.first + c.len - 1 <= MaxSeq}
Entry == [stream : Streams, seq : Nat, commit : Commit, order : Nat]
Receipt == [commit : Commit, start : Nat, end : Nat, order : Nat]

Largest(S) == CHOOSE x \in S : \A y \in S : y <= x

-----------------------------------------------------------------------------
(* Queries *)

Of(c) == {e \in entries : e.commit = c}
Exists(c) == Of(c) # {}
ReadStream(s) == {e \in entries : e.stream = s}
Sequences(s) == {e.seq : e \in ReadStream(s)}
Orders == {e.order : e \in entries}

\* SELECT MAX(sequence) ... or 0
CurrentSequence(s) == IF Sequences(s) = {} THEN 0 ELSE Largest(Sequences(s))

\* Mutant: the plus one is missing
NextGlobalOrder_NoIncrement == IF Orders = {} THEN -1 ELSE Largest(Orders)

\* SELECT COALESCE(MAX(global_order), -1), plus one; MemoryLedger's counter
NextGlobalOrder == IF Orders = {} THEN 0 ELSE Largest(Orders) + 1

\* The contiguity check: with events numbered first, first + 1, ... the loop
\* accepts iff the first one follows the stream
Follows(c) == c.first = CurrentSequence(c.stream) + 1

EntriesOf(c, o) ==
    {[stream |-> c.stream, seq |-> n, commit |-> c, order |-> o] :
        n \in c.first..(c.first + c.len - 1)}

ReceiptOf(c, o) ==
    [commit |-> c, start |-> c.first, end |-> c.first + c.len - 1, order |-> o]

\* Mutant: the global_order of the last commit, not of this one
StoredReceipt_LastOrder(c) == ReceiptOf(c, NextGlobalOrder - 1)

\* The receipt read back for a commit_id that is already there
StoredReceipt(c) ==
    LET e == CHOOSE x \in Of(c) : TRUE IN
    [commit |-> c,
     start  |-> CHOOSE n \in {x.seq : x \in Of(c)} : \A x \in Of(c) : n <= x.seq,
     end    |-> CHOOSE n \in {x.seq : x \in Of(c)} : \A x \in Of(c) : x.seq <= n,
     order  |-> e.order]

\* replay_to(boundary): read_from(0) up to and including the boundary
ReplayTo(b) == {e \in entries : e.order <= b}

\* _compute_boundary
Boundary(E) == IF E = {} THEN 0 ELSE Largest({e.order : e \in E})

-----------------------------------------------------------------------------
Init ==
    /\ entries = {}
    /\ pc = [p \in Procs |-> "idle"]
    /\ job \in [Procs -> {c \in Commit : c.first = 1 /\ c.len = 1}]
    /\ order = [p \in Procs |-> 0]
    /\ receipts = {}
    /\ outcome = [p \in Procs |-> "none"]
    /\ replayed = [entries |-> {}, boundary |-> -1]

\* The append of p ends: a receipt, ValueError or IntegrityError
Finish(p, how) ==
    /\ pc' = [pc EXCEPT ![p] = "idle"]
    /\ outcome' = [outcome EXCEPT ![p] = how]
    /\ order' = [order EXCEPT ![p] = 0]

\* append(commit) when the commit_id is known: the stored receipt, nothing else
AppendKnown(p, c) ==
    /\ pc[p] = "idle"
    /\ Exists(c)
    /\ job' = [job EXCEPT ![p] = c]
    /\ receipts' = receipts \cup {StoredReceipt(c)}
    /\ Finish(p, "receipt")
    /\ UNCHANGED <<entries, replayed>>

\* MemoryLedger.append of a new commit
AppendMemory(p, c) ==
    /\ Atomic
    /\ pc[p] = "idle"
    /\ ~Exists(c)
    /\ job' = [job EXCEPT ![p] = c]
    /\ IF Follows(c)
       THEN /\ entries' = entries \cup EntriesOf(c, NextGlobalOrder)
            /\ receipts' = receipts \cup {ReceiptOf(c, NextGlobalOrder)}
            /\ Finish(p, "receipt")
       ELSE /\ Finish(p, "gap")
            /\ UNCHANGED <<entries, receipts>>
    /\ UNCHANGED replayed

\* SQLiteLedger.append: the commit_id is not there yet
CheckNew(p, c) ==
    /\ ~Atomic
    /\ pc[p] = "idle"
    /\ ~Exists(c)
    /\ job' = [job EXCEPT ![p] = c]
    /\ pc' = [pc EXCEPT ![p] = "checked"]
    /\ UNCHANGED <<entries, order, receipts, outcome, replayed>>

\* Mutant: the sequences are not compared with the stream
CheckSequence_NoCheck(p) ==
    /\ pc[p] = "checked"
    /\ pc' = [pc EXCEPT ![p] = "validated"]
    /\ UNCHANGED <<entries, job, order, receipts, outcome, replayed>>

\* MAX(sequence) and the contiguity check, or ValueError
CheckSequence(p) ==
    /\ pc[p] = "checked"
    /\ IF Follows(job[p])
       THEN pc' = [pc EXCEPT ![p] = "validated"] /\ UNCHANGED <<outcome, order>>
       ELSE Finish(p, "gap")
    /\ UNCHANGED <<entries, job, receipts, replayed>>

ReadOrder(p) ==
    /\ pc[p] = "validated"
    /\ order' = [order EXCEPT ![p] = NextGlobalOrder]
    /\ pc' = [pc EXCEPT ![p] = "ordered"]
    /\ UNCHANGED <<entries, job, receipts, outcome, replayed>>

\* An INSERT whose (stream_id, sequence) is taken
Collides(c) == \E n \in c.first..(c.first + c.len - 1) : n \in Sequences(c.stream)

\* Mutant: rows are inserted without the primary key
InsertCommit_NoKey(p) ==
    /\ pc[p] = "ordered"
    /\ entries' = entries \cup EntriesOf(job[p], order[p])
    /\ receipts' = receipts \cup {ReceiptOf(job[p], order[p])}
    /\ Finish(p, "receipt")
    /\ UNCHANGED <<job, replayed>>

\* Mutant: the rows that do not collide are kept (INSERT OR IGNORE)
InsertCommit_Partial(p) ==
    /\ pc[p] = "ordered"
    /\ entries' = entries \cup {e \in EntriesOf(job[p], order[p]) :
                                   e.seq \notin Sequences(e.stream)}
    /\ receipts' = receipts \cup {ReceiptOf(job[p], order[p])}
    /\ Finish(p, "receipt")
    /\ UNCHANGED <<job, replayed>>

\* The transaction: all rows and the receipt, or IntegrityError and nothing
InsertCommit(p) ==
    /\ pc[p] = "ordered"
    /\ IF Collides(job[p])
       THEN /\ Finish(p, "conflict")
            /\ UNCHANGED <<entries, receipts>>
       ELSE /\ entries' = entries \cup EntriesOf(job[p], order[p])
            /\ receipts' = receipts \cup {ReceiptOf(job[p], order[p])}
            /\ Finish(p, "receipt")
    /\ UNCHANGED <<job, replayed>>

\* The process dies before the INSERTs, or waits for the write lock longer
\* than sqlite3's timeout; either way nothing is stored
Fail(p) ==
    /\ pc[p] # "idle"
    /\ Finish(p, "failed")
    /\ UNCHANGED <<entries, job, receipts, replayed>>

\* The process dies after COMMIT and before the caller has the
\* receipt: the caller only knows that it may have to append again
InsertUnanswered(p) ==
    /\ pc[p] = "ordered"
    /\ ~Collides(job[p])
    /\ entries' = entries \cup EntriesOf(job[p], order[p])
    /\ Finish(p, "failed")
    /\ UNCHANGED <<job, receipts, replayed>>

\* DefaultReplayer.replay, global scope: read_from(0) and the boundary
Replay ==
    /\ replayed' = [entries |-> entries, boundary |-> Boundary(entries)]
    /\ UNCHANGED <<entries, pc, job, order, receipts, outcome>>

AppendStep(p) ==
    CheckSequence(p) \/ ReadOrder(p) \/ InsertCommit(p) \/ Fail(p) \/ InsertUnanswered(p)

Next ==
    \/ \E p \in Procs, c \in Commit : AppendKnown(p, c) \/ AppendMemory(p, c) \/ CheckNew(p, c)
    \/ \E p \in Procs : AppendStep(p)
    \/ Replay

Spec == Init /\ [][Next]_vars

-----------------------------------------------------------------------------
(* Properties *)

TypeOK ==
    /\ entries \subseteq Entry
    /\ pc \in [Procs -> {"idle", "checked", "validated", "ordered"}]
    /\ job \in [Procs -> Commit]
    /\ order \in [Procs -> Nat]
    /\ receipts \subseteq Receipt
    /\ outcome \in [Procs -> {"none", "receipt", "gap", "conflict", "failed"}]
    /\ replayed \in [entries : SUBSET Entry, boundary : Int]

\* Every stream holds exactly the sequences 1, 2, ..., n, one event each: the
\* check in append is stale when the INSERT runs, and the primary key makes
\* up for it.
StreamContiguous ==
    \A s \in Streams :
        /\ \E n \in 0..MaxSeq : Sequences(s) = 1..n
        /\ \A e, f \in ReadStream(s) : e.seq = f.seq => e = f

\* A commit is in the ledger as a whole and at one global_order, or not at all.
CommitAtomic ==
    \A e \in entries : Of(e.commit) = EntriesOf(e.commit, e.order)

\* Whatever crashed and was appended again: every receipt ever handed out for
\* a commit says where its events are.
ReceiptsTrue ==
    \A r \in receipts : r \in {ReceiptOf(e.commit, e.order) : e \in Of(r.commit)}

\* Within a stream, global replay visits the events in sequence order: of two
\* events of different commits the later one has the larger global_order.
GlobalOrderKeepsStreamOrder ==
    \A e, f \in entries :
        (e.stream = f.stream /\ e.seq < f.seq /\ e.commit # f.commit) => e.order < f.order

\* A commit is at a place of its own in the global order: "logical total
\* ordering, assigned at persistence time".
TotalOrder ==
    \A e, f \in entries : e.order = f.order => e.commit = f.commit

\* A boundary names the events it was computed from: replaying again up to it,
\* however much was appended since, processes the same events.
BoundaryReproducible ==
    replayed.entries # {} => ReplayTo(replayed.boundary) = replayed.entries

\* The same for every replay, those of an empty ledger too: "A Replay Boundary
\* of N means Understanding was produced by processing all Events with
\* global_order <= N".
BoundaryMeansAllUpTo ==
    replayed.boundary >= 0 => ReplayTo(replayed.boundary) = replayed.entries

\* append is idempotent: an append of a commit that is in the ledger does not
\* end in an exception.
IdempotentAppend ==
    \A p \in Procs : pc[p] = "idle" /\ outcome[p] = "conflict" => ~Exists(job[p])

=============================================================================
