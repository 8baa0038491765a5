------------------------- MODULE CommitLedgerProofs -------------------------
(***************************************************************************)
(* What the commit ledger guarantees for any number of processes, streams  *)
(* and commits, on either backend, and what only the atomic one adds.      *)
(***************************************************************************)
EXTENDS CommitLedger, TLAPS

-----------------------------------------------------------------------------
(* The inductive invariant *)

\* The global_order values in use have no gap
OrdersDense == \E k \in Int : k >= -1 /\ Orders = 0..k

\* A process that has passed the contiguity check has its predecessors in the
\* stream (they may have been overtaken since, never removed)
Prepared ==
    \A p \in Procs :
        pc[p] \in {"validated", "ordered"} =>
            1..(job[p].first - 1) \subseteq Sequences(job[p].stream)

\* The global_order a process has computed is beyond those predecessors
Numbered ==
    \A p \in Procs :
        pc[p] = "ordered" =>
            /\ order[p] <= NextGlobalOrder
            /\ \A e \in ReadStream(job[p].stream) :
                   e.seq < job[p].first => e.order < order[p]

LedgerInv == TypeOK /\ StreamContiguous /\ CommitAtomic /\ GlobalOrderKeepsStreamOrder /\ OrdersDense

CommitInv == LedgerInv /\ ReceiptsTrue /\ Prepared /\ Numbered

-----------------------------------------------------------------------------
(* The operators *)

\* The largest number of an interval is its end.
LEMMA LargestOfInterval ==
    ASSUME NEW a \in Int, NEW k \in Int, a <= k
    PROVE  Largest(a..k) = k
<1>1. k \in a..k /\ \A y \in a..k : y <= k
  OBVIOUS
<1>2. \A x \in a..k : (\A y \in a..k : y <= x) => x = k
  <2> SUFFICES ASSUME NEW x \in a..k, \A y \in a..k : y <= x PROVE x = k
    OBVIOUS
  <2>1. k <= x
    BY <1>1
  <2> QED BY <2>1
<1> QED BY <1>1, <1>2 DEF Largest

\* MAX(sequence) is the length of the stream
LEMMA CurrentIsLength ==
    ASSUME NEW s, NEW n \in Nat, Sequences(s) = 1..n
    PROVE  CurrentSequence(s) = n
<1>1. CASE n = 0
  BY <1>1 DEF CurrentSequence
<1>2. CASE n # 0
  <2>1. 1..n # {} /\ 1 <= n
    BY <1>2
  <2> QED BY <2>1, LargestOfInterval DEF CurrentSequence
<1> QED BY <1>1, <1>2

\* The number after 0..k is k + 1, also when the interval is empty.
LEMMA NextOfInterval ==
    ASSUME NEW k \in Int, k >= -1
    PROVE  (IF 0..k = {} THEN 0 ELSE Largest(0..k) + 1) = k + 1
<1>1. CASE k = -1
  BY <1>1
<1>2. CASE k >= 0
  <2>1. 0..k # {} /\ Largest(0..k) = k
    BY <1>2, LargestOfInterval
  <2> QED BY <2>1
<1> QED BY <1>1, <1>2

\* The next global_order is one beyond all those in use, before and after a step
LEMMA NextIsBeyond ==
    /\ OrdersDense => NextGlobalOrder \in Nat /\ Orders = 0..(NextGlobalOrder - 1)
    /\ OrdersDense' => NextGlobalOrder' \in Nat /\ Orders' = 0..(NextGlobalOrder' - 1)
<1>1. ASSUME OrdersDense PROVE NextGlobalOrder \in Nat /\ Orders = 0..(NextGlobalOrder - 1)
  <2>1. PICK k \in Int : k >= -1 /\ Orders = 0..k
    BY <1>1 DEF OrdersDense
  <2>2. NextGlobalOrder = k + 1
    BY <2>1, NextOfInterval DEF NextGlobalOrder
  <2> QED BY <2>1, <2>2
<1>2. ASSUME OrdersDense' PROVE NextGlobalOrder' \in Nat /\ Orders' = 0..(NextGlobalOrder' - 1)
  <2>1. PICK k \in Int : k >= -1 /\ Orders' = 0..k
    BY <1>2 DEF OrdersDense
  <2>2. NextGlobalOrder' = k + 1
    BY <2>1, NextOfInterval DEF NextGlobalOrder
  <2> QED BY <2>1, <2>2
<1> QED BY <1>1, <1>2

\* An entry belongs to its commit
LEMMA EntryShape ==
    ASSUME CommitAtomic, TypeOK, NEW e \in entries
    PROVE  /\ e = [stream |-> e.commit.stream, seq |-> e.seq, commit |-> e.commit, order |-> e.order]
           /\ e.seq \in e.commit.first..(e.commit.first + e.commit.len - 1)
<1>1. e \in Of(e.commit)
  BY DEF Of
<1>2. e \in EntriesOf(e.commit, e.order)
  BY <1>1 DEF CommitAtomic
<1> QED BY <1>2 DEF EntriesOf

\* A commit has an entry for each of its sequences
LEMMA EntryAt ==
    ASSUME NEW c, NEW o, NEW n \in c.first..(c.first + c.len - 1)
    PROVE  \E e \in EntriesOf(c, o) : e.seq = n /\ e.order = o
<1> DEFINE x == [stream |-> c.stream, seq |-> n, commit |-> c, order |-> o]
<1>1. x \in EntriesOf(c, o)
  BY DEF EntriesOf
<1>2. x.seq = n /\ x.order = o
  OBVIOUS
<1> QED BY <1>1, <1>2

\* The receipt read back for a known commit is the one its insertion gave
LEMMA StoredReceiptTrue ==
    ASSUME TypeOK, CommitAtomic, NEW c \in Commit, Exists(c)
    PROVE  \E e \in Of(c) : StoredReceipt(c) = ReceiptOf(c, e.order)
<1> DEFINE f == CHOOSE x \in Of(c) : TRUE
           S == {x.seq : x \in Of(c)}
           last == c.first + c.len - 1
<1>1. f \in Of(c) /\ f \in entries /\ f.commit = c
  BY DEF Exists, Of
<1>2. Of(c) = EntriesOf(c, f.order)
  BY <1>1 DEF CommitAtomic
<1>3. /\ c.first \in Nat /\ c.len \in Nat /\ c.first >= 1 /\ c.len >= 1
  BY CommitAssumption DEF Commit
<1>4. S = c.first..last
  <2>1. ASSUME NEW n \in c.first..last PROVE \E x \in Of(c) : x.seq = n
    <3> HIDE DEF f
    <3>1. n \in c.first..(c.first + c.len - 1)
      OBVIOUS
    <3>2. PICK x \in EntriesOf(c, f.order) : x.seq = n
      BY <3>1, EntryAt
    <3> QED BY <3>2, <1>2
  <2>2. \A x \in Of(c) : x.seq \in c.first..last
    BY <1>2 DEF EntriesOf
  <2> QED BY <2>1, <2>2
<1>5. (CHOOSE n \in S : \A x \in Of(c) : n <= x.seq) = c.first
  <2>1. \A n \in S : (\A x \in Of(c) : n <= x.seq) <=> n = c.first
    <3> SUFFICES ASSUME NEW n \in S
                 PROVE  (\A x \in Of(c) : n <= x.seq) <=> n = c.first
      OBVIOUS
    <3>1. PICK x \in Of(c) : x.seq = c.first
      BY <1>3, <1>4
    <3>2. \A y \in Of(c) : y.seq \in c.first..last
      BY <1>4
    <3>3. n \in c.first..last
      BY <1>4
    <3> QED BY <3>1, <3>2, <3>3, <1>3
  <2>2. c.first \in S
    BY <1>3, <1>4
  <2> QED BY <2>1, <2>2
<1>6. (CHOOSE n \in S : \A x \in Of(c) : x.seq <= n) = last
  <2>1. \A n \in S : (\A x \in Of(c) : x.seq <= n) <=> n = last
    <3> SUFFICES ASSUME NEW n \in S
                 PROVE  (\A x \in Of(c) : x.seq <= n) <=> n = last
      OBVIOUS
    <3>1. PICK x \in Of(c) : x.seq = last
      BY <1>3, <1>4
    <3>2. \A y \in Of(c) : y.seq \in c.first..last
      BY <1>4
    <3>3. n \in c.first..last
      BY <1>4
    <3> QED BY <3>1, <3>2, <3>3, <1>3
  <2>2. last \in S
    BY <1>3, <1>4
  <2> QED BY <2>1, <2>2
<1>7. StoredReceipt(c) = ReceiptOf(c, f.order)
  BY <1>5, <1>6 DEF StoredReceipt, ReceiptOf
<1> QED BY <1>1, <1>7

-----------------------------------------------------------------------------
(* Inserting a commit *)

\* What both backends establish before a commit's rows go in
CanInsert(c, o) ==
    /\ c \in Commit
    /\ o \in Nat
    /\ o <= NextGlobalOrder
    /\ 1..(c.first - 1) \subseteq Sequences(c.stream)
    /\ ~Collides(c)
    /\ \A e \in ReadStream(c.stream) : e.seq < c.first => e.order < o

\* The fields of a commit.
LEMMA CommitFields ==
    ASSUME NEW c \in Commit
    PROVE  /\ c.stream \in Streams
           /\ c.first \in Nat /\ c.len \in Nat
           /\ c.first >= 1 /\ c.len >= 1
           /\ c.first + c.len - 1 <= MaxSeq
BY CommitAssumption DEF Commit

\* The stream of the commit ended just before it
LEMMA EndsBefore ==
    ASSUME LedgerInv, NEW c, NEW o, CanInsert(c, o)
    PROVE  /\ Sequences(c.stream) = 1..(c.first - 1)
           /\ Of(c) = {}
<1>1. c \in Commit
  BY DEF CanInsert
<1>2. PICK n \in 0..MaxSeq : Sequences(c.stream) = 1..n
  BY <1>1, CommitFields DEF LedgerInv, StreamContiguous
<1>3. c.first \notin Sequences(c.stream)
  BY <1>1, CommitFields DEF CanInsert, Collides
<1>4. n = c.first - 1
  <2>1. n < c.first
    BY <1>1, <1>2, <1>3, CommitFields, CommitAssumption
  <2>2. n >= c.first - 1
    <3>1. CASE c.first = 1
      BY <3>1, <1>2, CommitAssumption
    <3>2. CASE c.first > 1
      <4>1. c.first - 1 \in 1..(c.first - 1)
        BY <3>2, <1>1, CommitFields
      <4>2. c.first - 1 \in 1..n
        BY <4>1, <1>2 DEF CanInsert
      <4> QED BY <4>2, <1>2, CommitAssumption
    <3> QED BY <3>1, <3>2, <1>1, CommitFields
  <2> QED BY <2>1, <2>2, <1>1, <1>2, CommitFields, CommitAssumption
<1>5. Of(c) = {}
  <2> SUFFICES ASSUME NEW e \in Of(c) PROVE FALSE
    OBVIOUS
  <2>1. e \in entries /\ e.commit = c
    BY DEF Of
  <2>2. e.stream = c.stream /\ e.seq \in c.first..(c.first + c.len - 1)
    BY <2>1, EntryShape DEF LedgerInv
  <2>3. e.seq \in Sequences(c.stream)
    BY <2>1, <2>2 DEF Sequences, ReadStream
  <2> QED BY <2>2, <2>3, <1>1 DEF CanInsert, Collides
<1> QED BY <1>2, <1>4, <1>5

\* Inserting a contiguous commit under a dense order keeps the ledger's invariant.
LEMMA InsertKeepsLedger ==
    ASSUME LedgerInv, TypeOK', NEW c, NEW o, CanInsert(c, o),
           entries' = entries \cup EntriesOf(c, o)
    PROVE  LedgerInv'
<1> DEFINE last == c.first + c.len - 1
<1>c. /\ c \in Commit /\ c.stream \in Streams
      /\ c.first \in Nat /\ c.len \in Nat /\ c.first >= 1 /\ c.len >= 1
      /\ c.first + c.len - 1 <= MaxSeq /\ o \in Nat
  BY CommitFields DEF CanInsert
<1>b. Sequences(c.stream) = 1..(c.first - 1) /\ Of(c) = {}
  BY EndsBefore
<1>n. \A e : e \in EntriesOf(c, o) <=>
            \E n \in c.first..last : e = [stream |-> c.stream, seq |-> n, commit |-> c, order |-> o]
  BY DEF EntriesOf
<1>1. StreamContiguous'
  <2> SUFFICES ASSUME NEW s \in Streams
               PROVE  /\ \E n \in 0..MaxSeq : Sequences(s)' = 1..n
                      /\ \A e, f \in ReadStream(s)' : e.seq = f.seq => e = f
    BY DEF StreamContiguous
  <2>1. CASE s # c.stream
    <3>1. ReadStream(s)' = ReadStream(s)
      BY <2>1, <1>n DEF ReadStream
    <3>2. Sequences(s)' = Sequences(s)
      BY <3>1 DEF Sequences
    <3> QED BY <3>1, <3>2 DEF LedgerInv, StreamContiguous
  <2>2. CASE s = c.stream
    <3>1. ReadStream(s)' = ReadStream(s) \cup EntriesOf(c, o)
      BY <2>2, <1>n DEF ReadStream
    <3>2. Sequences(s)' = Sequences(s) \cup c.first..last
      <4>1. ASSUME NEW n \in c.first..last PROVE \E e \in EntriesOf(c, o) : e.seq = n
        BY EntryAt
      <4>2. \A e \in EntriesOf(c, o) : e.seq \in c.first..last
        BY <1>n
      <4> QED BY <3>1, <4>1, <4>2 DEF Sequences
    <3>3. Sequences(s)' = 1..last
      BY <3>2, <1>b, <1>c, <2>2
    <3>4. last \in 0..MaxSeq
      BY <1>c, CommitAssumption
    <3>5. ASSUME NEW e \in ReadStream(s)', NEW f \in ReadStream(s)', e.seq = f.seq
          PROVE  e = f
      <4>1. \A x \in ReadStream(s) : x.seq \in 1..(c.first - 1)
        BY <1>b, <2>2 DEF Sequences
      <4>2. \A x \in EntriesOf(c, o) : x.seq \in c.first..last
        BY <1>n
      <4>3. CASE e \in ReadStream(s) /\ f \in ReadStream(s)
        BY <3>5, <4>3 DEF LedgerInv, StreamContiguous
      <4>4. CASE e \in EntriesOf(c, o) /\ f \in EntriesOf(c, o)
        BY <3>5, <4>4, <1>n
      <4> QED BY <3>1, <3>5, <4>1, <4>2, <4>3, <4>4, <1>c
    <3> QED BY <3>3, <3>4, <3>5
  <2> QED BY <2>1, <2>2
<1>2. CommitAtomic'
  <2> SUFFICES ASSUME NEW e \in entries' PROVE Of(e.commit)' = EntriesOf(e.commit, e.order)
    BY DEF CommitAtomic, EntriesOf
  <2>1. CASE e.commit = c
    <3>1. Of(c)' = EntriesOf(c, o)
      BY <1>b, <1>n DEF Of
    <3>2. e \in EntriesOf(c, o)
      BY <3>1, <2>1 DEF Of
    <3> QED BY <3>1, <3>2, <2>1, <1>n
  <2>2. CASE e.commit # c
    <3>1. e \in entries
      BY <2>2, <1>n
    <3>2. Of(e.commit)' = Of(e.commit)
      BY <2>2, <1>n DEF Of
    <3> QED BY <3>1, <3>2 DEF LedgerInv, CommitAtomic
  <2> QED BY <2>1, <2>2
<1>3. GlobalOrderKeepsStreamOrder'
  <2> SUFFICES ASSUME NEW e \in entries', NEW f \in entries',
                      e.stream = f.stream, e.seq < f.seq, e.commit # f.commit
               PROVE  e.order < f.order
    BY DEF GlobalOrderKeepsStreamOrder
  <2>1. CASE e \in entries /\ f \in entries
    BY <2>1 DEF LedgerInv, GlobalOrderKeepsStreamOrder
  <2>2. CASE f \in EntriesOf(c, o)
    <3>1. f.stream = c.stream /\ f.commit = c /\ f.order = o
      BY <2>2, <1>n
    <3>2. e \in ReadStream(c.stream)
      BY <3>1, <1>n DEF ReadStream
    <3>3. e.seq < c.first
      <4>1. e.seq \in Sequences(c.stream)
        BY <3>2 DEF Sequences
      <4> QED BY <4>1, <1>b, <1>c
    <3> QED BY <3>1, <3>2, <3>3 DEF CanInsert
  <2>3. CASE e \in EntriesOf(c, o) /\ f \in entries
    <3>1. e.stream = c.stream /\ e.seq >= c.first
      BY <2>3, <1>n, <1>c
    <3>2. f.seq \in Sequences(c.stream)
      BY <2>3, <3>1 DEF Sequences, ReadStream
    <3>3. f.seq \in 1..(c.first - 1)
      BY <3>2, <1>b
    <3>4. e.seq \in c.first..last
      BY <2>3, <1>n
    <3> QED BY <3>3, <3>4, <1>c
  <2> QED BY <2>1, <2>2, <2>3
<1>4. OrdersDense'
  <2>1. OrdersDense
    BY DEF LedgerInv
  <2>2. NextGlobalOrder \in Nat /\ Orders = 0..(NextGlobalOrder - 1)
    BY <2>1, NextIsBeyond
  <2>3. o <= NextGlobalOrder
    BY DEF CanInsert
  <2>4. Orders' = Orders \cup {o}
    <3>1. \E e \in EntriesOf(c, o) : e.order = o
      <4>1. c.first \in c.first..last
        BY <1>c
      <4> QED BY <4>1, EntryAt
    <3>2. \A e \in EntriesOf(c, o) : e.order = o
      BY <1>n
    <3> QED BY <3>1, <3>2 DEF Orders
  <2>5. CASE o = NextGlobalOrder
    <3>1. Orders' = 0..NextGlobalOrder
      BY <2>2, <2>4, <2>5
    <3> QED BY <3>1, <2>2 DEF OrdersDense
  <2>6. CASE o < NextGlobalOrder
    <3>1. Orders' = 0..(NextGlobalOrder - 1)
      BY <2>2, <2>4, <2>6, <1>c
    <3> QED BY <3>1, <2>2 DEF OrdersDense
  <2> QED BY <2>2, <2>3, <2>5, <2>6, <1>c
<1> QED BY <1>1, <1>2, <1>3, <1>4 DEF LedgerInv

\* The ledger only grows, so a process keeps what it has found out, provided
\* the new rows are not among its predecessors
LEMMA InsertKeepsJobs ==
    ASSUME CommitInv, LedgerInv', NEW c, NEW o, CanInsert(c, o),
           entries' = entries \cup EntriesOf(c, o),
           NEW p \in Procs, pc'[p] = pc[p], job'[p] = job[p], order'[p] = order[p]
    PROVE  /\ (pc[p] \in {"validated", "ordered"} =>
                  1..(job[p].first - 1) \subseteq Sequences(job[p].stream))'
           /\ (pc[p] = "ordered" =>
                  /\ order[p] <= NextGlobalOrder
                  /\ \A e \in ReadStream(job[p].stream) :
                         e.seq < job[p].first => e.order < order[p])'
<1>s. PICK s : s = job[p].stream
  OBVIOUS
<1>c. c \in Commit /\ c.first \in Nat /\ c.first >= 1 /\ job[p].first \in Nat /\ o \in Nat
      /\ job[p] \in Commit /\ s \in Streams
  BY <1>s, CommitFields DEF CanInsert, CommitInv, LedgerInv, TypeOK
<1>1. Sequences(s) \subseteq Sequences(s)'
  BY DEF Sequences, ReadStream
<1>2. ASSUME pc[p] \in {"validated", "ordered"}
      PROVE  1..(job[p].first - 1) \subseteq Sequences(s)
  BY <1>s, <1>2 DEF CommitInv, Prepared
<1>3. ASSUME pc[p] = "ordered"
      PROVE  /\ order[p] <= NextGlobalOrder'
             /\ \A e \in ReadStream(s)' : e.seq < job[p].first => e.order < order[p]
  <2>1. NextGlobalOrder <= NextGlobalOrder' /\ NextGlobalOrder \in Nat /\ NextGlobalOrder' \in Nat
    <3>1. OrdersDense /\ OrdersDense'
      BY DEF CommitInv, LedgerInv
    <3>2. NextGlobalOrder \in Nat /\ Orders = 0..(NextGlobalOrder - 1)
      BY <3>1, NextIsBeyond
    <3>3. NextGlobalOrder' \in Nat /\ Orders' = 0..(NextGlobalOrder' - 1)
      BY <3>1, NextIsBeyond
    <3>4. Orders \subseteq Orders'
      BY DEF Orders
    <3>5. CASE NextGlobalOrder = 0
      BY <3>5, <3>3
    <3>6. CASE NextGlobalOrder # 0
      <4>1. NextGlobalOrder - 1 \in Orders
        BY <3>2, <3>6
      <4>2. NextGlobalOrder - 1 \in 0..(NextGlobalOrder' - 1)
        BY <4>1, <3>3, <3>4
      <4>3. \A a, b \in Nat : a - 1 \in 0..(b - 1) => a <= b
        OBVIOUS
      <4> QED BY <4>2, <4>3, <3>2, <3>3
    <3> QED BY <3>2, <3>3, <3>5, <3>6
  <2>2. order[p] <= NextGlobalOrder /\ order[p] \in Nat
    BY <1>3 DEF CommitInv, Numbered, LedgerInv, TypeOK
  <2>3. ASSUME NEW e \in ReadStream(s)', e.seq < job[p].first PROVE e.order < order[p]
    <3>1. CASE e \in entries
      BY <1>s, <3>1, <2>3, <1>3 DEF CommitInv, Numbered, ReadStream
    <3>2. CASE e \in EntriesOf(c, o)
      <4>1. e.seq \in c.first..(c.first + c.len - 1) /\ e.stream = c.stream
        BY <3>2 DEF EntriesOf
      <4>2. s = c.stream
        BY <4>1, <2>3 DEF ReadStream
      <4>3. e.seq \in 1..(job[p].first - 1)
        BY <4>1, <2>3, <1>c, CommitFields
      <4>4. e.seq \in Sequences(c.stream)
        BY <4>2, <4>3, <1>2, <1>3
      <4> QED BY <4>1, <4>4 DEF CanInsert, Collides
    <3> QED BY <2>3, <3>1, <3>2 DEF ReadStream
  <2> QED BY <2>1, <2>2, <2>3
<1>4. job'[p].stream = s /\ job'[p].first = job[p].first
  BY <1>s
<1> QED BY <1>1, <1>2, <1>3, <1>4

-----------------------------------------------------------------------------
(* One lemma per action *)

\* Every step keeps the types.
LEMMA TypeInductive == TypeOK /\ CommitAtomic /\ OrdersDense /\ [Next]_vars => TypeOK'
<1> SUFFICES ASSUME TypeOK, CommitAtomic, OrdersDense, [Next]_vars PROVE TypeOK'
  OBVIOUS
<1> USE DEF TypeOK, Finish
<1>n. NextGlobalOrder \in Nat
  BY NextIsBeyond
<1>e. ASSUME NEW c \in Commit, NEW o \in Nat
      PROVE  EntriesOf(c, o) \subseteq Entry /\ ReceiptOf(c, o) \in Receipt
  BY <1>e, CommitFields DEF EntriesOf, ReceiptOf, Entry, Receipt
<1>1. ASSUME NEW p \in Procs, NEW c \in Commit, AppendKnown(p, c) PROVE TypeOK'
  <2>1. PICK e \in Of(c) : StoredReceipt(c) = ReceiptOf(c, e.order)
    BY <1>1, StoredReceiptTrue DEF AppendKnown
  <2>2. e.order \in Nat
    BY DEF Of, Entry
  <2>3. StoredReceipt(c) \in Receipt
    BY <2>1, <2>2, <1>e
  <2> QED BY <1>1, <2>3 DEF AppendKnown
<1>2. ASSUME NEW p \in Procs, NEW c \in Commit, AppendMemory(p, c) PROVE TypeOK'
  BY <1>2, <1>n, <1>e DEF AppendMemory
<1>3. ASSUME NEW p \in Procs, NEW c \in Commit, CheckNew(p, c) PROVE TypeOK'
  BY <1>3 DEF CheckNew
<1>4. ASSUME NEW p \in Procs, CheckSequence(p) PROVE TypeOK'
  BY <1>4 DEF CheckSequence
<1>5. ASSUME NEW p \in Procs, ReadOrder(p) PROVE TypeOK'
  BY <1>5, <1>n DEF ReadOrder
<1>6. ASSUME NEW p \in Procs, InsertCommit(p) PROVE TypeOK'
  <2>1. job[p] \in Commit /\ order[p] \in Nat
    OBVIOUS
  <2> QED BY <1>6, <2>1, <1>e DEF InsertCommit
<1>7. ASSUME NEW p \in Procs, Fail(p) PROVE TypeOK'
  BY <1>7 DEF Fail
<1>8. ASSUME NEW p \in Procs, InsertUnanswered(p) PROVE TypeOK'
  <2>1. job[p] \in Commit /\ order[p] \in Nat
    OBVIOUS
  <2> QED BY <1>8, <2>1, <1>e DEF InsertUnanswered
<1>9. CASE Replay
  <2>1. Boundary(entries) \in Int
    <3>1. CASE entries = {}
      BY <3>1 DEF Boundary
    <3>2. CASE entries # {}
      <4>1. Orders = 0..(NextGlobalOrder - 1) /\ Orders # {}
        BY <3>2, NextIsBeyond DEF Orders
      <4>2. Largest(Orders) = NextGlobalOrder - 1
        BY <4>1, <1>n, LargestOfInterval
      <4> QED BY <3>2, <4>2, <1>n DEF Boundary, Orders
    <3> QED BY <3>1, <3>2
  <2> QED BY <1>9, <2>1 DEF Replay
<1>10. CASE UNCHANGED vars
  BY <1>10 DEF vars
<1> QED BY <1>1, <1>2, <1>3, <1>4, <1>5, <1>6, <1>7, <1>8, <1>9, <1>10 DEF Next, AppendStep

\* A step that stores nothing keeps what is said of the entries
LEMMA QuietStep ==
    ASSUME CommitInv, TypeOK', entries' = entries, receipts' = receipts
    PROVE  LedgerInv' /\ ReceiptsTrue'
BY DEF CommitInv, LedgerInv, StreamContiguous, CommitAtomic, GlobalOrderKeepsStreamOrder,
       OrdersDense, ReceiptsTrue, Orders, Sequences, ReadStream, Of

\* ... and what the processes past their check have found out
LEMMA QuietJobs ==
    ASSUME CommitInv, entries' = entries,
           \A p \in Procs :
               pc'[p] \in {"validated", "ordered"} =>
                   pc'[p] = pc[p] /\ job'[p] = job[p] /\ order'[p] = order[p]
    PROVE  Prepared' /\ Numbered'
BY DEF CommitInv, Prepared, Numbered, Sequences, ReadStream, NextGlobalOrder, Orders

\* A commit that goes in: the entries, and the receipts, old and new
LEMMA StoringStep ==
    ASSUME CommitInv, TypeOK', NEW c, NEW o, CanInsert(c, o),
           entries' = entries \cup EntriesOf(c, o),
           \A r \in receipts' : r \in receipts \/ r = ReceiptOf(c, o)
    PROVE  LedgerInv' /\ ReceiptsTrue'
<1>1. LedgerInv'
  BY InsertKeepsLedger DEF CommitInv
<1>2. \E e \in EntriesOf(c, o) : e.order = o /\ e.commit = c
  <2>1. c.first \in c.first..(c.first + c.len - 1)
    BY CommitFields DEF CanInsert
  <2>2. PICK e \in EntriesOf(c, o) : e.order = o
    BY <2>1, EntryAt
  <2>3. e.commit = c
    BY DEF EntriesOf
  <2> QED BY <2>2, <2>3
<1>3. ReceiptsTrue'
  <2> SUFFICES ASSUME NEW r \in receipts'
               PROVE  \E e \in Of(r.commit)' : r = ReceiptOf(e.commit, e.order)
    BY DEF ReceiptsTrue, ReceiptOf
  <2>1. CASE r \in receipts
    <3>1. PICK e \in Of(r.commit) : r = ReceiptOf(e.commit, e.order)
      BY <2>1 DEF CommitInv, ReceiptsTrue
    <3>2. e \in Of(r.commit)'
      BY DEF Of
    <3> QED BY <3>1, <3>2
  <2>2. CASE r = ReceiptOf(c, o)
    <3>1. PICK e \in EntriesOf(c, o) : e.order = o /\ e.commit = c
      BY <1>2
    <3>2. r.commit = c
      BY <2>2 DEF ReceiptOf
    <3>3. e \in Of(r.commit)'
      BY <3>1, <3>2 DEF Of
    <3> QED BY <2>2, <3>1, <3>3
  <2> QED BY <2>1, <2>2
<1> QED BY <1>1, <1>3

\* What the contiguity check establishes
LEMMA CheckEstablishes ==
    ASSUME LedgerInv, NEW c \in Commit, Follows(c)
    PROVE  Sequences(c.stream) = 1..(c.first - 1)
<1>1. PICK n \in 0..MaxSeq : Sequences(c.stream) = 1..n
  BY CommitFields DEF LedgerInv, StreamContiguous
<1>2. n \in Nat
  BY CommitAssumption
<1>3. CurrentSequence(c.stream) = n
  BY <1>1, <1>2, CurrentIsLength
<1>4. c.first - 1 = n
  BY <1>2, <1>3, CommitFields DEF Follows
<1> QED BY <1>1, <1>4

\* The next global_order is beyond every entry
LEMMA EntriesBefore ==
    ASSUME LedgerInv, NEW e \in entries
    PROVE  e.order \in Nat /\ e.order < NextGlobalOrder
<1>1. NextGlobalOrder \in Nat /\ Orders = 0..(NextGlobalOrder - 1)
  BY NextIsBeyond DEF LedgerInv
<1>2. e.order \in Orders
  BY DEF Orders
<1> QED BY <1>1, <1>2

\* The atomic append keeps the invariant.
LEMMA AppendMemoryPreserves ==
    ASSUME CommitInv, TypeOK', NEW p \in Procs, NEW c \in Commit, AppendMemory(p, c)
    PROVE  CommitInv'
<1>1. CASE Follows(c)
  <2>1. Sequences(c.stream) = 1..(c.first - 1)
    BY <1>1, CheckEstablishes DEF CommitInv
  <2>2. CanInsert(c, NextGlobalOrder)
    <3>1. ~Collides(c)
      BY <2>1, CommitFields DEF Collides
    <3>2. NextGlobalOrder \in Nat
      BY NextIsBeyond DEF CommitInv, LedgerInv
    <3>3. \A e \in ReadStream(c.stream) : e.order < NextGlobalOrder
      BY EntriesBefore DEF CommitInv, ReadStream
    <3> QED BY <2>1, <3>1, <3>2, <3>3 DEF CanInsert
  <2>3. entries' = entries \cup EntriesOf(c, NextGlobalOrder)
    BY <1>1 DEF AppendMemory
  <2>4. \A r \in receipts' : r \in receipts \/ r = ReceiptOf(c, NextGlobalOrder)
    BY <1>1 DEF AppendMemory
  <2>5. LedgerInv' /\ ReceiptsTrue'
    <3>1. PICK o : o = NextGlobalOrder
      OBVIOUS
    <3> QED BY <2>2, <2>3, <2>4, <3>1, StoringStep
  <2>6. Prepared' /\ Numbered'
    <3>1. PICK o : o = NextGlobalOrder
      OBVIOUS
    <3>2. CanInsert(c, o) /\ entries' = entries \cup EntriesOf(c, o)
      BY <2>2, <2>3, <3>1
    <3>3. ASSUME NEW q \in Procs, q # p
          PROVE  pc'[q] = pc[q] /\ job'[q] = job[q] /\ order'[q] = order[q]
      BY <1>1, <3>3 DEF AppendMemory, Finish, CommitInv, LedgerInv, TypeOK
    <3>4. pc'[p] = "idle"
      BY <1>1 DEF AppendMemory, Finish, CommitInv, LedgerInv, TypeOK
    <3> QED BY <2>5, <3>2, <3>3, <3>4, InsertKeepsJobs DEF Prepared, Numbered
  <2> QED BY <2>5, <2>6 DEF CommitInv
<1>2. CASE ~Follows(c)
  <2>1. entries' = entries /\ receipts' = receipts
    BY <1>2 DEF AppendMemory
  <2>2. LedgerInv' /\ ReceiptsTrue'
    BY <2>1, QuietStep
  <2>3. Prepared' /\ Numbered'
    <3>1. \A q \in Procs : pc'[q] \in {"validated", "ordered"} =>
            pc'[q] = pc[q] /\ job'[q] = job[q] /\ order'[q] = order[q]
      BY <1>2 DEF AppendMemory, Finish, CommitInv, LedgerInv, TypeOK
    <3> QED BY <2>1, <3>1, QuietJobs
  <2> QED BY <2>2, <2>3 DEF CommitInv
<1> QED BY <1>1, <1>2

\* The transaction of a process that does not collide
LEMMA TransactionPreserves ==
    ASSUME CommitInv, TypeOK', NEW p \in Procs, pc[p] = "ordered", ~Collides(job[p]),
           entries' = entries \cup EntriesOf(job[p], order[p]),
           \A r \in receipts' : r \in receipts \/ r = ReceiptOf(job[p], order[p]),
           job' = job, pc'[p] = "idle",
           \A q \in Procs : q # p => pc'[q] = pc[q] /\ order'[q] = order[q]
    PROVE  CommitInv'
<1>1. PICK c, o : c = job[p] /\ o = order[p]
  OBVIOUS
<1>2. CanInsert(c, o)
  BY <1>1 DEF CommitInv, LedgerInv, TypeOK, Prepared, Numbered, CanInsert
<1>3. LedgerInv' /\ ReceiptsTrue'
  BY <1>1, <1>2, StoringStep
<1>4. Prepared' /\ Numbered'
  BY <1>1, <1>2, <1>3, InsertKeepsJobs DEF Prepared, Numbered
<1> QED BY <1>3, <1>4 DEF CommitInv

\* Each step of the SQLite append keeps the invariant.
LEMMA AppendStepPreserves ==
    ASSUME CommitInv, TypeOK', NEW p \in Procs, AppendStep(p)
    PROVE  CommitInv'
<1> USE DEF Finish
<1>t. TypeOK
  BY DEF CommitInv, LedgerInv
<1>1. CASE CheckSequence(p)
  <2>1. LedgerInv' /\ ReceiptsTrue'
    BY <1>1, QuietStep DEF CheckSequence
  <2>2. Prepared'
    <3>1. ASSUME Follows(job[p]) PROVE 1..(job[p].first - 1) \subseteq Sequences(job[p].stream)
      BY <3>1, <1>t, CheckEstablishes DEF CommitInv, TypeOK
    <3> QED BY <1>1, <1>t, <3>1 DEF CheckSequence, CommitInv, TypeOK, Prepared, Sequences, ReadStream
  <2>3. Numbered'
    <3>1. /\ entries' = entries /\ job' = job /\ pc'[p] # "ordered"
          /\ \A q \in Procs : q # p => pc'[q] = pc[q] /\ order'[q] = order[q]
      BY <1>1, <1>t DEF CheckSequence, TypeOK
    <3>2. NextGlobalOrder' = NextGlobalOrder
      BY <3>1 DEF NextGlobalOrder, Orders
    <3>3. Numbered
      BY DEF CommitInv
    <3> QED BY <3>1, <3>2, <3>3 DEF Numbered, ReadStream
  <2> QED BY <2>1, <2>2, <2>3 DEF CommitInv
<1>2. CASE ReadOrder(p)
  <2>1. LedgerInv' /\ ReceiptsTrue'
    BY <1>2, QuietStep DEF ReadOrder
  <2>2. Prepared'
    BY <1>2, <1>t DEF ReadOrder, CommitInv, TypeOK, Prepared, Sequences, ReadStream
  <2>3. Numbered'
    <3>1. NextGlobalOrder \in Nat
      BY NextIsBeyond DEF CommitInv, LedgerInv
    <3>2. \A e \in entries : e.order < NextGlobalOrder
      BY EntriesBefore DEF CommitInv
    <3>3. NextGlobalOrder' = NextGlobalOrder
      BY <1>2 DEF ReadOrder, NextGlobalOrder, Orders
    <3> QED BY <1>2, <1>t, <3>1, <3>2, <3>3 DEF ReadOrder, CommitInv, TypeOK, Numbered, ReadStream
  <2> QED BY <2>1, <2>2, <2>3 DEF CommitInv
<1>3. CASE InsertCommit(p) /\ Collides(job[p])
  <2>1. LedgerInv' /\ ReceiptsTrue'
    BY <1>3, QuietStep DEF InsertCommit
  <2>2. Prepared' /\ Numbered'
    <3>1. \A q \in Procs : pc'[q] \in {"validated", "ordered"} =>
            pc'[q] = pc[q] /\ job'[q] = job[q] /\ order'[q] = order[q]
      BY <1>3, <1>t DEF InsertCommit, TypeOK
    <3> QED BY <1>3, <3>1, QuietJobs DEF InsertCommit
  <2> QED BY <2>1, <2>2 DEF CommitInv
<1>4. CASE InsertCommit(p) /\ ~Collides(job[p])
  <2>1. /\ pc[p] = "ordered" /\ pc'[p] = "idle" /\ job' = job
        /\ \A q \in Procs : q # p => pc'[q] = pc[q] /\ order'[q] = order[q]
    BY <1>4, <1>t DEF InsertCommit, TypeOK
  <2>2. /\ entries' = entries \cup EntriesOf(job[p], order[p])
        /\ receipts' = receipts \cup {ReceiptOf(job[p], order[p])}
    BY <1>4 DEF InsertCommit
  <2> QED BY <1>4, <2>1, <2>2, TransactionPreserves
<1>5. CASE Fail(p)
  <2>1. LedgerInv' /\ ReceiptsTrue'
    BY <1>5, QuietStep DEF Fail
  <2>2. Prepared' /\ Numbered'
    <3>1. \A q \in Procs : pc'[q] \in {"validated", "ordered"} =>
            pc'[q] = pc[q] /\ job'[q] = job[q] /\ order'[q] = order[q]
      BY <1>5, <1>t DEF Fail, TypeOK
    <3> QED BY <1>5, <3>1, QuietJobs DEF Fail
  <2> QED BY <2>1, <2>2 DEF CommitInv
<1>6. CASE InsertUnanswered(p)
  <2>1. /\ pc[p] = "ordered" /\ pc'[p] = "idle" /\ job' = job /\ receipts' = receipts
        /\ ~Collides(job[p])
        /\ entries' = entries \cup EntriesOf(job[p], order[p])
        /\ \A q \in Procs : q # p => pc'[q] = pc[q] /\ order'[q] = order[q]
    BY <1>6, <1>t DEF InsertUnanswered, TypeOK
  <2> QED BY <2>1, TransactionPreserves
<1> QED BY <1>1, <1>2, <1>3, <1>4, <1>5, <1>6 DEF AppendStep

\* A step that changes no entry and no process that is past its check
LEMMA IdleStepPreserves ==
    ASSUME CommitInv, TypeOK', entries' = entries, receipts' = receipts,
           \A p \in Procs :
               pc'[p] \in {"validated", "ordered"} =>
                   pc'[p] = pc[p] /\ job'[p] = job[p] /\ order'[p] = order[p]
    PROVE  CommitInv'
<1>1. LedgerInv' /\ ReceiptsTrue'
  BY QuietStep
<1>2. Prepared' /\ Numbered'
  BY QuietJobs
<1> QED BY <1>1, <1>2 DEF CommitInv

\* A retry of a known commit keeps the invariant.
LEMMA AppendKnownPreserves ==
    ASSUME CommitInv, TypeOK', NEW p \in Procs, NEW c \in Commit, AppendKnown(p, c)
    PROVE  CommitInv'
<1>1. PICK e \in Of(c) : StoredReceipt(c) = ReceiptOf(c, e.order)
  BY StoredReceiptTrue DEF AppendKnown, CommitInv, LedgerInv
<1>2. entries' = entries
  BY DEF AppendKnown
<1>3. LedgerInv'
  BY <1>2 DEF CommitInv, LedgerInv, StreamContiguous, CommitAtomic, GlobalOrderKeepsStreamOrder,
              OrdersDense, Orders, Sequences, ReadStream, Of
<1>4. ReceiptsTrue'
  <2> SUFFICES ASSUME NEW r \in receipts'
               PROVE  \E x \in Of(r.commit)' : r = ReceiptOf(x.commit, x.order)
    BY DEF ReceiptsTrue, ReceiptOf
  <2>1. CASE r \in receipts
    BY <2>1, <1>2 DEF CommitInv, ReceiptsTrue, Of
  <2>2. CASE r = StoredReceipt(c)
    <3>1. r.commit = c
      BY <2>2, <1>1 DEF ReceiptOf
    <3>2. e.commit = c /\ e \in Of(r.commit)'
      BY <1>1, <1>2, <3>1 DEF Of
    <3> QED BY <1>1, <2>2, <3>2
  <2> QED BY <2>1, <2>2 DEF AppendKnown
<1>5. Prepared' /\ Numbered'
  <2>1. \A q \in Procs : pc'[q] \in {"validated", "ordered"} =>
            pc'[q] = pc[q] /\ job'[q] = job[q] /\ order'[q] = order[q]
    BY DEF AppendKnown, Finish, CommitInv, LedgerInv, TypeOK
  <2> QED BY <1>2, <2>1, QuietJobs
<1> QED BY <1>3, <1>4, <1>5 DEF CommitInv

\* The empty ledger satisfies the invariant.
LEMMA InvInit == Init => CommitInv
<1> SUFFICES ASSUME Init PROVE CommitInv
  OBVIOUS
<1>1. TypeOK
  BY DEF Init, TypeOK
<1>2. OrdersDense
  <2>1. Orders = {}
    BY DEF Init, Orders
  <2>2. 0..(-1) = {}
    OBVIOUS
  <2> QED BY <2>1, <2>2 DEF OrdersDense
<1>3. StreamContiguous
  <2>1. \A s \in Streams : ReadStream(s) = {} /\ Sequences(s) = {}
    BY DEF Init, ReadStream, Sequences
  <2>2. 1..0 = {} /\ 0 \in 0..MaxSeq
    BY CommitAssumption
  <2> QED BY <2>1, <2>2 DEF StreamContiguous
<1>4. CommitAtomic /\ GlobalOrderKeepsStreamOrder /\ ReceiptsTrue
  BY DEF Init, CommitAtomic, GlobalOrderKeepsStreamOrder, ReceiptsTrue
<1>5. Prepared /\ Numbered
  BY DEF Init, Prepared, Numbered
<1> QED BY <1>1, <1>2, <1>3, <1>4, <1>5 DEF CommitInv, LedgerInv

\* Every step keeps the invariant.
LEMMA InvStep == CommitInv /\ [Next]_vars => CommitInv'
<1> SUFFICES ASSUME CommitInv, [Next]_vars PROVE CommitInv'
  OBVIOUS
<1>t. TypeOK'
  BY TypeInductive DEF CommitInv, LedgerInv
<1>1. ASSUME NEW p \in Procs, NEW c \in Commit, AppendKnown(p, c) PROVE CommitInv'
  BY <1>1, <1>t, AppendKnownPreserves
<1>2. ASSUME NEW p \in Procs, NEW c \in Commit, AppendMemory(p, c) PROVE CommitInv'
  BY <1>2, <1>t, AppendMemoryPreserves
<1>3. ASSUME NEW p \in Procs, NEW c \in Commit, CheckNew(p, c) PROVE CommitInv'
  <2>1. \A q \in Procs : pc'[q] \in {"validated", "ordered"} =>
            pc'[q] = pc[q] /\ job'[q] = job[q] /\ order'[q] = order[q]
    BY <1>3 DEF CheckNew, CommitInv, LedgerInv, TypeOK
  <2> QED BY <1>3, <1>t, <2>1, IdleStepPreserves DEF CheckNew
<1>4. ASSUME NEW p \in Procs, AppendStep(p) PROVE CommitInv'
  BY <1>4, <1>t, AppendStepPreserves
<1>5. CASE Replay
  BY <1>5, <1>t, IdleStepPreserves DEF Replay
<1>6. CASE UNCHANGED vars
  BY <1>6, <1>t, IdleStepPreserves DEF vars
<1> QED BY <1>1, <1>2, <1>3, <1>4, <1>5, <1>6 DEF Next

-----------------------------------------------------------------------------
(* The theorems *)

\* The invariant of both backends, for any number of processes and streams.
THEOREM CommitInvariant == Spec => []CommitInv
<1>1. Init => CommitInv
  BY InvInit
<1>2. CommitInv /\ [Next]_vars => CommitInv'
  BY InvStep
<1> QED BY <1>1, <1>2, PTL DEF Spec

\* Every variable of append and replay keeps its type.
THEOREM TypeCorrect == Spec => []TypeOK
BY CommitInvariant, PTL DEF CommitInv, LedgerInv

\* Streams stay contiguous under concurrent SQLiteLedger.append calls whose
\* MAX(sequence) is stale by the time they INSERT.
THEOREM StreamsAreContiguous == Spec => []StreamContiguous
BY CommitInvariant, PTL DEF CommitInv, LedgerInv

\* No interleaving and no crash leaves part of a commit in the ledger.
THEOREM CommitsAreAtomic == Spec => []CommitAtomic
BY CommitInvariant, PTL DEF CommitInv, LedgerInv

\* A receipt, once given, stays true; a retry gets the same one.
THEOREM ReceiptsStayTrue == Spec => []ReceiptsTrue
BY CommitInvariant, PTL DEF CommitInv

\* Global replay never reorders a stream, although two commits of different
\* streams may share a global_order.
THEOREM ReplayKeepsStreamOrder == Spec => []GlobalOrderKeepsStreamOrder
BY CommitInvariant, PTL DEF CommitInv, LedgerInv

-----------------------------------------------------------------------------
(* What MemoryLedger adds: its append is one step, so a new commit comes    *)
(* after everything a replay has seen.                                      *)

AtomicInv ==
    /\ \A p \in Procs : pc[p] = "idle"
    /\ TotalOrder
    /\ BoundaryReproducible
    /\ replayed.entries # {} => replayed.boundary < NextGlobalOrder

\* With an atomic append every step keeps the orders distinct and the boundaries reproducible.
LEMMA AtomicStep ==
    ASSUME Atomic, CommitInv, CommitInv', AtomicInv, [Next]_vars
    PROVE  AtomicInv'
<1>n. NextGlobalOrder \in Nat /\ Orders = 0..(NextGlobalOrder - 1)
  BY NextIsBeyond DEF CommitInv, LedgerInv
<1>t. TypeOK /\ replayed.boundary \in Int
  BY DEF CommitInv, LedgerInv, TypeOK
<1>1. ASSUME NEW p \in Procs, NEW c \in Commit, AppendKnown(p, c) PROVE AtomicInv'
  BY <1>1, <1>t DEF AppendKnown, Finish, TypeOK, AtomicInv, TotalOrder, BoundaryReproducible,
                    ReplayTo, NextGlobalOrder, Orders
<1>2. ASSUME NEW p \in Procs, NEW c \in Commit, AppendMemory(p, c) PROVE AtomicInv'
  <2>1. \A q \in Procs : pc'[q] = "idle"
    BY <1>2, <1>t DEF AppendMemory, Finish, TypeOK, AtomicInv
  <2>2. CASE ~Follows(c)
    BY <1>2, <2>1, <2>2 DEF AppendMemory, AtomicInv, TotalOrder, BoundaryReproducible,
                            ReplayTo, NextGlobalOrder, Orders
  <2>3. CASE Follows(c)
    <3>1. entries' = entries \cup EntriesOf(c, NextGlobalOrder) /\ replayed' = replayed
      BY <1>2, <2>3 DEF AppendMemory
    <3>2. \A e \in entries : e.order \in Nat /\ e.order < NextGlobalOrder
      BY EntriesBefore DEF CommitInv
    <3>3. \A e \in EntriesOf(c, NextGlobalOrder) : e.order = NextGlobalOrder /\ e.commit = c
      BY DEF EntriesOf
    <3>4. TotalOrder'
      BY <1>n, <3>1, <3>2, <3>3 DEF AtomicInv, TotalOrder
    <3>5. BoundaryReproducible'
      <4> SUFFICES ASSUME replayed.entries # {}
                   PROVE  ReplayTo(replayed.boundary)' = replayed.entries
        BY <3>1 DEF BoundaryReproducible
      <4>1. replayed.boundary < NextGlobalOrder /\ ReplayTo(replayed.boundary) = replayed.entries
        BY DEF AtomicInv, BoundaryReproducible
      <4>2. \A e \in EntriesOf(c, NextGlobalOrder) : ~(e.order <= replayed.boundary)
        BY <4>1, <3>3, <1>n, <1>t
      <4> QED BY <3>1, <4>1, <4>2 DEF ReplayTo
    <3>6. NextGlobalOrder <= NextGlobalOrder' /\ NextGlobalOrder' \in Nat
      <4>1. NextGlobalOrder' \in Nat /\ Orders' = 0..(NextGlobalOrder' - 1)
        BY NextIsBeyond DEF CommitInv, LedgerInv
      <4>2. c.first \in c.first..(c.first + c.len - 1)
        BY CommitFields
      <4>3. PICK e \in EntriesOf(c, NextGlobalOrder) : e.order = NextGlobalOrder
        BY <4>2, EntryAt
      <4>4. NextGlobalOrder \in Orders'
        BY <3>1, <4>3 DEF Orders
      <4>5. \A a, b \in Nat : a \in 0..(b - 1) => a <= b
        OBVIOUS
      <4> QED BY <1>n, <4>1, <4>4, <4>5
    <3> QED BY <2>1, <3>1, <3>4, <3>5, <3>6, <1>n, <1>t DEF AtomicInv
  <2> QED BY <2>2, <2>3
<1>3. ASSUME NEW p \in Procs, NEW c \in Commit, CheckNew(p, c) PROVE FALSE
  BY <1>3 DEF CheckNew
<1>4. ASSUME NEW p \in Procs, AppendStep(p) PROVE FALSE
  BY <1>4 DEF AppendStep, CheckSequence, ReadOrder, InsertCommit, Fail, InsertUnanswered, AtomicInv
<1>5. CASE Replay
  <2>1. /\ entries' = entries /\ pc' = pc
        /\ replayed'.entries = entries /\ replayed'.boundary = Boundary(entries)
    BY <1>5 DEF Replay
  <2>2. TotalOrder' /\ (\A p \in Procs : pc'[p] = "idle")
    BY <2>1 DEF AtomicInv, TotalOrder
  <2>3. NextGlobalOrder' = NextGlobalOrder
    BY <2>1 DEF NextGlobalOrder, Orders
  <2>4. ASSUME entries # {} PROVE Boundary(entries) = NextGlobalOrder - 1
    <3>1. Orders # {}
      BY <2>4 DEF Orders
    <3>2. Largest(Orders) = NextGlobalOrder - 1
      BY <3>1, <1>n, LargestOfInterval
    <3> QED BY <2>4, <3>2 DEF Boundary, Orders
  <2>5. ASSUME entries # {} PROVE ReplayTo(NextGlobalOrder - 1) = entries
    <3>1. \A e \in entries : e.order \in Nat /\ e.order < NextGlobalOrder
      BY EntriesBefore DEF CommitInv
    <3> QED BY <3>1, <1>n DEF ReplayTo
  <2>6. BoundaryReproducible'
    BY <2>1, <2>4, <2>5 DEF BoundaryReproducible, ReplayTo
  <2>7. replayed'.entries # {} => replayed'.boundary < NextGlobalOrder'
    BY <2>1, <2>3, <2>4, <1>n
  <2> QED BY <2>2, <2>6, <2>7 DEF AtomicInv
<1>6. CASE UNCHANGED vars
  BY <1>6 DEF vars, AtomicInv, TotalOrder, BoundaryReproducible, ReplayTo, NextGlobalOrder, Orders
<1> QED BY <1>1, <1>2, <1>3, <1>4, <1>5, <1>6 DEF Next

\* The invariant of the atomic ledger holds.
LEMMA AtomicInvariant ==
    ASSUME Atomic
    PROVE  Spec => []AtomicInv
<1>1. Init => AtomicInv
  BY DEF Init, AtomicInv, TotalOrder, BoundaryReproducible
<1>2. CommitInv /\ CommitInv' /\ AtomicInv /\ [Next]_vars => AtomicInv'
  BY AtomicStep
<1> QED BY <1>1, <1>2, CommitInvariant, PTL DEF Spec

\* With MemoryLedger every commit has a global_order of its own.
THEOREM AtomicTotalOrder ==
    ASSUME Atomic
    PROVE  Spec => []TotalOrder
BY AtomicInvariant, PTL DEF AtomicInv

\* With MemoryLedger the boundary of a replay that saw events names exactly
\* those events for ever.
THEOREM AtomicBoundary ==
    ASSUME Atomic
    PROVE  Spec => []BoundaryReproducible
BY AtomicInvariant, PTL DEF AtomicInv

=============================================================================
