------------------------- MODULE EventLedgerProofs -------------------------
(***************************************************************************)
(* Proofs about EventLedger, for any set of projects and writers and for   *)
(* both backends.                                                          *)
(***************************************************************************)
EXTENDS EventLedger, TLAPS

-----------------------------------------------------------------------------
(* The inductive invariant *)

Busy(w) == pc[w] \in {"locked", "versioned", "inserted"}

\* A transaction between its BEGIN and its end owns its project's lock.
LockHeld ==
    \A w \in Writers : Busy(w) => lock[LockOf[txn[w].project]] = w

\* Every committed number was drawn, and no version outruns its sequence.
RowBounds ==
    \A r \in rows : r.seq \in 1..counter /\ r.version \in 1..r.seq

\* The number an open transaction has drawn lies above its project's rows; if
\* numbers can be given back, it is the last one drawn of all.
PendingIsLast ==
    \A w \in Writers :
        pc[w] = "inserted" =>
            /\ txn[w].seq \in 1..counter
            /\ \A r \in rows : r.project = txn[w].project => r.seq < txn[w].seq
            /\ ~SerialSurvives =>
                  /\ txn[w].seq = counter
                  /\ \A r \in rows : r.seq < counter

\* A cursor is 0 or stands on a committed row.
CursorOnRow ==
    \A p \in Projects :
        cursor[p] # 0 => \E r \in rows : r.project = p /\ r.seq = cursor[p]

\* The inductive invariant
LedgerInv ==
    /\ TypeOK
    /\ LockHeld
    /\ RowBounds
    /\ PendingIsLast
    /\ CursorOnRow
    /\ VersionsContiguous
    /\ OrdersAgree
    /\ VersionStaysFree
    /\ NoMissedEvent

-----------------------------------------------------------------------------
(* What the queries return *)

\* An element of a set of numbers that no other exceeds is its Largest.
LEMMA LargestIs ==
    ASSUME NEW S \in SUBSET Int, NEW m \in S, \A y \in S : y <= m
    PROVE  Largest(S) = m
<1>1. \A x \in S : (\A y \in S : y <= x) => x = m
    OBVIOUS
<1> QED BY <1>1 DEF Largest

\* MAX(version) + 1 over a contiguous stream of n rows is n + 1.
LEMMA NextVersionOf ==
    ASSUME NEW p \in Projects, NEW n \in Nat, Versions(p) = 1..n
    PROVE  NextVersion(p) = n + 1
<1>1. CASE n = 0
    BY <1>1 DEF NextVersion
<1>2. CASE n # 0
    <2>1. Versions(p) # {}
        BY <1>2
    <2>2. Largest(1..n) = n
        <3>1. 1..n \in SUBSET Int /\ n \in 1..n /\ \A y \in 1..n : y <= n
            BY <1>2
        <3> QED BY <3>1, LargestIs
    <2> QED BY <2>1, <2>2 DEF NextVersion
<1> QED BY <1>1, <1>2

\* COALESCE(MAX(event_sequence), 0) is the sequence of a row of the project
\* that no other row of it exceeds: the row with the last version.
LEMMA LatestSequenceIsMax ==
    ASSUME LedgerInv, NEW p \in Projects, RowsOf(p) # {}
    PROVE  \E r \in rows : /\ r.project = p
                           /\ r.seq = GetLatestSequence(p)
                           /\ \A s \in rows : s.project = p => s.seq <= r.seq
<1> USE DEF LedgerInv, TypeOK, Row
<1>1. PICK n \in 0..counter : Versions(p) = 1..n
    BY DEF VersionsContiguous
<1>2. n # 0
    BY <1>1 DEF Versions, RowsOf
<1>3. PICK r \in rows : r.project = p /\ r.version = n
    <2>1. n \in Versions(p)
        BY <1>1, <1>2
    <2> QED BY <2>1 DEF Versions, RowsOf
<1>4. ASSUME NEW s \in rows, s.project = p
      PROVE  s.seq <= r.seq
    <2>1. s.version \in 1..n
        BY <1>1, <1>4 DEF Versions, RowsOf
    <2> QED BY <2>1, <1>3, <1>4 DEF OrdersAgree
<1> DEFINE S == {s.seq : s \in RowsOf(p)}
<1>5. r.seq \in S /\ \A y \in S : y <= r.seq
    BY <1>3, <1>4 DEF RowsOf
<1>6. S \in SUBSET Int
    BY DEF RowsOf
<1>7. Largest(S) = r.seq
    BY <1>5, <1>6, LargestIs
<1>8. GetLatestSequence(p) = r.seq
    BY <1>7 DEF GetLatestSequence
<1> QED BY <1>3, <1>4, <1>8

-----------------------------------------------------------------------------
(* The invariance proof *)

\* The empty store satisfies the invariant.
LEMMA InitLedgerInv == Init => LedgerInv
<1> SUFFICES ASSUME Init PROVE LedgerInv
    OBVIOUS
<1> USE LedgerAssumption DEF Init
<1>1. TypeOK
    BY DEF TypeOK, Row, EmptyTxn
<1>2. \A p \in Projects : Versions(p) = 1..0
    BY DEF Versions, RowsOf
<1>3. VersionsContiguous
    BY <1>2 DEF VersionsContiguous
<1> QED BY <1>1, <1>3
    DEF LedgerInv, LockHeld, Busy, RowBounds, PendingIsLast, CursorOnRow,
        OrdersAgree, VersionStaysFree, NoMissedEvent, RowsOf

\* Two open transactions on one project, or on any two projects when numbers
\* can be given back, are the same transaction.
LEMMA OneTransaction ==
    ASSUME LedgerInv, NEW v \in Writers, NEW w \in Writers, Busy(v), Busy(w),
           txn[v].project = txn[w].project \/ ~SerialSurvives
    PROVE  v = w
<1>1. LockOf[txn[v].project] = LockOf[txn[w].project]
    BY LedgerAssumption DEF LedgerInv, TypeOK, Row
<1> QED BY <1>1 DEF LedgerInv, LockHeld

\* The facts about a project's rows are untouched by a step that keeps rows.
LEMMA SameRows ==
    ASSUME rows' = rows
    PROVE  \A p \in Projects : /\ RowsOf(p)' = RowsOf(p)
                               /\ Versions(p)' = Versions(p)
                               /\ NextVersion(p)' = NextVersion(p)
BY DEF RowsOf, Versions, NextVersion

\* Taking the project's lock keeps the invariant.
LEMMA BeginPreserves ==
    ASSUME LedgerInv, NEW w \in Writers, NEW p \in Projects, BeginAppend(w, p)
    PROVE  LedgerInv'
<1> USE LedgerAssumption DEF LedgerInv, TypeOK, BeginAppend, EmptyTxn
<1>0. \A q \in Projects : Versions(q)' = Versions(q) /\ NextVersion(q)' = NextVersion(q)
    BY SameRows
<1>1. TypeOK'
    BY DEF Row
<1>2. LockHeld'
    <2> SUFFICES ASSUME NEW v \in Writers, Busy(v)'
                 PROVE  lock'[LockOf[txn'[v].project]] = v
        BY DEF LockHeld
    <2>1. CASE v = w
        BY <2>1
    <2>2. CASE v # w
        <3>1. Busy(v) /\ txn'[v] = txn[v]
            BY <2>2 DEF Busy
        <3>2. lock[LockOf[txn[v].project]] = v
            BY <3>1 DEF LockHeld
        <3>3. LockOf[txn[v].project] # LockOf[p]
            BY <3>2
        <3> QED BY <3>1, <3>2, <3>3
    <2> QED BY <2>1, <2>2
<1>3. RowBounds' /\ CursorOnRow' /\ OrdersAgree' /\ NoMissedEvent'
    BY DEF RowBounds, CursorOnRow, OrdersAgree, NoMissedEvent, RowsOf
<1>4. VersionsContiguous'
    BY <1>0 DEF VersionsContiguous
<1>5. \A v \in Writers : pc'[v] \in {"versioned", "inserted"} =>
                            v # w /\ pc'[v] = pc[v] /\ txn'[v] = txn[v]
    OBVIOUS
<1>6. PendingIsLast'
    BY <1>5 DEF PendingIsLast
<1>7. VersionStaysFree'
    BY <1>0, <1>5 DEF VersionStaysFree, Row
<1> QED BY <1>1, <1>2, <1>3, <1>4, <1>6, <1>7

\* Reading the version while holding the lock
LEMMA ReadVersionPreserves ==
    ASSUME LedgerInv, NEW w \in Writers, ReadVersion(w)
    PROVE  LedgerInv'
<1> USE LedgerAssumption DEF LedgerInv, TypeOK, ReadVersion
<1>0. \A q \in Projects : Versions(q)' = Versions(q) /\ NextVersion(q)' = NextVersion(q)
    BY SameRows
<1>1. txn[w].project \in Projects
    BY DEF Row
<1>2. PICK n \in 0..counter : Versions(txn[w].project) = 1..n
    BY <1>1 DEF VersionsContiguous
<1>3. NextVersion(txn[w].project) = n + 1
    BY <1>1, <1>2, NextVersionOf
<1>4. TypeOK'
    BY <1>3 DEF Row
<1>5. \A v \in Writers : txn'[v].project = txn[v].project /\ txn'[v].seq = txn[v].seq
    BY DEF Row
<1>6. LockHeld'
    BY <1>5 DEF LockHeld, Busy
<1>7. RowBounds' /\ CursorOnRow' /\ OrdersAgree' /\ NoMissedEvent'
    BY DEF RowBounds, CursorOnRow, OrdersAgree, NoMissedEvent, RowsOf
<1>8. VersionsContiguous'
    BY <1>0 DEF VersionsContiguous
<1>9. PendingIsLast'
    BY <1>5 DEF PendingIsLast
<1>10. VersionStaysFree'
    <2> SUFFICES ASSUME NEW v \in Writers, pc'[v] \in {"versioned", "inserted"}
                 PROVE  txn'[v].version = NextVersion(txn[v].project)
        BY <1>0, <1>5 DEF VersionStaysFree, Row
    <2>1. CASE v = w
        BY <2>1 DEF Row
    <2>2. CASE v # w
        BY <2>2 DEF VersionStaysFree
    <2> QED BY <2>1, <2>2
<1> QED BY <1>4, <1>6, <1>7, <1>8, <1>9, <1>10

\* Drawing a number: it exceeds everything committed so far
LEMMA InsertPreserves ==
    ASSUME LedgerInv, NEW w \in Writers, InsertRow(w)
    PROVE  LedgerInv'
<1> USE LedgerAssumption DEF LedgerInv, TypeOK, InsertRow
<1>0. \A q \in Projects : Versions(q)' = Versions(q) /\ NextVersion(q)' = NextVersion(q)
    BY SameRows
<1>1. TypeOK'
    BY DEF Row
<1>2. \A v \in Writers : txn'[v].project = txn[v].project /\ txn'[v].version = txn[v].version
    BY DEF Row
<1>3. LockHeld'
    BY <1>2 DEF LockHeld, Busy
<1>4. RowBounds' /\ CursorOnRow' /\ OrdersAgree' /\ NoMissedEvent'
    BY DEF RowBounds, CursorOnRow, OrdersAgree, NoMissedEvent, RowsOf
<1>5. VersionsContiguous'
    <2> SUFFICES ASSUME NEW p \in Projects
                 PROVE  \E n \in 0..counter' : Versions(p) = 1..n
        BY <1>0 DEF VersionsContiguous
    <2>1. PICK n \in 0..counter : Versions(p) = 1..n
        BY DEF VersionsContiguous
    <2>2. n \in 0..counter'
        OBVIOUS
    <2> QED BY <2>1, <2>2
<1>6. PendingIsLast'
    <2> SUFFICES ASSUME NEW v \in Writers, pc'[v] = "inserted"
                 PROVE  /\ txn'[v].seq \in 1..counter'
                        /\ \A r \in rows : r.project = txn[v].project => r.seq < txn'[v].seq
                        /\ ~SerialSurvives => /\ txn'[v].seq = counter'
                                              /\ \A r \in rows : r.seq < counter'
        BY <1>2 DEF PendingIsLast
    <2>1. CASE v = w
        <3>1. txn'[v].seq = counter + 1
            BY <2>1 DEF Row
        <3>2. \A r \in rows : r.seq \in 1..counter
            BY DEF RowBounds
        <3> QED BY <3>1, <3>2
    <2>2. CASE v # w
        <3>1. txn'[v] = txn[v] /\ pc[v] = "inserted"
            BY <2>2
        <3>2. SerialSurvives
            BY <2>2, <3>1, OneTransaction DEF Busy
        <3> QED BY <3>1, <3>2 DEF PendingIsLast, Row
    <2> QED BY <2>1, <2>2
<1>7. VersionStaysFree'
    BY <1>0, <1>2 DEF VersionStaysFree, Row
<1> QED BY <1>1, <1>3, <1>4, <1>5, <1>6, <1>7

\* Giving up: with a sequence that is rolled back, the number given back is
\* the last one drawn and no row carries it
LEMMA RollbackPreserves ==
    ASSUME LedgerInv, NEW w \in Writers, RollbackAppend(w)
    PROVE  LedgerInv'
<1> USE LedgerAssumption DEF LedgerInv, TypeOK, RollbackAppend
<1>0. \A q \in Projects : Versions(q)' = Versions(q) /\ NextVersion(q)' = NextVersion(q)
    BY SameRows
<1>1. counter' \in Nat /\ \A r \in rows : r.seq <= counter'
    <2>1. CASE pc[w] = "inserted" /\ ~SerialSurvives
        BY <2>1 DEF PendingIsLast, RowBounds, Row
    <2>2. CASE ~(pc[w] = "inserted" /\ ~SerialSurvives)
        BY <2>2 DEF RowBounds, Row
    <2> QED BY <2>1, <2>2
<1>2. TypeOK'
    BY <1>1
<1>3. \A v \in Writers : Busy(v)' => v # w /\ Busy(v) /\ pc'[v] = pc[v]
    BY DEF Busy
<1>4. LockHeld'
    <2> SUFFICES ASSUME NEW v \in Writers, Busy(v)'
                 PROVE  lock'[LockOf[txn[v].project]] = v
        BY DEF LockHeld
    <2>1. lock[LockOf[txn[v].project]] = v /\ lock[LockOf[txn[w].project]] = w /\ v # w
        BY <1>3 DEF LockHeld, Busy
    <2>2. LockOf[txn[v].project] \in LockKeys
        BY DEF Row
    <2> QED BY <2>1, <2>2
<1>5. RowBounds'
    BY <1>1 DEF RowBounds, Row
<1>6. CursorOnRow' /\ OrdersAgree' /\ NoMissedEvent'
    BY DEF CursorOnRow, OrdersAgree, NoMissedEvent, RowsOf
<1>7. VersionsContiguous'
    <2> SUFFICES ASSUME NEW p \in Projects
                 PROVE  \E n \in 0..counter' : Versions(p) = 1..n
        BY <1>0 DEF VersionsContiguous
    <2>1. PICK n \in 0..counter : Versions(p) = 1..n
        BY DEF VersionsContiguous
    <2>2. n <= counter'
        <3>1. CASE n = 0
            BY <1>1, <3>1
        <3>2. CASE n # 0
            <4>1. n \in Versions(p)
                BY <2>1, <3>2
            <4>2. PICK r \in rows : r.version = n
                BY <4>1 DEF Versions, RowsOf
            <4> QED BY <1>1, <4>2 DEF RowBounds, Row
        <3> QED BY <3>1, <3>2
    <2>3. n \in 0..counter'
        BY <1>1, <2>2
    <2> QED BY <2>1, <2>3
<1>8. PendingIsLast'
    <2> SUFFICES ASSUME NEW v \in Writers, pc'[v] = "inserted"
                 PROVE  counter' = counter
        BY <1>3 DEF PendingIsLast, Busy
    <2>1. v # w /\ Busy(v) /\ Busy(w)
        BY <1>3 DEF Busy
    <2> QED BY <2>1, OneTransaction
<1>9. VersionStaysFree'
    BY <1>0, <1>3 DEF VersionStaysFree, Busy, Row
<1> QED BY <1>2, <1>4, <1>5, <1>6, <1>7, <1>8, <1>9

\* Publishing the row: it becomes the last one of its project in both orders
LEMMA CommitPreserves ==
    ASSUME LedgerInv, NEW w \in Writers, CommitAppend(w)
    PROVE  LedgerInv'
<1> DEFINE t == txn[w]
<1> USE LedgerAssumption DEF LedgerInv, TypeOK, CommitAppend
<1>1. t \in Row /\ t.project \in Projects /\ t.seq \in 1..counter
    BY DEF PendingIsLast, Row
<1>2. TypeOK'
    BY <1>1
<1>3. \A v \in Writers : Busy(v)' => v # w /\ Busy(v) /\ pc'[v] = pc[v]
    BY DEF Busy
<1>4. LockHeld'
    <2> SUFFICES ASSUME NEW v \in Writers, Busy(v)'
                 PROVE  lock'[LockOf[txn[v].project]] = v
        BY DEF LockHeld
    <2>1. lock[LockOf[txn[v].project]] = v /\ lock[LockOf[txn[w].project]] = w /\ v # w
        BY <1>3 DEF LockHeld, Busy
    <2>2. LockOf[txn[v].project] \in LockKeys
        BY DEF Row
    <2> QED BY <2>1, <2>2
<1>5. PICK n \in 0..counter : Versions(t.project) = 1..n
    BY <1>1 DEF VersionsContiguous
<1>6. t.version = n + 1
    <2>1. NextVersion(t.project) = n + 1
        BY <1>1, <1>5, NextVersionOf
    <2> QED BY <2>1 DEF VersionStaysFree
<1>7. \A r \in rows : r.project = t.project => r.seq < t.seq /\ r.version \in 1..n
    BY <1>5 DEF PendingIsLast, Versions, RowsOf
<1>8. t.version \in 1..t.seq
    <2>1. CASE n = 0
        BY <1>1, <1>6, <2>1
    <2>2. CASE n # 0
        <3>1. n \in Versions(t.project)
            BY <1>5, <2>2
        <3>2. PICK r \in rows : r.project = t.project /\ r.version = n
            BY <3>1 DEF Versions, RowsOf
        <3>3. r.seq < t.seq /\ n <= r.seq /\ r.seq \in Nat
            BY <1>7, <3>2 DEF RowBounds, Row
        <3> QED BY <1>1, <1>6, <3>3
    <2> QED BY <2>1, <2>2
<1>9. RowBounds'
    BY <1>1, <1>8 DEF RowBounds
<1>10. CursorOnRow'
    BY DEF CursorOnRow
<1>11. Versions(t.project)' = 1..(n + 1)
    <2>1. Versions(t.project)' = Versions(t.project) \cup {t.version}
        BY <1>1 DEF Versions, RowsOf
    <2> QED BY <2>1, <1>5, <1>6
<1>12. ASSUME NEW p \in Projects, p # t.project
       PROVE  Versions(p)' = Versions(p) /\ NextVersion(p)' = NextVersion(p)
    <2>1. RowsOf(p)' = RowsOf(p)
        BY <1>1, <1>12 DEF RowsOf
    <2> QED BY <2>1 DEF Versions, NextVersion
<1>13. VersionsContiguous'
    <2> SUFFICES ASSUME NEW p \in Projects
                 PROVE  \E m \in 0..counter : Versions(p)' = 1..m
        BY DEF VersionsContiguous
    <2>1. CASE p = t.project
        <3>1. n + 1 \in 0..counter
            BY <1>1, <1>6, <1>8
        <3> QED BY <2>1, <1>11, <3>1
    <2>2. CASE p # t.project
        BY <2>2, <1>12 DEF VersionsContiguous
    <2> QED BY <2>1, <2>2
<1>14. OrdersAgree'
    <2> SUFFICES ASSUME NEW r \in rows \cup {t}, NEW s \in rows \cup {t},
                        r.project = s.project
                 PROVE  /\ r.seq < s.seq <=> r.version < s.version
                        /\ r.seq = s.seq => r = s
        BY DEF OrdersAgree
    <2>1. CASE r \in rows /\ s \in rows
        BY <2>1 DEF OrdersAgree
    <2>2. CASE r \in rows /\ s = t
        BY <2>2, <1>1, <1>6, <1>7 DEF Row
    <2>3. CASE r = t /\ s \in rows
        BY <2>3, <1>1, <1>6, <1>7 DEF Row
    <2>4. CASE r = t /\ s = t
        BY <2>4, <1>1, <1>6
    <2> QED BY <2>1, <2>2, <2>3, <2>4
<1>15. PendingIsLast'
    <2> SUFFICES ASSUME NEW v \in Writers, pc'[v] = "inserted"
                 PROVE  /\ txn[v].seq \in 1..counter
                        /\ \A r \in rows \cup {t} :
                              r.project = txn[v].project => r.seq < txn[v].seq
                        /\ ~SerialSurvives => /\ txn[v].seq = counter
                                              /\ \A r \in rows \cup {t} : r.seq < counter
        BY DEF PendingIsLast
    <2>1. v # w /\ pc[v] = "inserted" /\ Busy(v) /\ Busy(w)
        BY <1>3 DEF Busy
    <2>2. txn[v].project # t.project /\ SerialSurvives
        BY <2>1, OneTransaction
    <2> QED BY <2>1, <2>2 DEF PendingIsLast
<1>16. VersionStaysFree'
    <2> SUFFICES ASSUME NEW v \in Writers, pc'[v] \in {"versioned", "inserted"}
                 PROVE  txn[v].version = NextVersion(txn[v].project)'
        BY DEF VersionStaysFree
    <2>1. v # w /\ Busy(v) /\ Busy(w) /\ pc[v] = pc'[v]
        BY <1>3 DEF Busy
    <2>2. txn[v].project # t.project /\ txn[v].project \in Projects
        BY <2>1, OneTransaction DEF Row
    <2> QED BY <2>1, <2>2, <1>12 DEF VersionStaysFree
<1>17. NoMissedEvent'
    <2> SUFFICES ASSUME NEW p \in Projects, NEW r \in rows \cup {t}, r.project = p,
                        r.seq <= cursor[p]
                 PROVE  r \in seen[p]
        BY DEF NoMissedEvent, RowsOf
    <2>1. CASE r \in rows
        BY <2>1 DEF NoMissedEvent, RowsOf
    <2>2. CASE r = t
        <3>1. cursor[p] # 0
            BY <1>1, <2>2
        <3>2. PICK s \in rows : s.project = p /\ s.seq = cursor[p]
            BY <3>1 DEF CursorOnRow
        <3> QED BY <1>1, <1>7, <2>2, <3>2 DEF Row
    <2> QED BY <2>1, <2>2
<1> QED BY <1>2, <1>4, <1>9, <1>10, <1>13, <1>14, <1>15, <1>16, <1>17

\* Reading on: the cursor moves to the last row of the project
LEMMA FollowPreserves ==
    ASSUME LedgerInv, NEW p \in Projects, Follow(p)
    PROVE  LedgerInv'
<1> USE DEF Follow, ledgerVars
<1>0. \A q \in Projects : Versions(q)' = Versions(q) /\ NextVersion(q)' = NextVersion(q)
    BY SameRows
<1>1. RowsOf(p) # {}
    BY DEF GetProjectStream
<1>2. PICK r \in rows : /\ r.project = p
                        /\ r.seq = GetLatestSequence(p)
                        /\ \A s \in rows : s.project = p => s.seq <= r.seq
    BY <1>1, LatestSequenceIsMax
<1> USE DEF LedgerInv, TypeOK
<1>3. TypeOK'
    BY <1>2 DEF Row, GetProjectStream, RowsOf
<1>4. LockHeld' /\ RowBounds' /\ PendingIsLast' /\ OrdersAgree'
    BY DEF LockHeld, Busy, RowBounds, PendingIsLast, OrdersAgree
<1>5. VersionsContiguous'
    BY <1>0 DEF VersionsContiguous
<1>6. VersionStaysFree'
    BY <1>0 DEF VersionStaysFree, Row
<1>7. CursorOnRow'
    BY <1>2 DEF CursorOnRow
<1>8. NoMissedEvent'
    BY <1>2 DEF NoMissedEvent, GetProjectStream, RowsOf, Row
<1> QED BY <1>3, <1>4, <1>5, <1>6, <1>7, <1>8

\* LedgerInv is inductive: every append_event interleaving and every read keeps it.
THEOREM LedgerInvariant == Spec => []LedgerInv
<1>1. Init => LedgerInv
    BY InitLedgerInv
<1>2. LedgerInv /\ [Next]_vars => LedgerInv'
    <2> SUFFICES ASSUME LedgerInv, [Next]_vars PROVE LedgerInv'
        OBVIOUS
    <2>1. ASSUME NEW w \in Writers, NEW p \in Projects, BeginAppend(w, p)
          PROVE  LedgerInv'
        BY <2>1, BeginPreserves
    <2>2. ASSUME NEW w \in Writers, WriterStep(w)
          PROVE  LedgerInv'
        BY <2>2, ReadVersionPreserves, InsertPreserves, CommitPreserves,
           RollbackPreserves DEF WriterStep
    <2>3. ASSUME NEW p \in Projects, Follow(p)
          PROVE  LedgerInv'
        BY <2>3, FollowPreserves
    <2>4. CASE UNCHANGED vars
        <3>1. \A q \in Projects : Versions(q)' = Versions(q) /\ NextVersion(q)' = NextVersion(q)
            BY <2>4, SameRows DEF vars
        <3> QED BY <2>4, <3>1 DEF vars, LedgerInv, TypeOK, LockHeld, Busy, RowBounds,
                PendingIsLast, CursorOnRow, OrdersAgree, NoMissedEvent, RowsOf,
                VersionsContiguous, VersionStaysFree, Row
    <2> QED BY <2>1, <2>2, <2>3, <2>4 DEF Next
<1> QED BY <1>1, <1>2, PTL DEF Spec

-----------------------------------------------------------------------------
(* What the ledger promises *)

\* Type correctness of the ledger under append_event and its readers.
THEOREM TypeCorrect == Spec => []TypeOK
BY LedgerInvariant, PTL DEF LedgerInv

\* append_event hands out the versions 1, 2, ... of a project without gap or
\* repetition, whichever transactions fail.
THEOREM NoVersionGap == Spec => []VersionsContiguous
BY LedgerInvariant, PTL DEF LedgerInv

\* Replay by event_sequence is replay by version.
THEOREM OneOrder == Spec => []OrdersAgree
BY LedgerInvariant, PTL DEF LedgerInv

\* The UNIQUE (project_id, version) constraint never rejects an append.
THEOREM UniqueNeverFires == Spec => []VersionStaysFree
BY LedgerInvariant, PTL DEF LedgerInv

\* get_project_stream(project, since_sequence) is a safe way to read on: no
\* event appears below a sequence already read.
THEOREM CursorIsSafe == Spec => []NoMissedEvent
BY LedgerInvariant, PTL DEF LedgerInv

-----------------------------------------------------------------------------
(* The ledger implements ProjectStream *)

\* Every step of the ledger is a ProjectStream append or leaves all streams
\* alone.
THEOREM LedgerImplementsStream == Spec => ImplementsStream
<1> DEFINE st == [p \in Projects |-> {r.seq : r \in RowsOf(p)}]
<1>1. Init => Stream!Init
    BY DEF Init, Stream!Init, RowsOf
<1>2. LedgerInv /\ [Next]_vars => [Stream!Next]_st
    <2> SUFFICES ASSUME LedgerInv, [Next]_vars PROVE [Stream!Next]_st
        OBVIOUS
    <2>1. CASE rows' = rows
        BY <2>1 DEF RowsOf
    <2>2. ASSUME NEW w \in Writers, CommitAppend(w) PROVE Stream!Next
        <3> DEFINE q == txn[w].project
                   n == txn[w].seq
        <3>1. rows' = rows \cup {txn[w]} /\ q \in Projects /\ n \in Nat
            BY <2>2 DEF CommitAppend, LedgerInv, TypeOK, Row
        <3>2. \A e \in st[q] : e < n
            BY <2>2, <3>1 DEF CommitAppend, LedgerInv, PendingIsLast, RowsOf
        <3>3. \A p \in Projects : st'[p] = IF p = q THEN st[p] \cup {n} ELSE st[p]
            BY <3>1 DEF RowsOf
        <3>4. st' = [st EXCEPT ![q] = @ \cup {n}]
            BY <3>1, <3>3
        <3>5. n \in st'[q]
            BY <3>1, <3>3
        <3> QED BY <3>1, <3>2, <3>4, <3>5 DEF Stream!Next, Stream!AppendAt
    <2>3. rows' = rows \/ \E w \in Writers : CommitAppend(w)
        BY DEF Next, WriterStep, vars, ledgerVars, BeginAppend, ReadVersion, InsertRow,
               RollbackAppend, Follow
    <2> QED BY <2>1, <2>2, <2>3
<1> QED BY <1>1, <1>2, LedgerInvariant, PTL DEF Spec, ImplementsStream, Stream!Spec

=============================================================================
