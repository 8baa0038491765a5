------------------------ MODULE ProjectRegistryProofs ------------------------
(* What the lock of ProjectRegistry guarantees for every set of processes    *)
(* and projects, whatever dies or fails: no lock is left behind by a live    *)
(* process; and until an old lock is broken, one writer at a time and no     *)
(* torn file.                                                                *)
EXTENDS ProjectRegistry, TLAPS

LockInv == TypeOK /\ LockHasOwner

\* The initial registry satisfies the invariant.
LEMMA InitLock == Init => LockInv
<1> SUFFICES ASSUME Init PROVE LockInv
  OBVIOUS
<1>1. file \in [projects : SUBSET Projects, torn : BOOLEAN]
  <2>1. PICK S \in SUBSET Projects : file = Whole(S)
    BY DEF Init
  <2> QED
    BY <2>1 DEF Whole
<1>2. pc \in [Procs -> Places] /\ mem \in [Procs -> SUBSET Projects]
  BY DEF Init, Places
<1>3. runs \in [Procs -> 0..MaxRuns]
  BY RegistryAssumption DEF Init
<1> QED
  BY <1>1, <1>2, <1>3 DEF Init, LockInv, TypeOK, LockHasOwner

\* Every step of every process preserves the types.
LEMMA NextTypes == TypeOK /\ [Next]_vars => TypeOK'
<1> SUFFICES ASSUME TypeOK, [Next]_vars PROVE TypeOK'
  OBVIOUS
<1> USE RegistryAssumption DEF TypeOK, Places, NoLock, Goto
<1>1. ASSUME NEW p \in Procs, NEW op \in Ops, NEW x \in Projects, Start(p, op, x)
      PROVE TypeOK'
  <2>1. Load(file) \subseteq Projects
    BY DEF Load
  <2>2. Changed(op, x, Load(file)) \subseteq Projects
    BY <2>1 DEF Changed
  <2>3. runs' \in [Procs -> 0..MaxRuns]
    BY <1>1 DEF Start
  <2>4. pc' \in [Procs -> Places]
    BY <1>1 DEF Start
  <2>5. mem' \in [Procs -> SUBSET Projects]
    BY <1>1, <2>2 DEF Start
  <2> QED
    BY <1>1, <2>3, <2>4, <2>5 DEF Start
<1>2. ASSUME NEW p \in Procs, MakeLock(p) PROVE TypeOK'
  BY <1>2 DEF MakeLock
<1>3. ASSUME NEW p \in Procs, Expire(p) PROVE TypeOK'
  BY <1>3 DEF Expire
<1>4. ASSUME NEW p \in Procs, CheckAge(p) PROVE TypeOK'
  BY <1>4 DEF CheckAge
<1>5. ASSUME NEW p \in Procs, BreakLock(p) PROVE TypeOK'
  BY <1>5 DEF BreakLock
<1>6. ASSUME NEW p \in Procs, Open(p) PROVE TypeOK'
  BY <1>6 DEF Open, Whole
<1>7. ASSUME NEW p \in Procs, Write(p) PROVE TypeOK'
  <2>1. mem[p] \subseteq Projects
    OBVIOUS
  <2>2. ASSUME NEW f \in Overwrite(mem[p], file)
        PROVE  f \in [projects : SUBSET Projects, torn : BOOLEAN]
    <3>1. CASE file = Whole({})
      <4>1. f = Whole(mem[p])
        BY <3>1 DEF Overwrite
      <4> QED
        BY <2>1, <4>1 DEF Whole
    <3>2. CASE f = Torn
      BY <3>2 DEF Torn
    <3>3. CASE \E tail \in SUBSET file.projects : f = Whole(mem[p] \union tail)
      BY <2>1, <3>3 DEF Whole
    <3> QED
      BY <3>1, <3>2, <3>3 DEF Overwrite
  <2>3. file' \in [projects : SUBSET Projects, torn : BOOLEAN]
    BY <1>7, <2>2 DEF Write
  <2> QED
    BY <1>7, <2>3 DEF Write
<1>8. ASSUME NEW p \in Procs, Release(p) PROVE TypeOK'
  BY <1>8 DEF Release
<1>9. ASSUME NEW p \in Procs, SaveFails(p) PROVE TypeOK'
  BY <1>9 DEF SaveFails
<1>10. ASSUME NEW p \in Procs, Crash(p) PROVE TypeOK'
  BY <1>10 DEF Crash
<1>11. CASE LockAges
  BY <1>11 DEF LockAges
<1>12. CASE UNCHANGED vars
  BY <1>12 DEF vars
<1> QED
  BY <1>1, <1>2, <1>3, <1>4, <1>5, <1>6, <1>7, <1>8, <1>9, <1>10, <1>11, <1>12
     DEF Next, SaveStep, Done

\* Every step keeps a lock's maker at work, or dead.
LEMMA NextOwner == LockInv /\ [Next]_vars => LockHasOwner'
<1> SUFFICES ASSUME LockInv, [Next]_vars PROVE LockHasOwner'
  OBVIOUS
<1> USE RegistryAssumption DEF LockInv, TypeOK, LockHasOwner, Holding, Places, NoLock, Goto
<1>1. ASSUME NEW p \in Procs, NEW op \in Ops, NEW x \in Projects, Start(p, op, x)
      PROVE LockHasOwner'
  BY <1>1 DEF Start
<1>2. ASSUME NEW p \in Procs, SaveStep(p) PROVE LockHasOwner'
  BY <1>2 DEF SaveStep, MakeLock, Expire, CheckAge, BreakLock, Open, Write, Release
<1>3. ASSUME NEW p \in Procs, SaveFails(p) \/ Crash(p) PROVE LockHasOwner'
  BY <1>3 DEF SaveFails, Crash
<1>4. CASE LockAges
  BY <1>4 DEF LockAges
<1>5. CASE UNCHANGED vars
  BY <1>5 DEF vars
<1> QED
  BY <1>1, <1>2, <1>3, <1>4, <1>5 DEF Next, Done

\* The types and the owner of the lock are invariants of the specification.
THEOREM RegistryInvariant == Spec => []LockInv
<1>1. LockInv /\ [Next]_vars => LockInv'
  BY NextTypes, NextOwner DEF LockInv
<1> QED
  BY InitLock, <1>1, PTL DEF Spec

\* Type correctness of the registry, its lock and its commands.
THEOREM TypeCorrect == Spec => []TypeOK
<1>1. LockInv => TypeOK
  BY DEF LockInv
<1> QED
  BY RegistryInvariant, <1>1, PTL

\* A lock directory never outlives its maker's save unless the maker died.
THEOREM NoOrphanLock == Spec => []LockHasOwner
<1>1. LockInv => LockHasOwner
  BY DEF LockInv
<1> QED
  BY RegistryInvariant, <1>1, PTL

-----------------------------------------------------------------------------
(* Until a lock is broken, who is between mkdir and rmdir is the lock's       *)
(* maker, and the only one to have the file open has it truncated.           *)

FastInv == /\ TypeOK
           /\ ~broken => \A p \in Procs : Holding(p) => lock.owner = p
           /\ ~broken => \A p \in Procs : pc[p] = "opened" => file = Whole({})
           /\ NoTornFile

\* Every step preserves the invariant of an unbroken lock.
LEMMA NextFast == FastInv /\ [Next]_vars => FastInv'
<1> SUFFICES ASSUME FastInv, [Next]_vars PROVE FastInv'
  OBVIOUS
<1>0. TypeOK /\ TypeOK'
  BY NextTypes DEF FastInv
<1> USE <1>0, RegistryAssumption DEF FastInv, TypeOK, Holding, Places, NoLock, NoTornFile, Goto
<1>1. ASSUME NEW p \in Procs, NEW op \in Ops, NEW x \in Projects, Start(p, op, x)
      PROVE FastInv'
  BY <1>1 DEF Start
<1>2. ASSUME NEW p \in Procs, MakeLock(p) PROVE FastInv'
  BY <1>2 DEF MakeLock
<1>3. ASSUME NEW p \in Procs, Expire(p) \/ CheckAge(p) PROVE FastInv'
  BY <1>3 DEF Expire, CheckAge
<1>4. ASSUME NEW p \in Procs, BreakLock(p) PROVE FastInv'
  BY <1>4 DEF BreakLock
<1>5. ASSUME NEW p \in Procs, Open(p) PROVE FastInv'
  BY <1>5 DEF Open, Whole
<1>6. ASSUME NEW p \in Procs, Write(p) PROVE FastInv'
  <2>1. ~broken => file' = Whole(mem[p])
    BY <1>6 DEF Write, Overwrite
  <2>2. ~broken => \A q \in Procs : pc'[q] # "opened"
    BY <1>6 DEF Write
  <2> QED
    BY <1>6, <2>1, <2>2 DEF Write, Whole
<1>7. ASSUME NEW p \in Procs, Release(p) PROVE FastInv'
  BY <1>7 DEF Release
<1>8. ASSUME NEW p \in Procs, SaveFails(p) \/ Crash(p) PROVE FastInv'
  BY <1>8 DEF SaveFails, Crash
<1>9. CASE LockAges
  BY <1>9 DEF LockAges
<1>10. CASE UNCHANGED vars
  BY <1>10 DEF vars
<1> QED
  BY <1>1, <1>2, <1>3, <1>4, <1>5, <1>6, <1>7, <1>8, <1>9, <1>10 DEF Next, SaveStep, Done

\* The invariant of an unbroken lock holds in every reachable state.
LEMMA FastInvariant == Spec => []FastInv
<1>1. Init => FastInv
  <2> HAVE Init
  <2>1. TypeOK
    BY InitLock DEF LockInv
  <2> QED
    BY <2>1 DEF Init, FastInv, NoTornFile, Whole, NoLock, Holding
<1> QED
  BY <1>1, NextFast, PTL DEF Spec

\* Writes are serialized until an old lock is broken.
THEOREM LockIsExclusive == Spec => []OneWriter
<1>1. FastInv => OneWriter
  BY DEF FastInv, OneWriter
<1> QED
  BY FastInvariant, <1>1, PTL

\* The file is whole until an old lock is broken.
THEOREM FileIsWhole == Spec => []NoTornFile
<1>1. FastInv => NoTornFile
  BY DEF FastInv
<1> QED
  BY FastInvariant, <1>1, PTL
=============================================================================
