--------------------------- MODULE ProjectRegistry ---------------------------
(* The registry of known projects, ~/.rationalevault/registry.yaml, as       *)
(* knowledge/project_registry.py keeps it and the `project register` and     *)
(* `project unregister` commands use it: load the file, change the list in   *)
(* memory, and save() it under a lock that is a directory made with          *)
(* os.mkdir.  A process that waited longer than its timeout looks at the     *)
(* directory's age and removes it when it is older than 10 s.                *)
(* Time is abstract: a timeout may expire, and a lock may turn old, whenever *)
(* the code does not rule it out.  A registry fits one write buffer, so the  *)
(* file is either just truncated or written at once.                         *)
EXTENDS Naturals, FiniteSets

CONSTANTS Procs,      \* processes that run registry commands
          Projects,   \* project directories; an entry is its directory
          MaxRuns     \* commands each process runs (bound)

ASSUME RegistryAssumption ==
  /\ "nobody" \notin Procs
  /\ Projects # {}
  /\ MaxRuns \in Nat

VARIABLES file,   \* registry.yaml: its projects, and whether it is torn (unparsable)
          lock,   \* the lock directory: who made it, and whether it is over 10 s old
          pc,     \* where each process is
          mem,    \* the list each process holds
          runs,   \* commands started
          broken  \* history: some process has removed a lock it found old

vars == <<file, lock, pc, mem, runs, broken>>

Whole(projects) == [projects |-> projects, torn |-> FALSE]
Torn == [projects |-> {}, torn |-> TRUE]
NoLock == [owner |-> "nobody", old |-> FALSE]

Places == {"idle", "waiting", "expired", "stale", "locked", "opened", "written", "dead"}

\* An unreadable file loads as an empty registry.
Load(f) == IF f.torn THEN {} ELSE f.projects

Ops == {"register", "unregister"}

Changed_Nested(op, x, known) == IF op = "register" THEN known \union {{x}} ELSE known \ {x}

\* What the command leaves in memory.
Changed(op, x, known) == IF op = "register" THEN known \union {x} ELSE known \ {x}

\* register refuses a known project, unregister an unknown one.
Applies(op, x, known) == (op = "register") <=> (x \notin known)

\* Whatever earlier commands left in the file.
Init == /\ file \in {Whole(S) : S \in SUBSET Projects}
        /\ lock = NoLock
        /\ pc = [p \in Procs |-> "idle"]
        /\ mem = [p \in Procs |-> {}]
        /\ runs = [p \in Procs |-> 0]
        /\ broken = FALSE

Goto(p, place) == pc' = [pc EXCEPT ![p] = place]

\* The command: load, and change the list; a command that does not apply ends here.
Start(p, op, x) ==
  LET known == Load(file)
  IN /\ pc[p] = "idle" /\ runs[p] < MaxRuns
     /\ runs' = [runs EXCEPT ![p] = @ + 1]
     /\ \/ /\ Applies(op, x, known)
           /\ mem' = [mem EXCEPT ![p] = Changed(op, x, known)]
           /\ Goto(p, "waiting")
        \/ /\ ~Applies(op, x, known)
           /\ UNCHANGED <<mem, pc>>
     /\ UNCHANGED <<file, lock, broken>>

MakeLock_ExistOk(p) ==
  /\ pc[p] = "waiting"
  /\ lock' = [owner |-> p, old |-> FALSE]
  /\ Goto(p, "locked")
  /\ UNCHANGED <<file, mem, runs, broken>>

\* os.mkdir succeeds: the process has the lock.
MakeLock(p) ==
  /\ pc[p] = "waiting" /\ lock = NoLock
  /\ lock' = [owner |-> p, old |-> FALSE]
  /\ Goto(p, "locked")
  /\ UNCHANGED <<file, mem, runs, broken>>

Expire_OnlyOld(p) ==
  /\ pc[p] = "waiting" /\ lock.old
  /\ Goto(p, "expired")
  /\ UNCHANGED <<file, lock, mem, runs, broken>>

\* os.mkdir raised FileExistsError and the timeout is over.
Expire(p) ==
  /\ pc[p] = "waiting" /\ lock # NoLock
  /\ Goto(p, "expired")
  /\ UNCHANGED <<file, lock, mem, runs, broken>>

\* getmtime: an old lock is to be removed; a young or vanished one is a TimeoutError.
CheckAge(p) ==
  /\ pc[p] = "expired"
  /\ Goto(p, IF lock.old THEN "stale" ELSE "idle")
  /\ UNCHANGED <<file, lock, mem, runs, broken>>

\* rmdir of a lock found old; it fails, with a TimeoutError, if there is none any more.
BreakLock(p) ==
  /\ pc[p] = "stale"
  /\ Goto(p, IF lock = NoLock THEN "idle" ELSE "waiting")
  /\ lock' = NoLock
  /\ broken' = (broken \/ lock # NoLock)
  /\ UNCHANGED <<file, mem, runs>>

\* open(REGISTRY_FILE, "w") truncates the file.
Open(p) ==
  /\ pc[p] = "locked"
  /\ file' = Whole({})
  /\ Goto(p, "opened")
  /\ UNCHANGED <<lock, mem, runs, broken>>

\* What a file holds after data is written from its start over other content: the
\* rest of the other content may be cut anywhere.
Overwrite(data, over) ==
  IF over = Whole({})
  THEN {Whole(data)}
  ELSE {Whole(data \union tail) : tail \in SUBSET over.projects} \union {Torn}

\* yaml.dump and close.
Write(p) ==
  /\ pc[p] = "opened"
  /\ file' \in Overwrite(mem[p], file)
  /\ Goto(p, "written")
  /\ UNCHANGED <<lock, mem, runs, broken>>

\* finally: rmdir, whoever made the directory.
Release(p) ==
  /\ pc[p] = "written"
  /\ lock' = NoLock
  /\ Goto(p, "idle")
  /\ UNCHANGED <<file, mem, runs, broken>>

SaveFails_KeepsLock(p) ==
  /\ pc[p] \in {"locked", "opened"}
  /\ Goto(p, "idle")
  /\ UNCHANGED <<file, lock, mem, runs, broken>>

\* open or dump raises: finally still removes the lock, and the command fails.
SaveFails(p) ==
  /\ pc[p] \in {"locked", "opened"}
  /\ lock' = NoLock
  /\ Goto(p, "idle")
  /\ UNCHANGED <<file, mem, runs, broken>>

\* The process dies; a lock it made stays behind.
Crash(p) ==
  /\ pc[p] \notin {"idle", "dead"}
  /\ Goto(p, "dead")
  /\ UNCHANGED <<file, lock, mem, runs, broken>>

\* The lock directory turns older than 10 s: its maker died, or is slow.
LockAges ==
  /\ lock # NoLock /\ ~lock.old
  /\ lock' = [lock EXCEPT !.old = TRUE]
  /\ UNCHANGED <<file, pc, mem, runs, broken>>

\* One step of save().
SaveStep(p) == \/ MakeLock(p) \/ Expire(p) \/ CheckAge(p) \/ BreakLock(p)
               \/ Open(p) \/ Write(p) \/ Release(p)

Done == /\ \A p \in Procs : pc[p] = "dead" \/ (pc[p] = "idle" /\ runs[p] = MaxRuns)
        /\ UNCHANGED vars

Next == \/ \E p \in Procs : \/ \E op \in Ops, x \in Projects : Start(p, op, x)
                            \/ SaveStep(p) \/ SaveFails(p) \/ Crash(p)
        \/ LockAges
        \/ Done

Spec == Init /\ [][Next]_vars

\* A process that is not killed goes on with its save; nothing makes users run
\* commands, processes die, or locks age.
LiveSpec == Spec /\ \A p \in Procs : WF_vars(SaveStep(p))

-----------------------------------------------------------------------------
(* Properties *)

Holding(p) == pc[p] \in {"locked", "opened", "written"}

TypeOK ==
  /\ file \in [projects : SUBSET Projects, torn : BOOLEAN]
  /\ lock = NoLock \/ lock \in [owner : Procs, old : BOOLEAN]
  /\ pc \in [Procs -> Places]
  /\ mem \in [Procs -> SUBSET Projects]
  /\ runs \in [Procs -> 0..MaxRuns]
  /\ broken \in BOOLEAN

\* The os.mkdir lock serializes writes: no two processes are between mkdir and rmdir,
\* whoever dies or fails to write, until a waiter removes a lock it found old.
OneWriter == ~broken => \A p, q \in Procs : Holding(p) /\ Holding(q) => p = q

\* Concurrent saves never leave a file that mixes two lists, with the same proviso.
NoTornFile == ~broken => ~file.torn

\* A lock directory never outlives its maker's save unless the maker died: a timeout,
\* a failed write or a broken lock leaves no lock that nobody will remove.
LockHasOwner == lock # NoLock => Holding(lock.owner) \/ pc[lock.owner] = "dead"

\* Every save ends, with success or with TimeoutError, whoever died holding the lock.
SaveEnds == \A p \in Procs : (pc[p] = "waiting") ~> (pc[p] \in {"idle", "dead"})
=============================================================================
