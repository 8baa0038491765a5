---------------------------- MODULE MemoryStore ----------------------------
(***************************************************************************)
(* The memory corpus derived from the ledger (memory/, db/event_store.py). *)
(* EventStore.append_event first commits the event, then extracts memory   *)
(* records from it, adds each to the provider, and runs the supersession   *)
(* transition; the reference tracker increments a record's counter.  All   *)
(* of these update a record by reading the corpus, changing the record in  *)
(* memory and calling add_record, which replaces the record of that id.    *)
(*                                                                         *)
(* MarkdownMemoryProvider.add_record rewrites the whole file.  It holds a  *)
(* lock shared by the threads of a process; the file lock between          *)
(* processes is taken and released around the read alone, so it excludes   *)
(* no write.  open(..., "w") empties the file before the records are       *)
(* written.  SQLiteMemoryProvider.add_record replaces one row.             *)
(*                                                                         *)
(* A memory id is the digest of type, title and content, so two records    *)
(* of one id have the same content and the version never changes.          *)
(***************************************************************************)
EXTENDS Integers, Sequences, FiniteSets

CONSTANTS Threads,    \* callers of append_event and record_memory_reference
          Processes,
          ProcessOf,  \* [Threads -> Processes]
          Memories,   \* memory ids
          Emissions,  \* what extract_memories_from_event may return: Seq(Memories)
          None,       \* no supersedes field in the payload; no lock holder
          Markdown,   \* TRUE: MarkdownMemoryProvider; FALSE: SQLiteMemoryProvider
          Faults,     \* TRUE: processes may die and calls may fail
          MaxOps      \* bound on the operations started

VARIABLES
    ledger,  \* the project's events, in order
    corpus,  \* the stored records: a set, at most one per id
    lock,    \* process -> the thread that holds its _thread_lock
    pc,      \* thread -> where it is
    todo,    \* thread -> extracted memories still to be added
    sup,     \* thread -> the supersedes field of its event
    rec,     \* thread -> the record it is adding
    view,    \* thread -> the records it has read to write them back
    added,   \* ids whose add_record has returned
    ops,     \* operations started so far
    failed   \* history: a call has failed or a process has died

vars == <<ledger, corpus, lock, pc, todo, sup, rec, view, added, ops, failed>>

Record == [id : Memories, status : {"active", "superseded"}, refs : 0..MaxOps]
Event == [type : {"ACCEPTED"}, memories : Emissions, supersedes : Memories \cup {None}]
           \cup [type : {"SUPERSEDED", "REFERENCED"}, memory : Memories]

\* Where a thread is between two steps
Places == {"idle", "emit", "transition", "add", "addref", "truncate", "truncateref", "write", "writeref",
           "logsup", "logref"}

\* What a deployment is made of
MemoryAssumption ==
    /\ ProcessOf \in [Threads -> Processes]
    /\ Emissions \subseteq Seq(Memories)
    /\ None \notin Threads \cup Memories \cup Record
    /\ MaxOps \in Nat
    /\ {Markdown, Faults} \subseteq BOOLEAN

\* What extract_memories_from_event builds
Fresh(m) == [id |-> m, status |-> "active", refs |-> 0]

\* records[idx] = record, or append
Replace(R, r) == {x \in R : x.id # r.id} \cup {r}

Ids(R) == {r.id : r \in R}
RecordOf(R, m) == CHOOSE r \in R : r.id = m

\* Mutant: the transition replaces the emission
NextEmission_TransitionFirst(ms, s) ==
    IF s # None THEN "transition" ELSE IF ms # <<>> THEN "emit" ELSE "idle"

\* Where a thread goes on: the next extracted memory, then the transition
NextEmission(ms, s) ==
    IF ms # <<>> THEN "emit" ELSE IF s # None THEN "transition" ELSE "idle"

-----------------------------------------------------------------------------
Init ==
    /\ ledger = <<>>
    /\ corpus = {}
    /\ lock = [p \in Processes |-> None]
    /\ pc = [t \in Threads |-> "idle"]
    /\ todo = [t \in Threads |-> <<>>]
    /\ sup = [t \in Threads |-> None]
    /\ rec = [t \in Threads |-> None]
    /\ view = [t \in Threads |-> {}]
    /\ added = {}
    /\ ops = 0
    /\ failed = FALSE

\* append_event of an event that is not one of the excluded MEMORY_* types:
\* the backend commits it, extract_memories_from_event gives ms
AppendEvent(t, ms, s) ==
    /\ pc[t] = "idle"
    /\ ops < MaxOps
    /\ ops' = ops + 1
    /\ ledger' = Append(ledger, [type |-> "ACCEPTED", memories |-> ms, supersedes |-> s])
    /\ todo' = [todo EXCEPT ![t] = ms]
    /\ sup' = [sup EXCEPT ![t] = s]
    /\ pc' = [pc EXCEPT ![t] = NextEmission(ms, s)]
    /\ UNCHANGED <<corpus, lock, rec, view, added, failed>>

\* The next provider.add_record(m) of the extraction loop
Emit(t) ==
    /\ pc[t] = "emit"
    /\ rec' = [rec EXCEPT ![t] = Fresh(Head(todo[t]))]
    /\ todo' = [todo EXCEPT ![t] = Tail(@)]
    /\ pc' = [pc EXCEPT ![t] = "add"]
    /\ UNCHANGED <<ledger, corpus, lock, sup, view, added, ops, failed>>

\* get_all_records waits for the thread lock of the process (Markdown)
CanRead(t) == Markdown => lock[ProcessOf[t]] = None

\* Mutant: the first record is taken, whatever its id
Transition_AnyRecord(t) ==
    /\ pc[t] = "transition"
    /\ CanRead(t)
    /\ IF \E r \in corpus : r.status # "superseded"
       THEN /\ rec' = [rec EXCEPT ![t] =
                          [(CHOOSE r \in corpus : r.status # "superseded") EXCEPT !.status = "superseded"]]
            /\ pc' = [pc EXCEPT ![t] = "add"]
            /\ UNCHANGED sup
       ELSE /\ sup' = [sup EXCEPT ![t] = None]
            /\ pc' = [pc EXCEPT ![t] = "idle"]
            /\ UNCHANGED rec
    /\ UNCHANGED <<ledger, corpus, lock, todo, view, added, ops, failed>>

\* handle_lifecycle_transitions: the target, if it is there and not superseded
Transition(t) ==
    /\ pc[t] = "transition"
    /\ CanRead(t)
    /\ IF sup[t] \in Ids(corpus) /\ RecordOf(corpus, sup[t]).status # "superseded"
       THEN /\ rec' = [rec EXCEPT ![t] = [RecordOf(corpus, sup[t]) EXCEPT !.status = "superseded"]]
            /\ pc' = [pc EXCEPT ![t] = "add"]
            /\ UNCHANGED sup
       ELSE /\ sup' = [sup EXCEPT ![t] = None]
            /\ pc' = [pc EXCEPT ![t] = "idle"]
            /\ UNCHANGED rec
    /\ UNCHANGED <<ledger, corpus, lock, todo, view, added, ops, failed>>

\* record_memory_reference: the incremented record, read from the corpus
Reference(t, m) ==
    /\ pc[t] = "idle"
    /\ ops < MaxOps
    /\ CanRead(t)
    /\ m \in Ids(corpus)
    /\ ops' = ops + 1
    /\ rec' = [rec EXCEPT ![t] = [RecordOf(corpus, m) EXCEPT !.refs = @ + 1]]
    /\ pc' = [pc EXCEPT ![t] = "addref"]
    /\ UNCHANGED <<ledger, corpus, lock, todo, sup, view, added, failed>>

-----------------------------------------------------------------------------
(* add_record *)

Adding == {"add", "addref"}

\* Mutant: a supersession is not logged
Resume_NoLog(t) ==
    pc' = [pc EXCEPT ![t] =
             IF pc[t] \in {"addref", "writeref"} THEN "logref"
             ELSE IF rec[t].status = "superseded" THEN "idle"
             ELSE NextEmission(todo[t], sup[t])]

\* What a thread does after add_record has returned
Resume(t) ==
    pc' = [pc EXCEPT ![t] =
             IF pc[t] \in {"addref", "writeref"} THEN "logref"
             ELSE IF rec[t].status = "superseded" THEN "logsup"
             ELSE NextEmission(todo[t], sup[t])]

\* Mutant: a plain INSERT into a table without a primary key
AddRow_PlainInsert(t) ==
    /\ ~Markdown
    /\ pc[t] \in Adding
    /\ corpus' = corpus \cup {rec[t]}
    /\ added' = added \cup {rec[t].id}
    /\ Resume(t)
    /\ UNCHANGED <<ledger, lock, todo, sup, rec, view, ops, failed>>

\* Mutant: the table is rewritten with what this call knows
AddRow_Rewrites(t) ==
    /\ ~Markdown
    /\ pc[t] \in Adding
    /\ corpus' = {rec[t]}
    /\ added' = added \cup {rec[t].id}
    /\ Resume(t)
    /\ UNCHANGED <<ledger, lock, todo, sup, rec, view, ops, failed>>

\* SQLite: SELECT version, then INSERT OR REPLACE and COMMIT of one row
AddRow(t) ==
    /\ ~Markdown
    /\ pc[t] \in Adding
    /\ corpus' = Replace(corpus, rec[t])
    /\ added' = added \cup {rec[t].id}
    /\ Resume(t)
    /\ UNCHANGED <<ledger, lock, todo, sup, rec, view, ops, failed>>

\* Mutant: add_record does not wait for the other threads
ReadCorpus_NoLock(t) ==
    /\ Markdown
    /\ pc[t] \in Adding
    /\ view' = [view EXCEPT ![t] = corpus]
    /\ pc' = [pc EXCEPT ![t] = IF @ = "add" THEN "truncate" ELSE "truncateref"]
    /\ UNCHANGED <<ledger, corpus, lock, todo, sup, rec, added, ops, failed>>

\* Markdown: take the thread lock, read the file (file lock around the read)
ReadCorpus(t) ==
    /\ Markdown
    /\ pc[t] \in Adding
    /\ lock[ProcessOf[t]] = None
    /\ lock' = [lock EXCEPT ![ProcessOf[t]] = t]
    /\ view' = [view EXCEPT ![t] = corpus]
    /\ pc' = [pc EXCEPT ![t] = IF @ = "add" THEN "truncate" ELSE "truncateref"]
    /\ UNCHANGED <<ledger, corpus, todo, sup, rec, added, ops, failed>>

\* open(file_path, "w")
Truncate(t) ==
    /\ pc[t] \in {"truncate", "truncateref"}
    /\ corpus' = {}
    /\ pc' = [pc EXCEPT ![t] = IF @ = "truncate" THEN "write" ELSE "writeref"]
    /\ UNCHANGED <<ledger, lock, todo, sup, rec, view, added, ops, failed>>

\* The records, the new one among them, and the thread lock is released
WriteRecords(t) ==
    /\ pc[t] \in {"write", "writeref"}
    /\ corpus' = Replace(view[t], rec[t])
    /\ added' = added \cup {rec[t].id}
    /\ lock' = [lock EXCEPT ![ProcessOf[t]] = None]
    /\ view' = [view EXCEPT ![t] = {}]
    /\ Resume(t)
    /\ UNCHANGED <<ledger, todo, sup, rec, ops, failed>>

-----------------------------------------------------------------------------
\* The MEMORY_SUPERSEDED or MEMORY_REFERENCED event (excluded types: nothing
\* is extracted from it)
Log(t) ==
    /\ pc[t] \in {"logsup", "logref"}
    /\ ledger' = Append(ledger, [type   |-> IF pc[t] = "logsup" THEN "SUPERSEDED" ELSE "REFERENCED",
                                 memory |-> rec[t].id])
    /\ sup' = [sup EXCEPT ![t] = None]
    /\ pc' = [pc EXCEPT ![t] = "idle"]
    /\ UNCHANGED <<corpus, lock, todo, rec, view, added, ops, failed>>

\* A process dies: its threads stop where they are, its locks are freed
Crash(p) ==
    /\ Faults
    /\ \E t \in Threads : ProcessOf[t] = p /\ pc[t] # "idle"
    /\ LET stop(f, v) == [t \in Threads |-> IF ProcessOf[t] = p THEN v ELSE f[t]] IN
       /\ pc' = stop(pc, "idle")
       /\ todo' = stop(todo, <<>>)
       /\ sup' = stop(sup, None)
       /\ view' = stop(view, {})
    /\ lock' = [lock EXCEPT ![p] = None]
    /\ failed' = TRUE
    /\ UNCHANGED <<ledger, corpus, rec, added, ops>>

\* An exception in extraction, add_record (a lock timeout, an I/O error) or the
\* transition: append_event warns and returns; a failed log is passed over
GiveUp(t) ==
    /\ Faults
    /\ pc[t] \in {"emit", "transition", "add", "addref", "logsup", "logref"}
    /\ pc' = [pc EXCEPT ![t] = "idle"]
    /\ todo' = [todo EXCEPT ![t] = <<>>]
    /\ sup' = [sup EXCEPT ![t] = None]
    /\ failed' = TRUE
    /\ UNCHANGED <<ledger, corpus, lock, rec, view, added, ops>>

ThreadStep(t) ==
    \/ Emit(t) \/ Transition(t)
    \/ AddRow(t) \/ ReadCorpus(t) \/ Truncate(t) \/ WriteRecords(t)
    \/ Log(t) \/ GiveUp(t)

Next ==
    \/ \E t \in Threads, ms \in Emissions, s \in Memories \cup {None} : AppendEvent(t, ms, s)
    \/ \E t \in Threads, m \in Memories : Reference(t, m)
    \/ \E t \in Threads : ThreadStep(t)
    \/ \E p \in Processes : Crash(p)

\* A thread that has started goes on; the lock it waits for is always released
Fairness == \A t \in Threads : WF_vars(ThreadStep(t))

Spec == Init /\ [][Next]_vars /\ Fairness

-----------------------------------------------------------------------------
(* Properties *)

TypeOK ==
    /\ ledger \in Seq(Event)
    /\ corpus \subseteq Record
    /\ lock \in [Processes -> Threads \cup {None}]
    /\ pc \in [Threads -> Places]
    /\ todo \in [Threads -> Seq(Memories)]
    /\ sup \in [Threads -> Memories \cup {None}]
    /\ rec \in [Threads -> Record \cup {None}]
    /\ view \in [Threads -> SUBSET Record]
    /\ added \subseteq Memories
    /\ ops \in 0..MaxOps
    /\ failed \in BOOLEAN

Writing == \E t \in Threads : pc[t] \in {"write", "writeref"}

\* What add_record has stored is there whenever nobody is rewriting the file:
\* concurrent add_record calls do not lose each other's records, in two threads on
\* memory.md or two processes on SQLite (markdown_provider.py:41-99, sqlite_provider.py:60-99).
NothingLost == ~Writing => added \subseteq Ids(corpus)

\* A corpus has one record per id, whoever rewrote it.
OneRecordPerId == \A r, s \in corpus : r.id = s.id => r = s

Accepted(m) ==
    \E i \in 1..Len(ledger) :
        ledger[i].type = "ACCEPTED" /\ \E j \in 1..Len(ledger[i].memories) : ledger[i].memories[j] = m
Replaced(m) == \E i \in 1..Len(ledger) : ledger[i].type = "ACCEPTED" /\ ledger[i].supersedes = m
Logged(type, m) == \E i \in 1..Len(ledger) : ledger[i].type = type /\ ledger[i].memory = m

\* Memory never runs ahead of the ledger, also when processes die: a record comes
\* from an event that was committed first, is superseded only on behalf of an
\* event that says so, and is there once (db/event_store.py, sqlite_provider.py).
BackedByLedger ==
    /\ \A r \in corpus :
          /\ Accepted(r.id)
          /\ r.status = "superseded" => Replaced(r.id)
    /\ OneRecordPerId

\* As long as no call failed and no process died, a superseded record has its
\* MEMORY_SUPERSEDED event in the ledger as soon as the thread that superseded
\* it is done (lifecycle.py:32-54).
SupersessionLogged ==
    ~failed =>
        \A r \in corpus :
            r.status = "superseded" =>
                \/ Logged("SUPERSEDED", r.id)
                \/ \E t \in Threads : pc[t] = "logsup" /\ rec[t].id = r.id

\* A superseded memory stays superseded until an event is appended that
\* carries it again.  The code does not keep this: a thread that read the
\* record before writes it back as it was.
SupersessionSticks ==
    (\A t \in Threads : pc[t] = "idle") =>
        \A i \in 1..Len(ledger) :
            (ledger[i].type = "SUPERSEDED" /\
             ~\E k \in (i + 1)..Len(ledger) :
                 ledger[k].type = "ACCEPTED" /\
                 \E j \in 1..Len(ledger[k].memories) : ledger[k].memories[j] = ledger[i].memory)
            => \A r \in corpus : r.id = ledger[i].memory => r.status = "superseded"

\* Every memory of a committed event reaches the corpus, unless a call fails or
\* a process dies (db/event_store.py).
EventuallyRemembered == \A m \in Memories : Accepted(m) ~> (m \in Ids(corpus) \/ failed)

=============================================================================
