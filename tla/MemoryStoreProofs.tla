-------------------------- MODULE MemoryStoreProofs --------------------------
(* What holds of the memory corpus for every set of threads, processes and   *)
(* memories, on either provider: memory is backed by the ledger whatever     *)
(* fails; a supersession is logged unless something fails; no add is lost on *)
(* SQLite, nor on one process's memory.md; and a search over the corpus      *)
(* cites the best of what it read, whatever is written between its reads.    *)
EXTENDS MemoryStore, Retrieval, FiniteSetTheorems, WellFoundedInduction, TLAPS

\* The records a thread is about to store, and what it knows where it stands
Holding == {"add", "addref", "truncate", "truncateref", "write", "writeref", "logsup", "logref"}

Control ==
    /\ \A t \in Threads : pc[t] \in Holding => rec[t] # None
    /\ \A t \in Threads : pc[t] = "emit" => todo[t] # <<>>
    /\ \A t \in Threads : pc[t] = "transition" => sup[t] # None

\* A reference counts once, and each is an operation
RefsCounted ==
    /\ \A r \in corpus : r.refs <= ops
    /\ \A t \in Threads : rec[t] # None => rec[t].refs <= ops
    /\ \A t \in Threads : \A r \in view[t] : r.refs <= ops

OnePerId(R) == \A r, s \in R : r.id = s.id => r = s

\* What the ledger has accepted and superseded, and the records it backs
AcceptedIds == {m \in Memories : Accepted(m)}
ReplacedIds == {m \in Memories : Replaced(m)}
BackedRecords ==
    {r \in Record : r.id \in AcceptedIds /\ (r.status = "superseded" => r.id \in ReplacedIds)}

BackedInv ==
    /\ corpus \subseteq BackedRecords
    /\ rec \in [Threads -> BackedRecords \cup {None}]
    /\ view \in [Threads -> SUBSET BackedRecords]
    /\ todo \in [Threads -> Seq(AcceptedIds)]
    /\ sup \in [Threads -> ReplacedIds \cup {None}]
    /\ OnePerId(corpus)
    /\ \A t \in Threads : OnePerId(view[t])

TypeInv == TypeOK /\ Control /\ RefsCounted

\* The supersessions that are in the ledger, or about to be, and the records
\* that may be seen superseded
AnnouncedIds ==
    {m \in Memories : \/ Logged("SUPERSEDED", m)
                      \/ \E t \in Threads : pc[t] = "logsup" /\ rec[t].id = m}
AnnouncedRecords == {r \in Record : r.status = "superseded" => r.id \in AnnouncedIds}

\* Whoever holds a superseded record it did not supersede itself has read it, so
\* the thread that did was past its write
LogInv ==
    /\ corpus \subseteq AnnouncedRecords
    /\ view \in [Threads -> SUBSET AnnouncedRecords]
    /\ \A t \in Threads : pc[t] \in {"addref", "truncateref", "writeref"} => rec[t] \in AnnouncedRecords

\* One process writes memory.md, and nothing makes it stop half way
OneProcess == \A s, t \in Threads : ProcessOf[s] = ProcessOf[t]
Undisturbed == Markdown => OneProcess /\ ~Faults

\* The thread that rewrites the file holds the lock, and has every added record
\* in its view once the file is empty
FileInv ==
    /\ ~Markdown => \A t \in Threads : pc[t] \notin {"truncate", "truncateref", "write", "writeref"}
    /\ \A t \in Threads : pc[t] \in {"truncate", "truncateref", "write", "writeref"} => lock[ProcessOf[t]] = t
    /\ \A t \in Threads : pc[t] \in {"truncate", "truncateref"} => view[t] = corpus
    /\ \A t \in Threads : pc[t] \in {"write", "writeref"} => added \subseteq Ids(view[t])
    /\ NothingLost

-----------------------------------------------------------------------------
(* The operators of the model *)

\* RecordOf gives a record of that id.
LEMMA RecordOfId ==
  ASSUME NEW R, NEW m \in Ids(R)
  PROVE  RecordOf(R, m) \in R /\ RecordOf(R, m).id = m
<1>1. \E r \in R : r.id = m
  BY DEF Ids
<1> QED
  BY <1>1 DEF RecordOf

\* Counting a reference keeps the other fields of a record.
LEMMA Changed ==
  ASSUME NEW r \in Record, NEW k \in Nat, r.refs + 1 <= k, k <= MaxOps, MaxOps \in Nat
  PROVE  /\ [r EXCEPT !.refs = @ + 1] \in Record
         /\ [r EXCEPT !.refs = @ + 1].id = r.id
         /\ [r EXCEPT !.refs = @ + 1].status = r.status
         /\ [r EXCEPT !.refs = @ + 1].refs = r.refs + 1
BY DEF Record

\* Superseding a record changes its status alone.
LEMMA Superseded ==
  ASSUME NEW r \in Record
  PROVE  /\ [r EXCEPT !.status = "superseded"] \in Record
         /\ [r EXCEPT !.status = "superseded"].id = r.id
         /\ [r EXCEPT !.status = "superseded"].status = "superseded"
         /\ [r EXCEPT !.status = "superseded"].refs = r.refs
BY DEF Record

\* add_record keeps every id, adds one, and keeps one record per id.
LEMMA ReplaceFacts ==
  ASSUME NEW R, NEW r
  PROVE  /\ Ids(Replace(R, r)) = Ids(R) \cup {r.id}
         /\ OnePerId(R) => OnePerId(Replace(R, r))
         /\ \A x \in Replace(R, r) : x \in R \/ x = r
BY DEF Ids, Replace, OnePerId

\* The ledger is only appended to: what it says stays said.
LEMMA LedgerGrows ==
  ASSUME ledger \in Seq(Event), NEW e, ledger' = Append(ledger, e) \/ ledger' = ledger
  PROVE  /\ AcceptedIds \subseteq AcceptedIds'
         /\ ReplacedIds \subseteq ReplacedIds'
         /\ BackedRecords \subseteq BackedRecords'
         /\ \A type, m : Logged(type, m) => Logged(type, m)'
<1>1. \A i \in 1..Len(ledger) : i \in 1..Len(ledger') /\ ledger'[i] = ledger[i]
  OBVIOUS
<1>2. \A m : Accepted(m) => Accepted(m)'
  BY <1>1 DEF Accepted
<1>3. \A m : Replaced(m) => Replaced(m)'
  BY <1>1 DEF Replaced
<1>4. \A type, m : Logged(type, m) => Logged(type, m)'
  BY <1>1 DEF Logged
<1> QED
  BY <1>2, <1>3, <1>4 DEF AcceptedIds, ReplacedIds, BackedRecords

-----------------------------------------------------------------------------
(* Types *)

\* The empty corpus and ledger satisfy the invariant.
LEMMA InitTypes == MemoryAssumption /\ Init => TypeInv
<1> SUFFICES ASSUME MemoryAssumption, Init PROVE TypeInv
  OBVIOUS
<1>1. TypeOK
  <2>1. failed \in BOOLEAN
    BY DEF Init
  <2>2. 0 \in 0..MaxOps /\ ops = 0
    BY DEF MemoryAssumption, Init
  <2> QED
    BY <2>1, <2>2 DEF Init, TypeOK, Places
<1>2. Control /\ RefsCounted
  BY DEF Init, Control, RefsCounted, Holding
<1> QED
  BY <1>1, <1>2 DEF TypeInv

\* Where a thread goes next is a place, and it has what it needs there.
LEMMA NextEmissionFacts ==
  ASSUME NEW ms, NEW s
  PROVE  /\ NextEmission(ms, s) \in {"emit", "transition", "idle"}
         /\ NextEmission(ms, s) = "emit" => ms # <<>>
         /\ NextEmission(ms, s) = "transition" => s # None
BY DEF NextEmission

\* Every step keeps the types, what a thread holds and the count of references.
LEMMA NextTypes == MemoryAssumption /\ TypeInv /\ [Next]_vars => TypeInv'
<1> SUFFICES ASSUME MemoryAssumption, TypeInv, [Next]_vars PROVE TypeInv'
  OBVIOUS
<1> USE DEF TypeInv
<1>1. ASSUME NEW t \in Threads, NEW ms \in Emissions, NEW s \in Memories \cup {None}, AppendEvent(t, ms, s)
      PROVE  TypeInv'
  <2>0. ms \in Seq(Memories)
    BY DEF MemoryAssumption
  <2>1. [type |-> "ACCEPTED", memories |-> ms, supersedes |-> s] \in Event
    BY DEF Event
  <2>2. ledger' \in Seq(Event)
    BY <1>1, <2>1 DEF AppendEvent, TypeOK
  <2>3. pc' \in [Threads -> Places]
    BY <1>1, NextEmissionFacts DEF AppendEvent, TypeOK, Places
  <2>4. TypeOK'
    BY <1>1, <2>0, <2>2, <2>3 DEF AppendEvent, TypeOK, MemoryAssumption
  <2>5. Control'
    BY <1>1, NextEmissionFacts DEF AppendEvent, TypeOK, Control, Holding
  <2>6. RefsCounted'
    BY <1>1 DEF AppendEvent, TypeOK, RefsCounted, Record, MemoryAssumption
  <2> QED
    BY <2>4, <2>5, <2>6
<1>2. ASSUME NEW t \in Threads, NEW m \in Memories, Reference(t, m) PROVE TypeInv'
  <2> DEFINE r == RecordOf(corpus, m)
  <2>1. r \in corpus /\ r \in Record /\ r.refs <= ops
    BY <1>2, RecordOfId DEF Reference, TypeOK, RefsCounted
  <2>2. /\ [r EXCEPT !.refs = @ + 1] \in Record
        /\ [r EXCEPT !.refs = @ + 1].refs = r.refs + 1
        /\ r.refs \in Nat /\ ops \in Nat /\ ops' = ops + 1 /\ ops' \in 0..MaxOps
    <3> HIDE DEF r
    <3>1. r.refs \in Nat /\ ops \in Nat /\ ops' = ops + 1 /\ ops' \in 0..MaxOps
      BY <1>2, <2>1 DEF Reference, TypeOK, MemoryAssumption, Record
    <3> QED
      BY <2>1, <3>1, Changed DEF MemoryAssumption
  <2>3. rec' = [rec EXCEPT ![t] = [r EXCEPT !.refs = @ + 1]]
    BY <1>2 DEF Reference
  <2> HIDE DEF r
  <2>4. TypeOK'
    BY <1>2, <2>2, <2>3 DEF Reference, TypeOK, Places
  <2>5. [r EXCEPT !.refs = @ + 1] # None
    BY <2>2 DEF MemoryAssumption
  <2>6. Control'
    BY <1>2, <2>3, <2>5 DEF Reference, TypeOK, Control, Holding
  <2>7. RefsCounted'
    <3>1. \A x \in Record : x.refs \in Nat
      BY DEF Record, MemoryAssumption
    <3>2. [r EXCEPT !.refs = @ + 1].refs <= ops'
      BY <2>1, <2>2
    <3>3. \A u \in Threads : rec'[u] # None => rec'[u].refs <= ops'
      <4> TAKE u \in Threads
      <4>1. CASE u = t
        BY <2>3, <3>2, <4>1 DEF TypeOK
      <4>2. CASE u # t
        <5>1. rec'[u] = rec[u] /\ rec[u] \in Record \cup {None}
          BY <2>3, <4>2 DEF TypeOK
        <5> QED
          BY <2>2, <3>1, <5>1 DEF RefsCounted
      <4> QED
        BY <4>1, <4>2
    <3> QED
      BY <1>2, <2>2, <3>1, <3>3 DEF Reference, RefsCounted, TypeOK
  <2> QED
    BY <2>4, <2>6, <2>7
<1>3. ASSUME NEW t \in Threads, Emit(t) PROVE TypeInv'
  <2>1. todo[t] \in Seq(Memories) /\ todo[t] # <<>>
    BY <1>3 DEF Emit, TypeOK, Control
  <2>2. Head(todo[t]) \in Memories /\ Tail(todo[t]) \in Seq(Memories)
    BY <2>1
  <2>3. Fresh(Head(todo[t])) \in Record /\ Fresh(Head(todo[t])).refs = 0 /\ Fresh(Head(todo[t])) # None
    BY <2>2 DEF Fresh, Record, MemoryAssumption
  <2>4. TypeOK'
    BY <1>3, <2>2, <2>3 DEF Emit, TypeOK, Places
  <2>5. Control'
    BY <1>3, <2>3 DEF Emit, TypeOK, Control, Holding
  <2>6. RefsCounted'
    BY <1>3, <2>3 DEF Emit, TypeOK, RefsCounted
  <2> QED
    BY <2>4, <2>5, <2>6
<1>4. ASSUME NEW t \in Threads, Transition(t) PROVE TypeInv'
  <2>1. CASE sup[t] \in Ids(corpus) /\ RecordOf(corpus, sup[t]).status # "superseded"
    <3> DEFINE r == RecordOf(corpus, sup[t])
    <3>1. r \in corpus /\ r \in Record /\ r.refs <= ops
      BY <2>1, RecordOfId DEF TypeOK, RefsCounted
    <3>2. rec' = [rec EXCEPT ![t] = [r EXCEPT !.status = "superseded"]]
      BY <1>4, <2>1 DEF Transition
    <3> HIDE DEF r
    <3>3. /\ [r EXCEPT !.status = "superseded"] \in Record
          /\ [r EXCEPT !.status = "superseded"].refs = r.refs
          /\ [r EXCEPT !.status = "superseded"] # None
      BY <3>1, Superseded DEF MemoryAssumption
    <3>4. TypeOK'
      BY <1>4, <2>1, <3>2, <3>3 DEF Transition, TypeOK, Places
    <3>5. Control'
      BY <1>4, <2>1, <3>2, <3>3 DEF Transition, TypeOK, Control, Holding
    <3>6. RefsCounted'
      BY <1>4, <3>1, <3>2, <3>3 DEF Transition, TypeOK, RefsCounted
    <3> QED
      BY <3>4, <3>5, <3>6
  <2>2. CASE ~(sup[t] \in Ids(corpus) /\ RecordOf(corpus, sup[t]).status # "superseded")
    <3>1. /\ sup' = [sup EXCEPT ![t] = None]
          /\ pc' = [pc EXCEPT ![t] = "idle"]
          /\ UNCHANGED <<rec, ledger, corpus, lock, todo, view, added, ops, failed>>
      BY <1>4, <2>2 DEF Transition
    <3> QED
      BY <3>1 DEF TypeOK, Places, Control, Holding, RefsCounted
  <2> QED
    BY <2>1, <2>2
<1>5. ASSUME NEW t \in Threads, AddRow(t) PROVE TypeInv'
  <2>1. rec[t] \in Record /\ rec[t].id \in Memories /\ rec[t].refs <= ops
    BY <1>5 DEF AddRow, Adding, TypeOK, Control, Holding, RefsCounted, Record
  <2>2. corpus' \subseteq Record /\ \A x \in corpus' : x.refs <= ops
    BY <1>5, <2>1, ReplaceFacts DEF AddRow, TypeOK, RefsCounted
  <2>3. TypeOK'
    BY <1>5, <2>1, <2>2, NextEmissionFacts DEF AddRow, Resume, TypeOK, Places
  <2>4. Control'
    BY <1>5, <2>1, NextEmissionFacts DEF AddRow, Adding, Resume, TypeOK, Control, Holding
  <2> QED
    BY <1>5, <2>2, <2>3, <2>4 DEF AddRow, RefsCounted
<1>6. ASSUME NEW t \in Threads, ReadCorpus(t) PROVE TypeInv'
  <2>1. TypeOK'
    BY <1>6 DEF ReadCorpus, TypeOK, Places, MemoryAssumption
  <2>2. Control'
    BY <1>6 DEF ReadCorpus, Adding, TypeOK, Control, Holding
  <2> QED
    BY <1>6, <2>1, <2>2 DEF ReadCorpus, RefsCounted, TypeOK
<1>7. ASSUME NEW t \in Threads, Truncate(t) PROVE TypeInv'
  <2>1. Control'
    BY <1>7 DEF Truncate, TypeOK, Control, Holding
  <2> QED
    BY <1>7, <2>1 DEF Truncate, TypeOK, Places, RefsCounted
<1>8. ASSUME NEW t \in Threads, WriteRecords(t) PROVE TypeInv'
  <2>1. rec[t] \in Record /\ rec[t].id \in Memories /\ rec[t].refs <= ops
    BY <1>8 DEF WriteRecords, TypeOK, Control, Holding, RefsCounted, Record
  <2>2. corpus' \subseteq Record /\ \A x \in corpus' : x.refs <= ops
    BY <1>8, <2>1, ReplaceFacts DEF WriteRecords, TypeOK, RefsCounted
  <2>3. TypeOK'
    BY <1>8, <2>1, <2>2, NextEmissionFacts DEF WriteRecords, Resume, TypeOK, Places, MemoryAssumption
  <2>4. Control'
    BY <1>8, <2>1, NextEmissionFacts DEF WriteRecords, Resume, TypeOK, Control, Holding
  <2> QED
    BY <1>8, <2>2, <2>3, <2>4 DEF WriteRecords, RefsCounted, TypeOK
<1>9. ASSUME NEW t \in Threads, Log(t) PROVE TypeInv'
  <2>1. rec[t].id \in Memories
    BY <1>9 DEF Log, TypeOK, Control, Holding, Record
  <2>2. ledger' \in Seq(Event)
    BY <1>9, <2>1 DEF Log, TypeOK, Event
  <2> QED
    BY <1>9, <2>2 DEF Log, TypeOK, Places, Control, Holding, RefsCounted
<1>10. ASSUME NEW t \in Threads, GiveUp(t) PROVE TypeInv'
  BY <1>10 DEF GiveUp, TypeOK, Places, Control, Holding, RefsCounted
<1>11. ASSUME NEW p \in Processes, Crash(p) PROVE TypeInv'
  BY <1>11 DEF Crash, TypeOK, Places, Control, Holding, RefsCounted
<1>12. CASE UNCHANGED vars
  BY <1>12 DEF vars, TypeOK, Control, RefsCounted
<1> QED
  BY <1>1, <1>2, <1>3, <1>4, <1>5, <1>6, <1>7, <1>8, <1>9, <1>10, <1>11, <1>12 DEF Next, ThreadStep

-----------------------------------------------------------------------------
(* Memory never runs ahead of the ledger *)

\* Nothing is stored, so nothing needs backing.
LEMMA InitBacked == MemoryAssumption /\ Init => BackedInv
BY DEF MemoryAssumption, Init, BackedInv, OnePerId

\* Every step keeps what is stored, and what will be, backed by the ledger.
LEMMA NextBacked == MemoryAssumption /\ TypeInv /\ BackedInv /\ [Next]_vars => BackedInv'
<1> SUFFICES ASSUME MemoryAssumption, TypeInv, BackedInv, [Next]_vars PROVE BackedInv'
  OBVIOUS
<1>0. ASSUME UNCHANGED ledger
      PROVE  AcceptedIds' = AcceptedIds /\ ReplacedIds' = ReplacedIds /\ BackedRecords' = BackedRecords
  BY <1>0 DEF AcceptedIds, ReplacedIds, BackedRecords, Accepted, Replaced
<1>1. ASSUME NEW t \in Threads, NEW ms \in Emissions, NEW s \in Memories \cup {None}, AppendEvent(t, ms, s)
      PROVE  BackedInv'
  <2> DEFINE e == [type |-> "ACCEPTED", memories |-> ms, supersedes |-> s]
  <2>1. ledger \in Seq(Event) /\ ledger' = Append(ledger, e) /\ ms \in Seq(Memories)
    BY <1>1 DEF AppendEvent, TypeInv, TypeOK, MemoryAssumption
  <2>2. AcceptedIds \subseteq AcceptedIds' /\ ReplacedIds \subseteq ReplacedIds' /\ BackedRecords \subseteq BackedRecords'
    BY <2>1, LedgerGrows
  <2>3. Len(ledger') \in 1..Len(ledger') /\ ledger'[Len(ledger')] = e
    BY <2>1
  <2>4. ms \in Seq(AcceptedIds')
    <3>1. \A i \in 1..Len(ms) : ms[i] \in AcceptedIds'
      BY <2>1, <2>3 DEF Accepted, AcceptedIds
    <3> QED
      BY <2>1, <3>1
  <2>5. s \in ReplacedIds' \cup {None}
    BY <2>3 DEF Replaced, ReplacedIds
  <2>6. \A u \in Threads : todo[u] \in Seq(AcceptedIds')
    BY <2>2 DEF BackedInv
  <2> QED
    BY <1>1, <2>2, <2>4, <2>5, <2>6 DEF AppendEvent, BackedInv
<1>2. ASSUME NEW t \in Threads, NEW m \in Memories, Reference(t, m) PROVE BackedInv'
  <2> DEFINE r == RecordOf(corpus, m)
  <2>1. r \in corpus /\ r \in Record /\ r.refs <= ops /\ r \in BackedRecords
    BY <1>2, RecordOfId DEF Reference, TypeInv, TypeOK, RefsCounted, BackedInv
  <2>2. rec' = [rec EXCEPT ![t] = [r EXCEPT !.refs = @ + 1]]
    BY <1>2 DEF Reference
  <2>3. UNCHANGED <<ledger, corpus, todo, sup, view>>
    BY <1>2 DEF Reference
  <2>4. [r EXCEPT !.refs = @ + 1] \in BackedRecords
    <3>1. ops + 1 \in Nat /\ ops + 1 <= MaxOps /\ r.refs + 1 <= ops + 1 /\ MaxOps \in Nat
      BY <1>2, <2>1 DEF Reference, TypeInv, TypeOK, MemoryAssumption, Record
    <3> HIDE DEF r
    <3> QED
      BY <2>1, <3>1, Changed DEF BackedRecords
  <2> HIDE DEF r
  <2> QED
    BY <1>0, <2>2, <2>3, <2>4 DEF BackedInv
<1>3. ASSUME NEW t \in Threads, Emit(t) PROVE BackedInv'
  <2>1. todo[t] \in Seq(AcceptedIds) /\ todo[t] # <<>>
    BY <1>3 DEF Emit, TypeInv, Control, BackedInv
  <2>2. Head(todo[t]) \in AcceptedIds /\ Tail(todo[t]) \in Seq(AcceptedIds)
    BY <2>1
  <2>3. Fresh(Head(todo[t])) \in BackedRecords
    BY <2>2 DEF Fresh, BackedRecords, Record, MemoryAssumption, AcceptedIds
  <2> QED
    BY <1>0, <1>3, <2>2, <2>3 DEF Emit, BackedInv
<1>4. ASSUME NEW t \in Threads, Transition(t) PROVE BackedInv'
  <2>1. UNCHANGED <<ledger, corpus, todo, view>> /\ sup' \in [Threads -> ReplacedIds \cup {None}]
    BY <1>4 DEF Transition, BackedInv
  <2>2. rec' \in [Threads -> BackedRecords \cup {None}]
    <3>1. CASE sup[t] \in Ids(corpus) /\ RecordOf(corpus, sup[t]).status # "superseded"
      <4> DEFINE r == RecordOf(corpus, sup[t])
      <4>1. r \in corpus /\ r \in Record /\ r.id = sup[t] /\ r \in BackedRecords
        BY <3>1, RecordOfId DEF TypeInv, TypeOK, BackedInv
      <4>2. rec' = [rec EXCEPT ![t] = [r EXCEPT !.status = "superseded"]]
        BY <1>4, <3>1 DEF Transition
      <4>3. sup[t] \in ReplacedIds
        BY <1>4 DEF Transition, TypeInv, Control, BackedInv
      <4> HIDE DEF r
      <4>4. [r EXCEPT !.status = "superseded"] \in BackedRecords
        BY <4>1, <4>3, Superseded DEF BackedRecords
      <4> QED
        BY <4>2, <4>4 DEF BackedInv
    <3>2. CASE ~(sup[t] \in Ids(corpus) /\ RecordOf(corpus, sup[t]).status # "superseded")
      BY <1>4, <3>2 DEF Transition, BackedInv
    <3> QED
      BY <3>1, <3>2
  <2> QED
    BY <1>0, <2>1, <2>2 DEF BackedInv
<1>5. ASSUME NEW t \in Threads, AddRow(t) PROVE BackedInv'
  <2>1. rec[t] \in BackedRecords
    BY <1>5 DEF AddRow, Adding, TypeInv, Control, Holding, BackedInv
  <2>2. corpus' = Replace(corpus, rec[t]) /\ UNCHANGED <<ledger, todo, sup, rec, view>>
    BY <1>5 DEF AddRow
  <2>3. corpus' \subseteq BackedRecords /\ OnePerId(corpus')
    BY <2>1, <2>2, ReplaceFacts DEF BackedInv
  <2> QED
    BY <1>0, <2>2, <2>3 DEF BackedInv
<1>6. ASSUME NEW t \in Threads, ReadCorpus(t) PROVE BackedInv'
  BY <1>0, <1>6 DEF ReadCorpus, BackedInv
<1>7. ASSUME NEW t \in Threads, Truncate(t) PROVE BackedInv'
  BY <1>0, <1>7 DEF Truncate, BackedInv, OnePerId
<1>8. ASSUME NEW t \in Threads, WriteRecords(t) PROVE BackedInv'
  <2>1. rec[t] \in BackedRecords
    BY <1>8 DEF WriteRecords, TypeInv, Control, Holding, BackedInv
  <2>2. /\ corpus' = Replace(view[t], rec[t])
        /\ view' = [view EXCEPT ![t] = {}]
        /\ UNCHANGED <<ledger, todo, sup, rec>>
    BY <1>8 DEF WriteRecords
  <2>3. corpus' \subseteq BackedRecords /\ OnePerId(corpus')
    BY <2>1, <2>2, ReplaceFacts DEF BackedInv
  <2>4. \A u \in Threads : OnePerId(view'[u])
    BY <2>2 DEF BackedInv, OnePerId
  <2> QED
    BY <1>0, <2>2, <2>3, <2>4 DEF BackedInv
<1>9. ASSUME NEW t \in Threads, Log(t) PROVE BackedInv'
  <2>1. \E e : ledger' = Append(ledger, e)
    BY <1>9 DEF Log
  <2>2. AcceptedIds \subseteq AcceptedIds' /\ ReplacedIds \subseteq ReplacedIds' /\ BackedRecords \subseteq BackedRecords'
    BY <2>1, LedgerGrows DEF TypeInv, TypeOK
  <2>3. UNCHANGED <<corpus, todo, rec, view>> /\ sup' = [sup EXCEPT ![t] = None]
    BY <1>9 DEF Log
  <2>4. \A u \in Threads : todo[u] \in Seq(AcceptedIds')
    BY <2>2 DEF BackedInv
  <2> QED
    BY <2>2, <2>3, <2>4 DEF BackedInv
<1>10. ASSUME NEW t \in Threads, GiveUp(t) PROVE BackedInv'
  BY <1>0, <1>10 DEF GiveUp, BackedInv
<1>11. ASSUME NEW p \in Processes, Crash(p) PROVE BackedInv'
  BY <1>0, <1>11 DEF Crash, BackedInv, OnePerId
<1>12. CASE UNCHANGED vars
  BY <1>0, <1>12 DEF vars, BackedInv
<1> QED
  BY <1>1, <1>2, <1>3, <1>4, <1>5, <1>6, <1>7, <1>8, <1>9, <1>10, <1>11, <1>12 DEF Next, ThreadStep

-----------------------------------------------------------------------------
(* A supersession is logged *)

\* Nothing is stored, so nothing is superseded.
LEMMA InitLogged == MemoryAssumption /\ Init => LogInv
BY DEF MemoryAssumption, Init, LogInv

\* What has failed stays failed.
LEMMA FailureStays == ASSUME [Next]_vars, ~failed' PROVE ~failed
BY DEF Next, vars, ThreadStep, AppendEvent, Reference, Emit, Transition, AddRow, ReadCorpus, Truncate, WriteRecords,
       Log, GiveUp, Crash

\* A step announces no fewer supersessions when nothing has failed: a thread leaves
\* "logsup" with the event.
LEMMA AnnouncedStays ==
  ASSUME MemoryAssumption, ~failed', TypeInv, [Next]_vars
  PROVE  AnnouncedIds \subseteq AnnouncedIds' /\ AnnouncedRecords \subseteq AnnouncedRecords'
<1>1. ASSUME NEW e, ledger' = Append(ledger, e) \/ ledger' = ledger,
             \A t \in Threads : pc[t] = "logsup" => pc'[t] = "logsup" /\ rec'[t] = rec[t]
      PROVE  AnnouncedIds \subseteq AnnouncedIds'
  <2>1. \A m : Logged("SUPERSEDED", m) => Logged("SUPERSEDED", m)'
    BY <1>1, LedgerGrows DEF TypeInv, TypeOK
  <2> QED
    BY <1>1, <2>1 DEF AnnouncedIds
<1>2. ASSUME NEW t \in Threads, Log(t) PROVE AnnouncedIds \subseteq AnnouncedIds'
  <2> DEFINE e == [type |-> IF pc[t] = "logsup" THEN "SUPERSEDED" ELSE "REFERENCED", memory |-> rec[t].id]
  <2>1. ledger' = Append(ledger, e) /\ ledger \in Seq(Event)
    BY <1>2 DEF Log, TypeInv, TypeOK
  <2>2. \A m : Logged("SUPERSEDED", m) => Logged("SUPERSEDED", m)'
    BY <2>1, LedgerGrows
  <2>3. Len(ledger') \in 1..Len(ledger') /\ ledger'[Len(ledger')] = e
    BY <2>1
  <2>4. pc[t] = "logsup" => Logged("SUPERSEDED", rec[t].id)'
    BY <1>2, <2>3 DEF Log, Logged
  <2>5. \A u \in Threads : u # t => pc'[u] = pc[u] /\ rec'[u] = rec[u]
    BY <1>2 DEF Log, TypeInv, TypeOK
  <2>6. \A m \in Memories, u \in Threads : pc[u] = "logsup" /\ rec[u].id = m => m \in AnnouncedIds'
    <3> SUFFICES ASSUME NEW m \in Memories, NEW u \in Threads, pc[u] = "logsup", rec[u].id = m
                 PROVE  m \in AnnouncedIds'
      OBVIOUS
    <3>1. CASE u = t
      <4>1. \E i \in 1..Len(ledger') : ledger'[i].type = "SUPERSEDED" /\ ledger'[i].memory = m
        BY <2>3, <3>1
      <4> QED
        BY <4>1 DEF AnnouncedIds, Logged
    <3>2. CASE u # t
      BY <2>5, <3>2 DEF AnnouncedIds
    <3> QED
      BY <3>1, <3>2
  <2> HIDE DEF e
  <2>7. \A m \in Memories : Logged("SUPERSEDED", m) => m \in AnnouncedIds'
    BY <2>2 DEF AnnouncedIds
  <2> QED
    BY <2>6, <2>7 DEF AnnouncedIds
<1>3. ASSUME NEW t \in Threads, \/ Emit(t) \/ Transition(t) \/ AddRow(t) \/ ReadCorpus(t) \/ Truncate(t) \/ WriteRecords(t)
      PROVE  AnnouncedIds \subseteq AnnouncedIds'
  <2>1. ledger' = ledger /\ \A u \in Threads : u # t => pc'[u] = pc[u] /\ rec'[u] = rec[u]
    BY <1>3 DEF Emit, Transition, AddRow, ReadCorpus, Truncate, WriteRecords, Resume, TypeInv, TypeOK
  <2>2. pc[t] # "logsup"
    BY <1>3 DEF Emit, Transition, AddRow, Adding, ReadCorpus, Truncate, WriteRecords
  <2> QED
    BY <1>1, <2>1, <2>2
<1>4. ASSUME NEW t \in Threads, NEW ms \in Emissions, NEW s \in Memories \cup {None}, AppendEvent(t, ms, s)
      PROVE  AnnouncedIds \subseteq AnnouncedIds'
  BY <1>1, <1>4 DEF AppendEvent, TypeInv, TypeOK
<1>5. ASSUME NEW t \in Threads, NEW m \in Memories, Reference(t, m) PROVE AnnouncedIds \subseteq AnnouncedIds'
  BY <1>1, <1>5 DEF Reference, TypeInv, TypeOK
<1>6. ASSUME UNCHANGED vars PROVE AnnouncedIds \subseteq AnnouncedIds'
  BY <1>6 DEF vars, AnnouncedIds, Logged
<1>7. AnnouncedIds \subseteq AnnouncedIds'
  BY <1>2, <1>3, <1>4, <1>5, <1>6 DEF Next, ThreadStep, GiveUp, Crash
<1> QED
  BY <1>7 DEF AnnouncedRecords

\* Every step that is not a failure keeps every stored supersession announced.
LEMMA NextLogged ==
  ASSUME MemoryAssumption, ~failed', TypeInv, LogInv, [Next]_vars
  PROVE  LogInv'
<1>0. AnnouncedIds \subseteq AnnouncedIds' /\ AnnouncedRecords \subseteq AnnouncedRecords'
  BY AnnouncedStays
<1>1. ASSUME NEW t \in Threads, NEW ms \in Emissions, NEW s \in Memories \cup {None}, AppendEvent(t, ms, s)
      PROVE  LogInv'
  BY <1>0, <1>1, NextEmissionFacts DEF AppendEvent, LogInv, TypeInv, TypeOK
<1>2. ASSUME NEW t \in Threads, NEW m \in Memories, Reference(t, m) PROVE LogInv'
  <2> DEFINE r == RecordOf(corpus, m)
  <2>1. r \in corpus /\ r \in Record /\ r.refs <= ops /\ r \in AnnouncedRecords
    BY <1>2, RecordOfId DEF Reference, TypeInv, TypeOK, RefsCounted, LogInv
  <2>2. [r EXCEPT !.refs = @ + 1] \in AnnouncedRecords
    <3>1. ops + 1 \in Nat /\ ops + 1 <= MaxOps /\ r.refs + 1 <= ops + 1 /\ MaxOps \in Nat
      BY <1>2, <2>1 DEF Reference, TypeInv, TypeOK, MemoryAssumption, Record
    <3> HIDE DEF r
    <3> QED
      BY <2>1, <3>1, Changed DEF AnnouncedRecords
  <2>3. rec' = [rec EXCEPT ![t] = [r EXCEPT !.refs = @ + 1]]
    BY <1>2 DEF Reference
  <2> HIDE DEF r
  <2> QED
    BY <1>0, <1>2, <2>2, <2>3 DEF Reference, LogInv, TypeInv, TypeOK
<1>3. ASSUME NEW t \in Threads, Emit(t) PROVE LogInv'
  BY <1>0, <1>3 DEF Emit, LogInv, TypeInv, TypeOK
<1>4. ASSUME NEW t \in Threads, Transition(t) PROVE LogInv'
  <2>1. UNCHANGED <<corpus, view>>
    BY <1>4 DEF Transition
  <2>2. pc' = [pc EXCEPT ![t] = "add"] \/ pc' = [pc EXCEPT ![t] = "idle"]
    BY <1>4 DEF Transition
  <2>3. \A u \in Threads : u # t => rec'[u] = rec[u]
    BY <1>4 DEF Transition, TypeInv, TypeOK
  <2> QED
    BY <1>0, <2>1, <2>2, <2>3 DEF LogInv, TypeInv, TypeOK
<1>5. ASSUME NEW t \in Threads, NEW R \in SUBSET AnnouncedRecords,
             pc[t] \in {"add", "addref", "write", "writeref"}, corpus' = Replace(R, rec[t]), Resume(t), rec' = rec,
             pc[t] = "addref" \/ pc[t] = "writeref" => rec[t] \in AnnouncedRecords
      PROVE  /\ corpus' \subseteq AnnouncedRecords'
             /\ \A u \in Threads : pc'[u] \in {"addref", "truncateref", "writeref"} => rec'[u] \in AnnouncedRecords'
  <2>1. rec[t] \in Record /\ rec[t].id \in Memories
    BY <1>5 DEF TypeInv, TypeOK, Control, Holding, Record
  <2>2. rec[t] \in AnnouncedRecords'
    <3>1. CASE pc[t] \in {"addref", "writeref"}
      BY <1>0, <1>5, <3>1
    <3>2. CASE pc[t] \notin {"addref", "writeref"} /\ rec[t].status = "superseded"
      <4>1. pc'[t] = "logsup"
        BY <1>5, <3>2 DEF Resume, TypeInv, TypeOK
      <4> QED
        BY <1>5, <2>1, <4>1 DEF AnnouncedRecords, AnnouncedIds
    <3>3. CASE rec[t].status # "superseded"
      BY <2>1, <3>3 DEF AnnouncedRecords
    <3> QED
      BY <3>1, <3>2, <3>3
  <2>3. \A x \in corpus' : x \in R \/ x = rec[t]
    BY <1>5, ReplaceFacts
  <2>4. \A u \in Threads : u # t => pc'[u] = pc[u]
    BY <1>5 DEF Resume, TypeInv, TypeOK
  <2>5. pc'[t] \notin {"addref", "truncateref", "writeref"}
    BY <1>5, NextEmissionFacts DEF Resume, TypeInv, TypeOK
  <2> QED
    BY <1>0, <1>5, <2>2, <2>3, <2>4, <2>5 DEF LogInv
<1>6. ASSUME NEW t \in Threads, AddRow(t) PROVE LogInv'
  BY <1>0, <1>5, <1>6 DEF AddRow, Adding, LogInv
<1>7. ASSUME NEW t \in Threads, WriteRecords(t) PROVE LogInv'
  <2>1. view[t] \in SUBSET AnnouncedRecords
    BY DEF LogInv
  <2>2. corpus' = Replace(view[t], rec[t]) /\ Resume(t) /\ rec' = rec /\ view' = [view EXCEPT ![t] = {}]
    BY <1>7 DEF WriteRecords
  <2>3. /\ corpus' \subseteq AnnouncedRecords'
        /\ \A u \in Threads : pc'[u] \in {"addref", "truncateref", "writeref"} => rec'[u] \in AnnouncedRecords'
    BY <1>5, <1>7, <2>1, <2>2 DEF WriteRecords, LogInv
  <2> QED
    BY <1>0, <2>2, <2>3 DEF LogInv
<1>8. ASSUME NEW t \in Threads, ReadCorpus(t) \/ Truncate(t) PROVE LogInv'
  BY <1>0, <1>8 DEF ReadCorpus, Adding, Truncate, LogInv, TypeInv, TypeOK
<1>9. ASSUME NEW t \in Threads, Log(t) PROVE LogInv'
  BY <1>0, <1>9 DEF Log, LogInv, TypeInv, TypeOK
<1>10. CASE UNCHANGED vars
  BY <1>0, <1>10 DEF vars, LogInv
<1> QED
  BY <1>1, <1>2, <1>3, <1>4, <1>6, <1>7, <1>8, <1>9, <1>10 DEF Next, ThreadStep, GiveUp, Crash

-----------------------------------------------------------------------------
(* No add is lost *)

\* Nothing has been added yet and nobody writes.
LEMMA InitFile == MemoryAssumption /\ Init => FileInv
BY DEF MemoryAssumption, Init, FileInv, NothingLost, Ids

\* With one process and no failure, or on SQLite, every step keeps the added
\* records in the corpus or with the thread that rewrites it.
LEMMA NextFile ==
  ASSUME MemoryAssumption, Undisturbed, TypeInv, FileInv, [Next]_vars
  PROVE  FileInv'
<1> DEFINE Rewriting == {"truncate", "truncateref", "write", "writeref"}
<1>0. \A s, t \in Threads : pc[s] \in Rewriting /\ pc[t] \in Rewriting => s = t
  <2>1. \A s, t \in Threads : pc[s] \in Rewriting => ProcessOf[s] = ProcessOf[t]
    BY DEF FileInv, Undisturbed, OneProcess, MemoryAssumption
  <2> QED
    BY <2>1 DEF FileInv
<1>1. ASSUME NEW t \in Threads, pc[t] \notin Rewriting, pc'[t] \notin Rewriting,
             \A u \in Threads : u # t => pc'[u] = pc[u], UNCHANGED <<corpus, lock, view, added>>
      PROVE  FileInv'
  <2>1. \A u \in Threads : pc'[u] \in Rewriting => pc'[u] = pc[u]
    BY <1>1
  <2>2. Writing' = Writing
    BY <1>1 DEF Writing
  <2> QED
    BY <1>1, <2>1, <2>2 DEF FileInv, NothingLost
<1>2. ASSUME NEW t \in Threads, NEW ms \in Emissions, NEW s \in Memories \cup {None}, AppendEvent(t, ms, s)
      PROVE  FileInv'
  BY <1>1, <1>2, NextEmissionFacts DEF AppendEvent, TypeInv, TypeOK
<1>3. ASSUME NEW t \in Threads, NEW m \in Memories, Reference(t, m) PROVE FileInv'
  BY <1>1, <1>3 DEF Reference, TypeInv, TypeOK
<1>4. ASSUME NEW t \in Threads, Emit(t) \/ Transition(t) \/ Log(t) PROVE FileInv'
  BY <1>1, <1>4 DEF Emit, Transition, Log, TypeInv, TypeOK
<1>5. ASSUME NEW t \in Threads, AddRow(t) PROVE FileInv'
  <2>1. ~Markdown /\ \A u \in Threads : pc[u] \notin Rewriting
    BY <1>5 DEF AddRow, FileInv
  <2>2. \A u \in Threads : pc'[u] \notin Rewriting
    BY <1>5, <2>1, NextEmissionFacts DEF AddRow, Resume, TypeInv, TypeOK
  <2>3. added \subseteq Ids(corpus)
    BY <2>1 DEF FileInv, NothingLost, Writing
  <2>4. added' \subseteq Ids(corpus')
    BY <1>5, <2>3, ReplaceFacts DEF AddRow
  <2> QED
    BY <2>2, <2>4 DEF FileInv, NothingLost
<1>6. ASSUME NEW t \in Threads, ReadCorpus(t) PROVE FileInv'
  <2>1. \A u \in Threads : pc[u] \notin Rewriting
    <3>1. \A u \in Threads : lock[ProcessOf[u]] = None
      BY <1>6 DEF ReadCorpus, Undisturbed, OneProcess
    <3> QED
      BY <3>1 DEF FileInv, MemoryAssumption
  <2>2. \A u \in Threads : pc'[u] \in Rewriting => u = t /\ pc'[t] \in {"truncate", "truncateref"}
    BY <1>6, <2>1 DEF ReadCorpus, Adding, TypeInv, TypeOK
  <2>3. view'[t] = corpus' /\ lock'[ProcessOf[t]] = t /\ added' = added /\ corpus' = corpus
    BY <1>6 DEF ReadCorpus, TypeInv, TypeOK, MemoryAssumption
  <2>4. added' \subseteq Ids(corpus')
    BY <2>1, <2>3 DEF FileInv, NothingLost, Writing
  <2> QED
    BY <1>6, <2>2, <2>3, <2>4 DEF FileInv, NothingLost, ReadCorpus
<1>7. ASSUME NEW t \in Threads, Truncate(t) PROVE FileInv'
  <2>1. \A u \in Threads : u # t => pc[u] \notin Rewriting
    BY <1>0, <1>7 DEF Truncate
  <2>2. pc'[t] \in {"write", "writeref"} /\ \A u \in Threads : u # t => pc'[u] \notin Rewriting
    BY <1>7, <2>1 DEF Truncate, TypeInv, TypeOK
  <2>3. view[t] = corpus /\ lock[ProcessOf[t]] = t /\ added \subseteq Ids(corpus)
    BY <1>7, <2>1 DEF Truncate, FileInv, NothingLost, Writing
  <2>4. Markdown
    BY <1>7 DEF Truncate, FileInv
  <2>5. Writing'
    BY <2>2 DEF Writing
  <2> QED
    BY <1>7, <2>2, <2>3, <2>4, <2>5 DEF FileInv, NothingLost, Truncate
<1>8. ASSUME NEW t \in Threads, WriteRecords(t) PROVE FileInv'
  <2>1. \A u \in Threads : u # t => pc[u] \notin Rewriting
    BY <1>0, <1>8 DEF WriteRecords
  <2>2. \A u \in Threads : pc'[u] \notin Rewriting
    BY <1>8, <2>1, NextEmissionFacts DEF WriteRecords, Resume, TypeInv, TypeOK
  <2>3. added \subseteq Ids(view[t])
    BY <1>8 DEF WriteRecords, FileInv
  <2>4. added' \subseteq Ids(corpus')
    BY <1>8, <2>3, ReplaceFacts DEF WriteRecords
  <2> QED
    BY <2>2, <2>4 DEF FileInv, NothingLost
<1>9. ASSUME NEW t \in Threads, GiveUp(t) PROVE FileInv'
  BY <1>1, <1>9 DEF GiveUp, TypeInv, TypeOK
<1>10. ASSUME NEW p \in Processes, Crash(p) PROVE FileInv'
  <2>1. ~Markdown /\ \A u \in Threads : pc[u] \notin Rewriting
    BY <1>10 DEF Crash, Undisturbed, FileInv
  <2>2. \A u \in Threads : pc'[u] \notin Rewriting
    BY <1>10, <2>1 DEF Crash
  <2>3. added \subseteq Ids(corpus)
    BY <2>1 DEF FileInv, NothingLost, Writing
  <2> QED
    BY <1>10, <2>2, <2>3 DEF Crash, FileInv, NothingLost
<1>11. CASE UNCHANGED vars
  BY <1>11 DEF vars, FileInv, NothingLost, Writing
<1> QED
  BY <1>2, <1>3, <1>4, <1>5, <1>6, <1>7, <1>8, <1>9, <1>10, <1>11 DEF Next, ThreadStep

-----------------------------------------------------------------------------
(* The theorems *)

\* The inductive invariant of the memory corpus, on either provider and whatever
\* fails: types, what a thread holds where it stands, and records, extracted
\* memories and supersessions that the ledger backs.
THEOREM MemoryInvariant == ASSUME MemoryAssumption PROVE Spec => [](TypeInv /\ BackedInv)
<1>1. Init => TypeInv /\ BackedInv
  BY InitTypes, InitBacked
<1>2. TypeInv /\ BackedInv /\ [Next]_vars => TypeInv' /\ BackedInv'
  BY NextTypes, NextBacked
<1> QED
  BY <1>1, <1>2, PTL DEF Spec

\* Type correctness of the memory corpus.
THEOREM TypeCorrect == ASSUME MemoryAssumption PROVE Spec => []TypeOK
<1>1. TypeInv => TypeOK
  BY DEF TypeInv
<1> QED
  BY <1>1, MemoryInvariant, PTL

\* Memory never runs ahead of the ledger and has one record per id, also when
\* processes die, several rewrite one memory.md, or calls fail half way
\* (db/event_store.py, markdown_provider.py, sqlite_provider.py).
THEOREM MemoryIsBacked == ASSUME MemoryAssumption PROVE Spec => []BackedByLedger
<1>1. BackedInv => BackedByLedger
  BY DEF BackedInv, BackedRecords, AcceptedIds, ReplacedIds, BackedByLedger, OneRecordPerId, OnePerId
<1> QED
  BY <1>1, MemoryInvariant, PTL

\* As long as no call has failed and no process has died, a superseded record has
\* its MEMORY_SUPERSEDED event in the ledger, or the thread that superseded it is
\* about to append it: on SQLite and on memory.md, and also where processes
\* overwrite each other's files (memory/lifecycle.py, reference_tracker.py).
THEOREM SupersessionsAreLogged == ASSUME MemoryAssumption PROVE Spec => []SupersessionLogged
<1> DEFINE Inv == failed \/ LogInv
<1>1. Init => Inv
  BY InitLogged
<1>2. TypeInv /\ Inv /\ [Next]_vars => Inv'
  <2> SUFFICES ASSUME TypeInv, Inv, [Next]_vars, ~failed' PROVE LogInv'
    OBVIOUS
  <2>1. ~failed
    BY FailureStays
  <2> QED
    BY <2>1, NextLogged
<1>3. Inv => SupersessionLogged
  BY DEF LogInv, AnnouncedRecords, AnnouncedIds, SupersessionLogged
<1> QED
  BY <1>1, <1>2, <1>3, MemoryInvariant, PTL DEF Spec

\* A record whose add_record has returned is in the corpus whenever nobody is
\* rewriting it: on SQLite whatever dies, and on memory.md with any number of
\* threads of one process (markdown_provider.py, sqlite_provider.py).
THEOREM NoAddIsLost == ASSUME MemoryAssumption, Undisturbed PROVE Spec => []NothingLost
<1>1. Init => FileInv
  BY InitFile
<1>2. TypeInv /\ FileInv /\ [Next]_vars => FileInv'
  BY NextFile
<1>3. FileInv => NothingLost
  BY DEF FileInv
<1> QED
  BY <1>1, <1>2, <1>3, MemoryInvariant, PTL DEF Spec

-----------------------------------------------------------------------------
(* The search *)

\* Of two positions one is ahead of the other, and then fewer are ahead of it.
LEMMA AheadCounts ==
    ASSUME NEW P \in SUBSET Nat, IsFiniteSet(P), NEW key, \A i \in P : key[i] \in Int
    PROVE  /\ Cardinality(P) \in Nat
           /\ \A i \in P : IsFiniteSet(Ahead(P, key, i)) /\ Cardinality(Ahead(P, key, i)) \in 0..Cardinality(P) - 1
           /\ \A i, j \in P : j \in Ahead(P, key, i) => Cardinality(Ahead(P, key, j)) < Cardinality(Ahead(P, key, i))
           /\ \A i, j \in P : i # j => i \in Ahead(P, key, j) \/ j \in Ahead(P, key, i)
<1>0. Cardinality(P) \in Nat
    BY FS_CardinalityType
<1>1. ASSUME NEW i \in P
      PROVE  IsFiniteSet(Ahead(P, key, i)) /\ Cardinality(Ahead(P, key, i)) \in 0..Cardinality(P) - 1
    <2>2. Ahead(P, key, i) \in SUBSET P /\ i \notin Ahead(P, key, i)
        BY DEF Ahead
    <2>3. /\ IsFiniteSet(Ahead(P, key, i)) /\ Cardinality(Ahead(P, key, i)) <= Cardinality(P)
          /\ Cardinality(Ahead(P, key, i)) # Cardinality(P)
        BY <2>2, FS_Subset
    <2>4. Cardinality(Ahead(P, key, i)) \in Nat
        BY <2>3, FS_CardinalityType
    <2> QED BY <1>0, <2>3, <2>4
<1>2. ASSUME NEW i \in P, NEW j \in P, j \in Ahead(P, key, i)
      PROVE  Cardinality(Ahead(P, key, j)) < Cardinality(Ahead(P, key, i))
    <2>0. key[i] \in Int /\ key[j] \in Int /\ (key[j] > key[i] \/ (key[j] = key[i] /\ j < i))
        BY <1>2 DEF Ahead
    <2>a. ASSUME NEW k \in Ahead(P, key, j) PROVE k \in Ahead(P, key, i)
        <3>1. k \in P /\ key[k] \in Int /\ (key[k] > key[j] \/ (key[k] = key[j] /\ k < j))
            BY <2>a DEF Ahead
        <3>2. key[k] > key[i] \/ (key[k] = key[i] /\ k < i)
            BY <2>0, <3>1
        <3> QED BY <3>1, <3>2 DEF Ahead
    <2>1. Ahead(P, key, j) \in SUBSET Ahead(P, key, i) /\ j \notin Ahead(P, key, j)
        <3>1. j \notin Ahead(P, key, j)
            BY <2>0 DEF Ahead
        <3> QED BY <2>a, <3>1
    <2>2. /\ Cardinality(Ahead(P, key, j)) <= Cardinality(Ahead(P, key, i))
          /\ Cardinality(Ahead(P, key, i)) # Cardinality(Ahead(P, key, j))
        BY <1>1, <1>2, <2>1, FS_Subset
    <2>3. Cardinality(Ahead(P, key, j)) \in Nat /\ Cardinality(Ahead(P, key, i)) \in Nat
        BY <1>0, <1>1
    <2> QED BY <2>2, <2>3
<1>3. \A i, j \in P : i # j => i \in Ahead(P, key, j) \/ j \in Ahead(P, key, i)
    BY DEF Ahead
<1> QED BY <1>0, <1>1, <1>2, <1>3

\* Every place is taken by one position, every position has a place, and no place
\* has a smaller key than a later one.
LEMMA PlacesSort ==
    ASSUME NEW P \in SUBSET Nat, IsFiniteSet(P), NEW key, \A i \in P : key[i] \in Int
    PROVE  /\ \A m \in 1..Cardinality(P) : Place(P, key, m) \in P
           /\ \A l, m \in 1..Cardinality(P) : l < m => key[Place(P, key, l)] >= key[Place(P, key, m)]
           /\ \A l, m \in 1..Cardinality(P) : Place(P, key, l) = Place(P, key, m) => l = m
           /\ \A i \in P : \E m \in 1..Cardinality(P) : Place(P, key, m) = i
<1> DEFINE n == Cardinality(P)
           rank == [i \in P |-> Cardinality(Ahead(P, key, i))]
<1>0. n \in Nat
    BY AheadCounts
<1>1. rank \in [P -> 0..n - 1]
    BY AheadCounts
<1>2. ASSUME NEW i \in P, NEW j \in P, i # j PROVE rank[i] # rank[j]
    <2>1. rank[i] \in 0..n - 1 /\ rank[j] \in 0..n - 1
        BY <1>1
    <2>2. rank[i] < rank[j] \/ rank[j] < rank[i]
        BY <1>2, AheadCounts
    <2> HIDE DEF rank
    <2> QED BY <1>0, <2>1, <2>2
<1>3. rank \in Injection(P, 0..n - 1)
    <2> HIDE DEF rank
    <2> QED BY <1>1, <1>2 DEF Injection, IsInjective
<1>4. \A p \in 0..n - 1 : \E i \in P : rank[i] = p
    <2>1. IsFiniteSet(0..n - 1) /\ Cardinality(0..n - 1) = n
        <3> HIDE DEF n
        <3>1. 0 \in Int /\ n - 1 \in Int /\ (0 > n - 1 => n = 0) /\ n - 1 - 0 + 1 = n
            BY <1>0
        <3> QED BY <3>1, FS_Interval
    <2> HIDE DEF rank
    <2>2. rank \in Surjection(P, 0..n - 1)
        BY <1>3, <2>1, FS_Injection
    <2> QED BY <2>2 DEF Surjection
<1>5. ASSUME NEW m \in 1..n PROVE Place(P, key, m) \in P /\ rank[Place(P, key, m)] = m - 1
    <2>1. PICK i \in P : rank[i] = m - 1
        BY <1>0, <1>4
    <2>2. Cardinality(Ahead(P, key, i)) = m - 1
        BY <2>1
    <2>3. Place(P, key, m) \in P /\ Cardinality(Ahead(P, key, Place(P, key, m))) = m - 1
        BY <2>2 DEF Place
    <2> QED BY <2>2, <2>3
<1>6. ASSUME NEW l \in 1..n, NEW m \in 1..n, l < m
      PROVE  key[Place(P, key, l)] >= key[Place(P, key, m)]
    <2> DEFINE i == Place(P, key, l)
               j == Place(P, key, m)
    <2>1. i \in P /\ j \in P /\ rank[i] = l - 1 /\ rank[j] = m - 1
        BY <1>5
    <2> HIDE DEF i, j
    <2>2. Cardinality(Ahead(P, key, i)) = l - 1 /\ Cardinality(Ahead(P, key, j)) = m - 1
        BY <2>1
    <2>3. j \notin Ahead(P, key, i)
        BY <1>0, <1>6, <2>1, <2>2, AheadCounts
    <2>4. key[i] >= key[j]
        BY <2>1, <2>3 DEF Ahead
    <2> QED BY <2>4 DEF i, j
<1>7. ASSUME NEW l \in 1..n, NEW m \in 1..n, Place(P, key, l) = Place(P, key, m) PROVE l = m
    <2>1. rank[Place(P, key, l)] = l - 1 /\ rank[Place(P, key, m)] = m - 1
        BY <1>5
    <2>2. l - 1 = m - 1
        BY <1>7, <2>1
    <2> QED BY <1>0, <2>2
<1>8. ASSUME NEW i \in P PROVE \E m \in 1..n : Place(P, key, m) = i
    <2> DEFINE m == rank[i] + 1
    <2>1. m \in 1..n /\ m - 1 = rank[i]
        BY <1>0, <1>1
    <2>2. Place(P, key, m) \in P /\ rank[Place(P, key, m)] = rank[i]
        BY <1>5, <2>1
    <2>3. Place(P, key, m) = i
        BY <1>2, <2>2
    <2> QED BY <2>1, <2>3
<1> QED BY <1>5, <1>6, <1>7, <1>8

\* A sorted sequence has the items at the positions, each at one place.
LEMMA SortedIs ==
    ASSUME NEW T, NEW s \in Seq(T), NEW P \in SUBSET DOMAIN s, NEW key, \A i \in P : key[i] \in Int
    PROVE  /\ IsFiniteSet(P) /\ P \in SUBSET Nat /\ Cardinality(P) \in Nat
           /\ Sorted(s, P, key) \in Seq(T) /\ Len(Sorted(s, P, key)) = Cardinality(P)
           /\ DOMAIN Sorted(s, P, key) = 1..Cardinality(P)
           /\ \A m \in 1..Cardinality(P) : Place(P, key, m) \in P /\ Sorted(s, P, key)[m] = s[Place(P, key, m)]
<1>1. DOMAIN s = 1..Len(s) /\ Len(s) \in Nat /\ \A i \in 1..Len(s) : s[i] \in T
    OBVIOUS
<1>2. IsFiniteSet(P) /\ P \in SUBSET Nat
    <2>1. IsFiniteSet(1..Len(s)) /\ P \in SUBSET (1..Len(s))
        BY <1>1, FS_Interval
    <2>2. IsFiniteSet(P)
        BY <2>1, FS_Subset
    <2> QED BY <1>1, <2>1, <2>2
<1>3. Cardinality(P) \in Nat
    BY <1>2, FS_CardinalityType
<1>4. \A m \in 1..Cardinality(P) : Place(P, key, m) \in P
    BY <1>2, PlacesSort
<1>5. \A m \in 1..Cardinality(P) : Sorted(s, P, key)[m] = s[Place(P, key, m)] /\ Sorted(s, P, key)[m] \in T
    BY <1>1, <1>4 DEF Sorted
<1>6. DOMAIN Sorted(s, P, key) = 1..Cardinality(P) /\ Sorted(s, P, key) = [m \in 1..Cardinality(P) |-> Sorted(s, P, key)[m]]
    BY DEF Sorted
<1>7. Sorted(s, P, key) \in Seq(T) /\ Len(Sorted(s, P, key)) = Cardinality(P)
    BY <1>3, <1>5, <1>6
<1> QED BY <1>2, <1>3, <1>4, <1>5, <1>6, <1>7

\* Nothing is there twice
Distinct(s) == \A i, j \in DOMAIN s : s[i].id = s[j].id => i = j

\* The items of s, the items of r at P and no other, each as often
SameItems(s, r, P) ==
    /\ \A m \in DOMAIN s : \E i \in P : s[m] = r[i]
    /\ \A i \in P : \E m \in DOMAIN s : s[m] = r[i]
    /\ Distinct(r) => Distinct(s)

\* Sorting leaves the items as they are.
LEMMA SortedKeeps ==
    ASSUME NEW T, NEW s \in Seq(T), NEW P \in SUBSET DOMAIN s, NEW key, \A i \in P : key[i] \in Int
    PROVE  SameItems(Sorted(s, P, key), s, P)
<1> DEFINE t == Sorted(s, P, key)
           n == Cardinality(P)
<1>0. /\ IsFiniteSet(P) /\ P \in SUBSET Nat
      /\ DOMAIN t = 1..n /\ \A m \in 1..n : Place(P, key, m) \in P /\ t[m] = s[Place(P, key, m)]
    BY SortedIs
<1>1. DOMAIN t = 1..n /\ \A m \in 1..n : Place(P, key, m) \in P /\ t[m] = s[Place(P, key, m)]
    BY <1>0
<1>2. IsFiniteSet(P) /\ P \in SUBSET Nat
    BY <1>0
<1>3. /\ \A l, m \in 1..n : Place(P, key, l) = Place(P, key, m) => l = m
      /\ \A i \in P : \E m \in 1..n : Place(P, key, m) = i
    BY <1>2, PlacesSort
<1> HIDE DEF t, n
<1>4. \A m \in DOMAIN t : \E i \in P : t[m] = s[i]
    BY <1>1
<1>5. ASSUME NEW i \in P PROVE \E m \in DOMAIN t : t[m] = s[i]
    BY <1>1, <1>3
<1>6. ASSUME Distinct(s) PROVE Distinct(t)
    <2>1. SUFFICES ASSUME NEW l \in 1..n, NEW m \in 1..n, t[l].id = t[m].id PROVE l = m
        BY <1>1 DEF Distinct
    <2>2. Place(P, key, l) \in DOMAIN s /\ Place(P, key, m) \in DOMAIN s
        BY <1>1
    <2>3. s[Place(P, key, l)].id = s[Place(P, key, m)].id
        BY <1>1, <2>1
    <2>4. Place(P, key, l) = Place(P, key, m)
        BY <1>6, <2>2, <2>3 DEF Distinct
    <2> QED BY <1>3, <2>4
<1>7. SameItems(t, s, P)
    BY <1>4, <1>5, <1>6 DEF SameItems
<1> QED BY <1>7 DEF t

\* Keeping some items changes nothing else.
LEMMA KeptIs ==
    ASSUME NEW T, NEW s \in Seq(T), NEW P \in SUBSET DOMAIN s
    PROVE  /\ Kept(s, P) \in Seq(T) /\ Len(Kept(s, P)) = Cardinality(P) /\ Cardinality(P) \in Nat
           /\ SameItems(Kept(s, P), s, P)
<1> DEFINE key == [i \in P |-> 0]
<1>1. \A i \in P : key[i] \in Int
    OBVIOUS
<1> HIDE DEF key
<1>2. /\ Sorted(s, P, key) \in Seq(T) /\ Len(Sorted(s, P, key)) = Cardinality(P) /\ Cardinality(P) \in Nat
      /\ SameItems(Sorted(s, P, key), s, P)
    <2>1. /\ Sorted(s, P, key) \in Seq(T) /\ Len(Sorted(s, P, key)) = Cardinality(P)
          /\ Cardinality(P) \in Nat
        BY <1>1, SortedIs
    <2>2. SameItems(Sorted(s, P, key), s, P)
        BY <1>1, SortedKeeps
    <2> QED BY <2>1, <2>2
<1> QED BY <1>2 DEF Kept, key

-----------------------------------------------------------------------------
\* The rows the provider may hold: a memory as first recorded, or with other
\* references or another status
Statuses == {r.status : r \in MemoryMenu} \cup {"superseded"}
Rows == MemoryMenu \cup {Revised(r, n, x) : r \in MemoryMenu, n \in Nat, x \in Statuses}

\* What no revision changes
SameMemory(r, o) ==
    /\ r.id = o.id /\ r.type = o.type /\ r.words = o.words /\ r.phrases = o.phrases /\ r.priority = o.priority
    /\ r.recency = o.recency /\ r.confidence = o.confidence /\ r.events = o.events

\* A row is of one memory of the menu.
LEMMA RowsAre ==
    ASSUME RetrievalAssumption, NEW r \in Rows
    PROVE  /\ \E o \in MemoryMenu : SameMemory(r, o)
           /\ r.references \in Nat /\ r.status \in Statuses
<1>1. CASE r \in MemoryMenu
    BY <1>1 DEF SameMemory, Statuses, RetrievalAssumption
<1>2. CASE \E o \in MemoryMenu, n \in Nat, x \in Statuses : r = Revised(o, n, x)
    <2>1. PICK o \in MemoryMenu, n \in Nat, x \in Statuses : r = Revised(o, n, x)
        BY <1>2
    <2>2. SameMemory(r, o) /\ r.references = n /\ r.status = x
        BY <2>1 DEF SameMemory, Revised
    <2> QED BY <2>2
<1> QED BY <1>1, <1>2 DEF Rows

\* A revision of a row is a row.
LEMMA RevisedIsRow ==
    ASSUME RetrievalAssumption, NEW r \in Rows, NEW n \in Nat, NEW x \in Statuses
    PROVE  Revised(r, n, x) \in Rows
<1>1. PICK o \in MemoryMenu : SameMemory(r, o)
    BY RowsAre
<1>2. Revised(r, n, x) = Revised(o, n, x)
    BY <1>1 DEF SameMemory, Revised
<1> QED BY <1>2 DEF Rows

\* An id stands for one memory: what a query finds in one row of it, it finds in
\* every other.
LEMMA OneMemory ==
    ASSUME RetrievalAssumption, NEW r \in Rows, NEW q \in Rows, r.id = q.id, NEW query
    PROVE  MatchCount(r, query) = MatchCount(q, query)
<1>1. PICK o \in MemoryMenu : SameMemory(r, o)
    BY RowsAre
<1>2. PICK p \in MemoryMenu : SameMemory(q, p)
    BY RowsAre
<1>3. o = p
    BY <1>1, <1>2 DEF RetrievalAssumption, SameMemory
<1> QED BY <1>1, <1>2, <1>3 DEF SameMemory, MatchCount

\* Scores and counts of rows are numbers.
LEMMA RowNumbers ==
    ASSUME RetrievalAssumption, NEW r \in Rows
    PROVE  /\ r.priority \in Int
           /\ \A query \in QueryMenu : MatchCount(r, query) \in Nat
           /\ \A profile : Boosted(r, profile) \in Int
<1>1. PICK o \in MemoryMenu : SameMemory(r, o)
    BY RowsAre
<1>2. r.priority \in Int /\ r.recency \in Int /\ r.confidence \in Int /\ r.references \in Nat
    BY <1>1, RowsAre DEF RetrievalAssumption, SameMemory
<1>3. ASSUME NEW query \in QueryMenu PROVE MatchCount(r, query) \in Nat
    <2>1. IsFiniteSet(query.words)
        BY DEF RetrievalAssumption
    <2>2. IsFiniteSet(query.words \cap (r.words \cup {r.type}))
        BY <2>1, FS_Intersection
    <2> QED BY <2>2, FS_CardinalityType DEF MatchCount
<1>4. ASSUME NEW profile PROVE Boosted(r, profile) \in Int
    <2>1. Booster(profile, r.type) \in Int
        BY DEF Booster
    <2>2. LifecyclePenalty(r.status) \in Int /\ ReferenceScore(r.references) \in Int
        BY DEF LifecyclePenalty, ReferenceScore
    <2>3. RetrievalScore(r) \in Int
        BY <1>2, <2>2 DEF RetrievalScore
    <2> QED BY <2>1, <2>3 DEF Boosted
<1> QED BY <1>2, <1>3, <1>4

\* The first n of a sequence.
LEMMA FirstIs ==
    ASSUME NEW T, NEW s \in Seq(T), NEW n \in Nat
    PROVE  /\ First(s, n) \in Seq(T) /\ Len(First(s, n)) = Lesser(n, Len(s)) /\ DOMAIN First(s, n) = 1..Lesser(n, Len(s))
           /\ Lesser(n, Len(s)) \in Nat /\ Lesser(n, Len(s)) <= n /\ Lesser(n, Len(s)) <= Len(s)
           /\ \A i \in 1..Lesser(n, Len(s)) : i \in DOMAIN s /\ First(s, n)[i] = s[i]
<1>1. Len(s) \in Nat /\ DOMAIN s = 1..Len(s) /\ \A i \in 1..Len(s) : s[i] \in T
    OBVIOUS
<1>2. Lesser(n, Len(s)) \in Nat /\ Lesser(n, Len(s)) <= n /\ Lesser(n, Len(s)) <= Len(s)
    BY <1>1 DEF Lesser
<1>3. \A i \in 1..Lesser(n, Len(s)) : i \in DOMAIN s /\ First(s, n)[i] = s[i] /\ First(s, n)[i] \in T
    BY <1>1, <1>2 DEF First
<1>4. DOMAIN First(s, n) = 1..Lesser(n, Len(s)) /\ First(s, n) = [i \in 1..Lesser(n, Len(s)) |-> First(s, n)[i]]
    BY DEF First
<1>5. First(s, n) \in Seq(T) /\ Len(First(s, n)) = Lesser(n, Len(s))
    BY <1>2, <1>3, <1>4
<1> QED BY <1>2, <1>3, <1>4, <1>5

\* The matches are what of the rows matches the query.
LEMMA KeywordMatchesAre ==
    ASSUME RetrievalAssumption, NEW s \in Seq(Rows), NEW query \in QueryMenu
    PROVE  /\ KeywordMatches(s, query) \in Seq(Rows)
           /\ SameItems(KeywordMatches(s, query), s, {i \in DOMAIN s : MatchCount(s[i], query) > 0})
<1> DEFINE P == {i \in DOMAIN s : MatchCount(s[i], query) > 0}
           key == [i \in DOMAIN s |-> MatchCount(s[i], query)]
<1>1. P \in SUBSET DOMAIN s /\ \A i \in DOMAIN s : s[i] \in Rows
    OBVIOUS
<1>2. \A i \in P : key[i] \in Int
    BY <1>1, RowNumbers
<1>3. KeywordMatches(s, query) = Sorted(s, P, key)
    BY DEF KeywordMatches
<1> HIDE DEF P, key
<1>4. Sorted(s, P, key) \in Seq(Rows) /\ SameItems(Sorted(s, P, key), s, P)
    BY <1>1, <1>2, SortedIs, SortedKeeps
<1>5. KeywordMatches(s, query) \in Seq(Rows) /\ SameItems(KeywordMatches(s, query), s, P)
    BY <1>3, <1>4
<1> QED BY <1>5 DEF P

\* Ranking keeps every row, the best first.
LEMMA ExecutePlanIs ==
    ASSUME RetrievalAssumption, NEW s \in Seq(Rows), NEW profile
    PROVE  /\ ExecutePlan(s, profile) \in Seq(Rows)
           /\ SameItems(ExecutePlan(s, profile), s, DOMAIN s)
           /\ \A l, m \in DOMAIN ExecutePlan(s, profile) :
                l < m => Boosted(ExecutePlan(s, profile)[l], profile) >= Boosted(ExecutePlan(s, profile)[m], profile)
<1> DEFINE P == DOMAIN s
           key == [i \in DOMAIN s |-> Boosted(s[i], profile)]
           t == Sorted(s, P, key)
<1>1. P \in SUBSET DOMAIN s /\ \A i \in DOMAIN s : s[i] \in Rows
    OBVIOUS
<1>2. \A i \in P : key[i] \in Int /\ key[i] = Boosted(s[i], profile)
    BY <1>1, RowNumbers
<1>3. ExecutePlan(s, profile) = t
    BY DEF ExecutePlan
<1> HIDE DEF P, key
<1>4. /\ t \in Seq(Rows) /\ SameItems(t, s, P) /\ IsFiniteSet(P) /\ P \in SUBSET Nat
      /\ DOMAIN t = 1..Cardinality(P)
      /\ \A m \in 1..Cardinality(P) : Place(P, key, m) \in P /\ t[m] = s[Place(P, key, m)]
    BY <1>1, <1>2, SortedIs, SortedKeeps
<1>5. \A l, m \in 1..Cardinality(P) : l < m => key[Place(P, key, l)] >= key[Place(P, key, m)]
    BY <1>2, <1>4, PlacesSort
<1> HIDE DEF t
<1>6. ASSUME NEW l \in DOMAIN t, NEW m \in DOMAIN t, l < m
      PROVE  Boosted(t[l], profile) >= Boosted(t[m], profile)
    <2>1. key[Place(P, key, l)] >= key[Place(P, key, m)]
        BY <1>4, <1>5, <1>6
    <2>2. /\ key[Place(P, key, l)] = Boosted(t[l], profile)
          /\ key[Place(P, key, m)] = Boosted(t[m], profile)
        BY <1>2, <1>4
    <2> QED BY <2>1, <2>2
<1> QED BY <1>3, <1>4, <1>6 DEF P

\* What may be cited
Citations == {Citation(r, query) : r \in Rows, query \in QueryMenu}

\* Citations a search for the query may return: nothing twice, and only what matches
Cited(c, query, limit) ==
    /\ c \in Seq(Citations) /\ Len(c) <= limit /\ Distinct(c)
    /\ \A i \in DOMAIN c : \E r \in Rows : r.id = c[i].id /\ MatchCount(r, query) > 0

LeftOut(r, c, query) == MatchCount(r, query) > 0 /\ \A i \in DOMAIN c : c[i].id # r.id

\* What of s was left out was so for want of places, and is no better than any row
\* that was cited
BestCited(c, s, records, query, profile, limit) ==
    \A j \in DOMAIN s : LeftOut(s[j], c, query) =>
        /\ Len(c) = limit
        /\ \A i \in DOMAIN c, k \in DOMAIN records :
              records[k].id = c[i].id => Boosted(records[k], profile) >= Boosted(s[j], profile)

\* The search cites the best of the rows it ranks.
LEMMA CiteIs ==
    ASSUME RetrievalAssumption, NEW s \in Seq(Rows), Distinct(s), NEW query \in QueryMenu, NEW profile,
           NEW limit \in Nat
    PROVE  /\ Cited(Cite(s, query, profile, limit), query, limit)
           /\ \A i \in DOMAIN Cite(s, query, profile, limit) :
                 \E j \in DOMAIN s : s[j].id = Cite(s, query, profile, limit)[i].id
           /\ BestCited(Cite(s, query, profile, limit), s, s, query, profile, limit)
<1> DEFINE P == {i \in DOMAIN s : MatchCount(s[i], query) > 0}
           k == KeywordMatches(s, query)
           e == ExecutePlan(k, profile)
           top == First(e, limit)
           n == Lesser(limit, Len(e))
           c == Cite(s, query, profile, limit)
<1>1. k \in Seq(Rows) /\ SameItems(k, s, P)
    BY KeywordMatchesAre
<1> HIDE DEF k
<1>2. /\ e \in Seq(Rows) /\ SameItems(e, k, DOMAIN k)
      /\ \A l, m \in DOMAIN e : l < m => Boosted(e[l], profile) >= Boosted(e[m], profile)
    BY <1>1, ExecutePlanIs
<1> HIDE DEF e
<1>3. /\ top \in Seq(Rows) /\ DOMAIN top = 1..n /\ n \in Nat /\ n <= limit /\ n <= Len(e)
      /\ \A i \in 1..n : i \in DOMAIN e /\ top[i] = e[i]
    BY <1>2, FirstIs
<1>4. c = [i \in DOMAIN top |-> Citation(top[i], query)]
    BY DEF Cite, e, k
<1>a. DOMAIN e = 1..Len(e) /\ Len(e) \in Nat /\ \A i \in DOMAIN e : e[i] \in Rows
    BY <1>2
<1>b. n = limit \/ n = Len(e)
    BY <1>a DEF Lesser
<1> HIDE DEF top, n, c
<1>5. ASSUME NEW i \in 1..n
      PROVE  i \in DOMAIN e /\ e[i] \in Rows /\ c[i] = Citation(e[i], query) /\ c[i].id = e[i].id /\ c[i] \in Citations
    <2>1. i \in DOMAIN e /\ top[i] = e[i] /\ e[i] \in Rows
        BY <1>3, <1>a
    <2>2. c[i] = Citation(e[i], query)
        BY <1>3, <1>4, <2>1
    <2>3. c[i].id = e[i].id
        BY <2>2 DEF Citation
    <2> QED BY <2>1, <2>2, <2>3 DEF Citations
<1>6. DOMAIN c = 1..n /\ c \in Seq(Citations) /\ Len(c) = n
    <2>1. c = [i \in 1..n |-> c[i]]
        BY <1>3, <1>4
    <2>2. DOMAIN c = 1..n
        BY <1>3, <1>4
    <2> QED BY <1>3, <1>5, <2>1, <2>2
<1>7. ASSUME NEW i \in DOMAIN e PROVE \E j \in DOMAIN s : s[j] = e[i] /\ MatchCount(s[j], query) > 0
    <2>1. PICK l \in DOMAIN k : e[i] = k[l]
        BY <1>2 DEF SameItems
    <2>2. PICK j \in P : k[l] = s[j]
        BY <1>1 DEF SameItems
    <2> QED BY <2>1, <2>2
<1>8. Distinct(e)
    BY <1>1, <1>2 DEF SameItems
<1>9. Distinct(c)
    <2>1. SUFFICES ASSUME NEW i \in 1..n, NEW j \in 1..n, c[i].id = c[j].id PROVE i = j
        BY <1>6 DEF Distinct
    <2>2. e[i].id = e[j].id /\ i \in DOMAIN e /\ j \in DOMAIN e
        BY <1>5, <2>1
    <2> QED BY <1>8, <2>2 DEF Distinct
<1>10. Cited(c, query, limit)
    <2>1. ASSUME NEW i \in DOMAIN c PROVE \E r \in Rows : r.id = c[i].id /\ MatchCount(r, query) > 0
        <3>1. i \in DOMAIN e /\ e[i] \in Rows /\ c[i].id = e[i].id
            BY <1>5, <1>6
        <3>2. MatchCount(e[i], query) > 0
            BY <1>7, <3>1
        <3> QED BY <3>1, <3>2
    <2>2. Len(c) <= limit
        BY <1>3, <1>6
    <2> QED BY <1>6, <1>9, <2>1, <2>2 DEF Cited
<1>11. ASSUME NEW i \in DOMAIN c PROVE \E j \in DOMAIN s : s[j].id = c[i].id
    <2>1. i \in DOMAIN e /\ c[i].id = e[i].id
        BY <1>5, <1>6
    <2> QED BY <1>7, <2>1
<1>12. ASSUME NEW j \in DOMAIN s, LeftOut(s[j], c, query)
       PROVE  /\ Len(c) = limit
              /\ \A i \in DOMAIN c, l \in DOMAIN s :
                    s[l].id = c[i].id => Boosted(s[l], profile) >= Boosted(s[j], profile)
    <2>1. j \in P
        BY <1>12 DEF LeftOut
    <2>2. PICK g \in DOMAIN k : k[g] = s[j]
        BY <1>1, <2>1 DEF SameItems
    <2>3. PICK m \in DOMAIN e : e[m] = k[g]
        BY <1>2, <2>2 DEF SameItems
    <2>4. m \notin 1..n
        <3>1. SUFFICES ASSUME m \in 1..n PROVE FALSE
            OBVIOUS
        <3>2. c[m].id = s[j].id /\ m \in DOMAIN c
            BY <1>5, <1>6, <2>2, <2>3, <3>1
        <3> QED BY <1>12, <3>2 DEF LeftOut
    <2>5. n < m /\ n = limit /\ m \in Nat
        <3>1. Len(e) \in Nat /\ n \in Nat /\ m \in 1..Len(e)
            BY <1>3, <1>a, <2>3
        <3>2. n < m
            BY <2>4, <3>1
        <3>3. n # Len(e)
            BY <3>1, <3>2
        <3> QED BY <1>b, <3>1, <3>2, <3>3
    <2>6. ASSUME NEW i \in DOMAIN c, NEW l \in DOMAIN s, s[l].id = c[i].id
          PROVE  Boosted(s[l], profile) >= Boosted(s[j], profile)
        <3>1. i \in 1..n /\ i \in DOMAIN e /\ c[i].id = e[i].id
            BY <1>5, <1>6
        <3>2. PICK h \in DOMAIN s : s[h] = e[i]
            BY <1>7, <3>1
        <3>3. h = l
            BY <2>6, <3>1, <3>2 DEF Distinct
        <3>4. i < m
            BY <1>3, <2>5, <3>1
        <3>5. Boosted(e[i], profile) >= Boosted(e[m], profile)
            BY <1>2, <2>3, <3>1, <3>4
        <3> QED BY <2>2, <2>3, <3>2, <3>3, <3>5
    <2> QED BY <1>6, <2>5, <2>6
<1>13. BestCited(c, s, s, query, profile, limit)
    BY <1>12 DEF BestCited
<1> QED BY <1>10, <1>11, <1>13 DEF c

-----------------------------------------------------------------------------
\* The order of the natural numbers, which is well-founded
Precedes == {p \in Nat \X Nat : p[1] < p[2]}

\* A set of natural numbers that is not empty has a least element.
LEMMA LeastOf ==
    ASSUME NEW S, S \subseteq Nat, S # {}
    PROVE  \E n \in S : \A m \in S : n <= m
<1>1. IsWellFoundedOn(Precedes, Nat)
    BY NatLessThanWellFounded, Zenon DEF OpToRel, Precedes
<1>2. \E x \in S : \A y \in S : ~(<<y, x>> \in Precedes)
    BY <1>1, WFMin
<1>3. \A x, y \in S : ~(<<y, x>> \in Precedes) => x <= y
    BY DEF Precedes
<1> QED BY <1>2, <1>3

NoClusters == << >>

\* f is what the recursion of ClustersAfter says, up to m
ClustersFold(f, m, records) ==
    f = [n \in 0..m |-> IF n = 0 THEN NoClusters ELSE DetectStep(records, f[n - 1], n)]

\* The loop over the records defines the clusters after each.
LEMMA ClustersAfterIs ==
    ASSUME NEW T, NEW records \in Seq(T)
    PROVE  /\ ClustersAfter(records)[0] = NoClusters
           /\ \A n \in 1..Len(records) :
                 ClustersAfter(records)[n] = DetectStep(records, ClustersAfter(records)[n - 1], n)
<1> DEFINE Bad == {k \in 0..Len(records) : ~\E f : ClustersFold(f, k, records)}
<1>0. Len(records) \in Nat
    OBVIOUS
<1>1. ASSUME Bad # {} PROVE FALSE
    <2>1. Bad \subseteq Nat
        OBVIOUS
    <2>2. PICK k \in Bad : \A j \in Bad : k <= j
        BY <1>1, <2>1, LeastOf
    <2>3. CASE k = 0
        <3>1. ClustersFold([n \in 0..0 |-> NoClusters], 0, records)
            BY DEF ClustersFold
        <3> QED BY <2>3, <3>1
    <2>4. CASE k # 0
        <3>1. k - 1 \in 0..Len(records) /\ k - 1 \notin Bad
            BY <2>2, <2>4
        <3>2. PICK g : ClustersFold(g, k - 1, records)
            BY <3>1
        <3> DEFINE f == [n \in 0..k |-> IF n = k THEN DetectStep(records, g[k - 1], k) ELSE g[n]]
        <3>3. \A n \in 0..k : f[n] = IF n = 0 THEN NoClusters ELSE DetectStep(records, f[n - 1], n)
            <4>1. k \in Nat /\ k > 0 /\ 0..(k - 1) \subseteq 0..k
                BY <2>1, <2>4
            <4>2. \A n \in 0..(k - 1) : g[n] = IF n = 0 THEN NoClusters ELSE DetectStep(records, g[n - 1], n)
                BY <3>2 DEF ClustersFold
            <4> HIDE DEF Bad
            <4>3. \A n \in 0..(k - 1) : f[n] = g[n]
                BY <4>1
            <4>4. f[k] = DetectStep(records, f[k - 1], k)
                BY <4>1, <4>3
            <4> HIDE DEF f
            <4> QED BY <4>1, <4>2, <4>3, <4>4
        <3>4. DOMAIN f = 0..k /\ f = [n \in 0..k |-> f[n]]
            OBVIOUS
        <3>5. ClustersFold(f, k, records)
            <4> HIDE DEF f
            <4> QED BY <3>3, <3>4 DEF ClustersFold
        <3> QED BY <3>5
    <2> QED BY <2>3, <2>4
<1>2. \E f : ClustersFold(f, Len(records), records)
    BY <1>0, <1>1
<1>3. ClustersAfter(records) = CHOOSE f : ClustersFold(f, Len(records), records)
    BY DEF ClustersAfter, ClustersFold, NoClusters
<1>4. ClustersFold(ClustersAfter(records), Len(records), records)
    BY <1>2, <1>3
<1> DEFINE c == ClustersAfter(records)
<1> HIDE DEF c
<1>5. c = [n \in 0..Len(records) |-> IF n = 0 THEN NoClusters ELSE DetectStep(records, c[n - 1], n)]
    BY <1>4 DEF c, ClustersFold
<1>6. c[0] = NoClusters /\ \A n \in 1..Len(records) : c[n] = DetectStep(records, c[n - 1], n)
    BY <1>0, <1>5
<1> QED BY <1>6 DEF c

Disjoint(clusters) == \A i, j \in DOMAIN clusters : i # j => clusters[i] \cap clusters[j] = {}

\* A cluster has nothing that an earlier one took.
LEMMA DetectStepKeeps ==
    ASSUME NEW records, NEW clusters \in Seq(SUBSET IdsOf(records)), Disjoint(clusters), NEW n \in DOMAIN records,
           DOMAIN records = 1..Len(records), Len(records) \in Nat
    PROVE  /\ DetectStep(records, clusters, n) \in Seq(SUBSET IdsOf(records))
           /\ Disjoint(DetectStep(records, clusters, n))
<1> DEFINE visited == UNION ToSet(clusters)
           fresh == {j \in n + 1 .. Len(records) :
                        records[j].id \notin visited /\ SimilarRecords(records[n], records[j])}
           cluster == {records[n].id} \cup {records[j].id : j \in fresh}
           next == DetectStep(records, clusters, n)
<1>1. next = IF records[n].id \notin visited /\ Cardinality(cluster) > 1 THEN Append(clusters, cluster) ELSE clusters
    BY DEF DetectStep
<1>2. cluster \in SUBSET IdsOf(records)
    BY DEF IdsOf
<1>3. \A i \in DOMAIN clusters : clusters[i] \subseteq visited
    BY DEF ToSet
<1>4. records[n].id \notin visited => cluster \cap visited = {}
    OBVIOUS
<1>5. CASE next = clusters
    BY <1>5
<1>6. CASE records[n].id \notin visited /\ next = Append(clusters, cluster)
    <2> HIDE DEF next, cluster, visited
    <2>1. \A i \in DOMAIN clusters : clusters[i] \cap cluster = {}
        BY <1>3, <1>4, <1>6
    <2>2. /\ next \in Seq(SUBSET IdsOf(records)) /\ Len(next) = Len(clusters) + 1 /\ Len(clusters) \in Nat
          /\ next[Len(clusters) + 1] = cluster
          /\ \A i \in DOMAIN clusters : next[i] = clusters[i]
          /\ DOMAIN clusters = 1..Len(clusters) /\ DOMAIN next = 1..(Len(clusters) + 1)
        BY <1>2, <1>6
    <2>3. ASSUME NEW i \in DOMAIN next, NEW j \in DOMAIN next, i # j
          PROVE  next[i] \cap next[j] = {}
        <3>1. CASE i \in DOMAIN clusters /\ j \in DOMAIN clusters
            BY <2>2, <2>3, <3>1 DEF Disjoint
        <3>2. CASE i = Len(clusters) + 1 /\ j \in DOMAIN clusters
            BY <2>1, <2>2, <3>2
        <3>3. CASE j = Len(clusters) + 1 /\ i \in DOMAIN clusters
            BY <2>1, <2>2, <3>3
        <3>4. /\ i \in DOMAIN clusters \/ i = Len(clusters) + 1
              /\ j \in DOMAIN clusters \/ j = Len(clusters) + 1
            BY <2>2
        <3> QED BY <2>3, <3>1, <3>2, <3>3, <3>4
    <2>4. next \in Seq(SUBSET IdsOf(records)) /\ Disjoint(next)
        BY <2>2, <2>3 DEF Disjoint
    <2> QED BY <2>4 DEF next
<1> QED BY <1>1, <1>5, <1>6

\* So the clusters of a table are disjoint.
LEMMA ClustersDisjoint ==
    ASSUME NEW T, NEW records \in Seq(T)
    PROVE  Disjoint(DetectCandidates(records))
<1> DEFINE P == {i \in DOMAIN records : records[i].status = "active"}
           active == Kept(records, P)
<1>1. active \in Seq(T)
    <2>1. P \in SUBSET DOMAIN records
        OBVIOUS
    <2> HIDE DEF P
    <2> QED BY <2>1, KeptIs
<1>2. DetectCandidates(records) = ClustersAfter(active)[Len(active)]
    BY DEF DetectCandidates
<1> HIDE DEF active
<1> DEFINE c == ClustersAfter(active)
           Good(k) == c[k] \in Seq(SUBSET IdsOf(active)) /\ Disjoint(c[k])
           Bad == {k \in 0..Len(active) : ~Good(k)}
<1>3. DOMAIN active = 1..Len(active) /\ Len(active) \in Nat
    BY <1>1
<1>4. c[0] = NoClusters /\ \A n \in 1..Len(active) : c[n] = DetectStep(active, c[n - 1], n)
    BY <1>1, ClustersAfterIs
<1> HIDE DEF c
<1>5. ASSUME Bad # {} PROVE FALSE
    <2>1. Bad \subseteq Nat
        BY <1>3
    <2>2. PICK k \in Bad : \A j \in Bad : k <= j
        BY <1>5, <2>1, LeastOf
    <2>3. CASE k = 0
        <3>1. Good(0)
            <4>1. NoClusters \in Seq(SUBSET IdsOf(active)) /\ DOMAIN NoClusters = {}
                BY DEF NoClusters
            <4> QED BY <1>4, <4>1 DEF Disjoint
        <3> QED BY <2>2, <2>3, <3>1
    <2>4. CASE k # 0
        <3>1. k - 1 \in 0..Len(active) /\ k - 1 \notin Bad /\ k \in DOMAIN active
            BY <1>3, <2>2, <2>4
        <3>2. Good(k - 1)
            BY <3>1
        <3>3. c[k] = DetectStep(active, c[k - 1], k)
            BY <1>3, <1>4, <3>1
        <3>4. Good(k)
            BY <1>3, <3>1, <3>2, <3>3, DetectStepKeeps
        <3> QED BY <2>2, <3>4
    <2> QED BY <2>3, <2>4
<1>6. Good(Len(active))
    BY <1>3, <1>5
<1> QED BY <1>2, <1>6 DEF c

-----------------------------------------------------------------------------
Projections == {"continuation", "knowledge", "graph", "cross_project", "organization", "organization_graph"}

\* No intent weighs a projection negatively, and each weighs those it asks for.
LEMMA IntentWeighs ==
    ASSUME NEW i \in Intents, NEW p \in Projections
    PROVE  IntentWeight(i, p) \in Nat /\ (p \in IntentProjections[i] => IntentWeight(i, p) > 0)
<1>1. CASE i = "continuation"
    BY <1>1 DEF IntentWeight, IntentProjections, Projections
<1>2. CASE i = "impact_analysis"
    BY <1>2 DEF IntentWeight, IntentProjections, Projections
<1>3. CASE i = "cross_project"
    BY <1>3 DEF IntentWeight, IntentProjections, Projections
<1>4. CASE i = "organizational"
    BY <1>4 DEF IntentWeight, IntentProjections, Projections
<1>5. CASE i = "knowledge_query"
    BY <1>5 DEF IntentWeight, IntentProjections, Projections
<1>6. CASE i = "general"
    BY <1>6 DEF IntentWeight, IntentProjections, Projections
<1> QED BY <1>1, <1>2, <1>3, <1>4, <1>5, <1>6 DEF Intents

\* What is asked for has weight, whatever matched together.
LEMMA WeightsPositive ==
    ASSUME NEW matched \in SUBSET Intents, NEW p \in Requested(matched)
    PROVE  DOMAIN Weights(matched) = Requested(matched) /\ Weights(matched)[p] > 0
<1>1. PICK i \in matched : p \in IntentProjections[i]
    BY DEF Requested
<1>2. i \in Intents /\ p \in Projections
    BY <1>1 DEF Intents, IntentProjections, Projections
<1>3. \A j \in Intents : Share(matched, j, p) \in Nat
    BY <1>2, IntentWeighs DEF Share
<1>4. Share(matched, i, p) > 0
    BY <1>1, <1>2, IntentWeighs DEF Share
<1>5. Weights(matched)[p] =
        Share(matched, "continuation", p) + Share(matched, "impact_analysis", p) + Share(matched, "cross_project", p)
        + Share(matched, "organizational", p) + Share(matched, "knowledge_query", p) + Share(matched, "general", p)
    BY DEF Weights
<1>6. Weights(matched)[p] > 0
    BY <1>2, <1>3, <1>4, <1>5 DEF Intents
<1> QED BY <1>6 DEF Weights

-----------------------------------------------------------------------------
\* The provider holds one row per id; a search that runs was begun before the
\* writes that followed
TableInv == table \in Seq(Rows) /\ Distinct(table) /\ writes \in Nat

CallInv ==
    /\ call.step \in {"idle", "planned", "searched", "cited", "done"}
    /\ call.step \in {"planned", "searched", "cited"} => call.query \in QueryMenu /\ call.limit \in Limits
    /\ call.step # "idle" => call.start \in Nat /\ call.start <= writes

\* What was read is what is there, as long as nothing was written
SearchedInv ==
    call.step = "searched" =>
        /\ call.candidates \in Seq(Rows) /\ Distinct(call.candidates)
        /\ writes = call.start => \A i \in DOMAIN call.candidates : \E j \in DOMAIN table : table[j] = call.candidates[i]

Pool(found, limit) == IF Len(found) < limit THEN table ELSE found

CitedInv ==
    call.step = "cited" =>
        /\ Cited(call.citations, call.query, call.limit) /\ call.found \in Seq(Rows)
        /\ writes = call.start =>
              /\ \A i \in DOMAIN call.citations : \E j \in DOMAIN table : table[j].id = call.citations[i].id
              /\ BestCited(call.citations, Pool(call.found, call.limit), table, call.query, call.profile, call.limit)

\* A finished search returned pairs of a record and a score
DoneInv ==
    call.step = "done" =>
        LET ids == {p.record.id : p \in ToSet(call.pairs)}
        IN /\ Len(call.pairs) <= call.limit /\ Cardinality(ids) = Len(call.pairs)
           /\ \A p \in ToSet(call.pairs) : MatchCount(p.record, call.query) > 0
           /\ writes = call.start =>
                LET pool == IF Len(call.found) < call.limit THEN ToSet(table) ELSE ToSet(call.found)
                    missed == {r \in pool : r.id \notin ids /\ MatchCount(r, call.query) > 0}
                IN  missed # {} =>
                      /\ Len(call.pairs) = call.limit
                      /\ \A p \in ToSet(call.pairs), r \in missed :
                            Boosted(p.record, call.profile) >= Boosted(r, call.profile)

SearchInv == TableInv /\ CallInv /\ SearchedInv /\ CitedInv /\ DoneInv /\ PlanWeighed

\* Writing a row replaces the one with its id.
LEMMA AddRecordKeeps ==
    ASSUME NEW s \in Seq(Rows), Distinct(s), NEW r \in Rows
    PROVE  AddRecord(s, r) \in Seq(Rows) /\ Distinct(AddRecord(s, r))
<1> DEFINE P == {i \in DOMAIN s : s[i].id # r.id}
           k == Kept(s, P)
           t == Append(k, r)
<1>1. k \in Seq(Rows) /\ SameItems(k, s, P)
    <2>1. P \in SUBSET DOMAIN s
        OBVIOUS
    <2> HIDE DEF P
    <2> QED BY <2>1, KeptIs
<1>2. AddRecord(s, r) = t
    BY DEF AddRecord
<1> HIDE DEF k
<1>3. Distinct(k) /\ \A i \in DOMAIN k : k[i].id # r.id
    BY <1>1 DEF SameItems
<1> HIDE DEF P
<1>4. /\ t \in Seq(Rows) /\ DOMAIN t = 1..(Len(k) + 1) /\ DOMAIN k = 1..Len(k) /\ Len(k) \in Nat
      /\ \A i \in DOMAIN k : t[i] = k[i]
      /\ t[Len(k) + 1] = r
    BY <1>1
<1> HIDE DEF t
<1>5. ASSUME NEW i \in DOMAIN t, NEW j \in DOMAIN t, t[i].id = t[j].id PROVE i = j
    <2>1. /\ i \in DOMAIN k \/ i = Len(k) + 1
          /\ j \in DOMAIN k \/ j = Len(k) + 1
        BY <1>4
    <2>2. CASE i \in DOMAIN k /\ j \in DOMAIN k
        BY <1>3, <1>4, <1>5, <2>2 DEF Distinct
    <2>3. CASE i \in DOMAIN k /\ j = Len(k) + 1
        BY <1>3, <1>4, <1>5, <2>3
    <2>4. CASE j \in DOMAIN k /\ i = Len(k) + 1
        BY <1>3, <1>4, <1>5, <2>4
    <2> QED BY <2>1, <2>2, <2>3, <2>4
<1> QED BY <1>2, <1>4, <1>5 DEF Distinct

\* A write leaves the search what it has, and the search is then older.
LEMMA WriteKeeps ==
    ASSUME RetrievalAssumption, SearchInv, NEW r \in Rows, table' = AddRecord(table, r), writes' = writes + 1, call' = call
    PROVE  SearchInv'
<1>1. TableInv'
    BY AddRecordKeeps DEF SearchInv, TableInv
<1>2. CallInv'
    BY DEF SearchInv, TableInv, CallInv
<1>3. call.step # "idle" => writes' # call'.start
    BY DEF SearchInv, TableInv, CallInv
<1>4. SearchedInv'
    BY <1>3 DEF SearchInv, SearchedInv
<1>5. CitedInv'
    BY <1>3 DEF SearchInv, CitedInv
<1>6. DoneInv'
    BY <1>3 DEF SearchInv, DoneInv
<1>7. PlanWeighed'
    BY DEF SearchInv, PlanWeighed
<1> QED BY <1>1, <1>2, <1>4, <1>5, <1>6, <1>7 DEF SearchInv

\* A search begins with nothing written since, under a plan that weighs what it selects.
LEMMA PlanKeeps ==
    ASSUME RetrievalAssumption, SearchInv, NEW query \in QueryMenu, NEW available, NEW limit \in Limits,
           Plan(query, available, limit)
    PROVE  SearchInv'
<1> DEFINE matched == Matched(query.words)
           plan == BuildPlan(query.words, available)
<1>1. matched \in SUBSET Intents
    BY DEF Matched, Intents
<1>2. plan.selected = Requested(matched) \cap available /\ plan.weights = Weights(matched)
    BY DEF BuildPlan
<1> HIDE DEF plan, matched
<1>3. /\ call'.step = "planned" /\ call'.query = query /\ call'.limit = limit /\ call'.plan = plan
      /\ call'.start = writes /\ table' = table /\ writes' = writes
    BY DEF Plan, plan
<1>4. plan.selected \subseteq DOMAIN plan.weights /\ \A p \in plan.selected : plan.weights[p] > 0
    <2>1. DOMAIN Weights(matched) = Requested(matched)
        BY DEF Weights
    <2>2. \A p \in Requested(matched) : Weights(matched)[p] > 0
        BY <1>1, WeightsPositive
    <2> QED BY <1>2, <2>1, <2>2
<1>5. TableInv'
    BY <1>3 DEF SearchInv, TableInv
<1>6. CallInv'
    BY <1>3 DEF SearchInv, TableInv, CallInv
<1>7. PlanWeighed'
    BY <1>3, <1>4 DEF PlanWeighed
<1> QED BY <1>3, <1>5, <1>6, <1>7 DEF SearchInv, SearchedInv, CitedInv, DoneInv

\* The provider's answer has rows of the table, nothing twice.
LEMMA SearchKeeps ==
    ASSUME RetrievalAssumption, SearchInv, Search PROVE SearchInv'
<1> DEFINE query == call.query
           P == {i \in DOMAIN table : query.name \in table[i].phrases}
           key == [i \in DOMAIN table |-> table[i].priority]
           t == Sorted(table, P, key)
           c == SearchRecords(table, query, CANDIDATE_LIMIT)
<1>1. table \in Seq(Rows) /\ Distinct(table) /\ P \in SUBSET DOMAIN table /\ CANDIDATE_LIMIT \in Nat
    BY DEF SearchInv, TableInv, RetrievalAssumption
<1>2. \A i \in P : key[i] \in Int
    BY <1>1, RowNumbers
<1>3. c = First(t, CANDIDATE_LIMIT)
    BY DEF SearchRecords
<1>a. /\ call.step = "planned" /\ call'.step = "searched" /\ call'.query = query /\ call'.limit = call.limit
      /\ call'.candidates = c /\ call'.start = call.start /\ table' = table /\ writes' = writes
    BY DEF Search
<1> HIDE DEF P, key, c
<1>4. t \in Seq(Rows) /\ SameItems(t, table, P)
    BY <1>1, <1>2, SortedIs, SortedKeeps
<1> HIDE DEF t
<1>5. /\ c \in Seq(Rows) /\ DOMAIN c = 1..Lesser(CANDIDATE_LIMIT, Len(t))
      /\ \A i \in 1..Lesser(CANDIDATE_LIMIT, Len(t)) : i \in DOMAIN t /\ c[i] = t[i]
    BY <1>1, <1>3, <1>4, FirstIs
<1>6. Distinct(t) /\ \A i \in DOMAIN t : \E j \in DOMAIN table : table[j] = t[i]
    BY <1>1, <1>4 DEF SameItems
<1>7. Distinct(c)
    BY <1>5, <1>6 DEF Distinct
<1>8. \A i \in DOMAIN c : \E j \in DOMAIN table : table[j] = c[i]
    BY <1>5, <1>6
<1>9. SearchedInv'
    BY <1>5, <1>7, <1>8, <1>a DEF SearchedInv
<1>10. TableInv' /\ CallInv'
    BY <1>a DEF SearchInv, TableInv, CallInv
<1> QED BY <1>9, <1>10, <1>a DEF SearchInv, CitedInv, DoneInv, PlanWeighed

\* The citations are the best of what was ranked, which is in the table unless it was written.
LEMMA RankKeeps ==
    ASSUME RetrievalAssumption, SearchInv, Rank PROVE SearchInv'
<1> DEFINE query == call.query
           limit == call.limit
           profile == call.profile
           found == call.candidates
           s == Fallback(found, table, limit)
           c == Cite(s, query, profile, limit)
<1>1. /\ call.step = "searched" /\ call'.step = "cited" /\ call'.query = query /\ call'.limit = limit
      /\ call'.profile = profile /\ call'.found = found /\ call'.citations = c
      /\ call'.start = call.start /\ table' = table /\ writes' = writes
    BY DEF Rank
<1>2. /\ query \in QueryMenu /\ limit \in Nat /\ table \in Seq(Rows) /\ Distinct(table)
      /\ found \in Seq(Rows) /\ Distinct(found)
      /\ writes = call.start => \A i \in DOMAIN found : \E j \in DOMAIN table : table[j] = found[i]
    BY <1>1 DEF SearchInv, TableInv, CallInv, SearchedInv, RetrievalAssumption
<1>3. s \in Seq(Rows) /\ Distinct(s) /\ s = Pool(found, limit)
    BY <1>2 DEF Fallback, Pool
<1>4. writes = call.start => \A i \in DOMAIN s : \E j \in DOMAIN table : table[j] = s[i]
    BY <1>2 DEF Fallback
<1> HIDE DEF query, limit, profile, found, s
<1>5. /\ Cited(c, query, limit)
      /\ \A i \in DOMAIN c : \E j \in DOMAIN s : s[j].id = c[i].id
      /\ BestCited(c, s, s, query, profile, limit)
    BY <1>2, <1>3, CiteIs
<1> HIDE DEF c
<1>6. ASSUME writes = call.start
      PROVE  /\ \A i \in DOMAIN c : \E j \in DOMAIN table : table[j].id = c[i].id
             /\ BestCited(c, s, table, query, profile, limit)
    <2>1. \A i \in DOMAIN c : \E j \in DOMAIN table : table[j].id = c[i].id
        BY <1>4, <1>5, <1>6
    <2>2. ASSUME NEW j \in DOMAIN s, LeftOut(s[j], c, query), NEW i \in DOMAIN c, NEW k \in DOMAIN table,
                 table[k].id = c[i].id
          PROVE  Boosted(table[k], profile) >= Boosted(s[j], profile)
        <3>1. PICK l \in DOMAIN s : s[l].id = c[i].id
            BY <1>5
        <3>2. PICK h \in DOMAIN table : table[h] = s[l]
            BY <1>4, <1>6
        <3>3. h = k
            BY <1>2, <2>2, <3>1, <3>2 DEF Distinct
        <3>4. Boosted(s[l], profile) >= Boosted(s[j], profile)
            BY <1>5, <2>2, <3>1 DEF BestCited
        <3> QED BY <3>2, <3>3, <3>4
    <2>3. ASSUME NEW j \in DOMAIN s, LeftOut(s[j], c, query) PROVE Len(c) = limit
        BY <1>5, <2>3 DEF BestCited
    <2>4. BestCited(c, s, table, query, profile, limit)
        BY <2>2, <2>3 DEF BestCited
    <2> QED BY <2>1, <2>4
<1>7. CitedInv'
    <2>1. writes = call.start =>
              /\ \A i \in DOMAIN c : \E j \in DOMAIN table' : table'[j].id = c[i].id
              /\ BestCited(c, IF Len(found) < limit THEN table' ELSE found, table', query, profile, limit)
        BY <1>1, <1>3, <1>6 DEF Pool
    <2> QED BY <1>1, <1>2, <1>5, <2>1 DEF CitedInv, Pool
<1>8. TableInv' /\ CallInv'
    BY <1>1 DEF SearchInv, TableInv, CallInv, query, limit
<1> QED BY <1>1, <1>7, <1>8 DEF SearchInv, SearchedInv, DoneInv, PlanWeighed

\* The row of an id that is there.
LEMMA RowIs ==
    ASSUME NEW T, NEW records \in Seq(T), NEW id \in IdsOf(records)
    PROVE  \E j \in DOMAIN records : Row(records, id) = records[j] /\ records[j].id = id
<1>1. \E j \in DOMAIN records : records[j].id = id
    BY DEF IdsOf
<1> DEFINE j == CHOOSE i \in DOMAIN records : records[i].id = id
<1>2. j \in DOMAIN records /\ records[j].id = id
    BY <1>1
<1> QED BY <1>2 DEF Row

\* There are n numbers up to n.
LEMMA CountTo ==
    ASSUME NEW n \in Nat
    PROVE  IsFiniteSet(1..n) /\ Cardinality(1..n) = n
BY FS_Interval

\* As many ids as items, if none is there twice.
LEMMA DistinctCounts ==
    ASSUME NEW n \in Nat, NEW f, \A i, j \in 1..n : f[i] = f[j] => i = j
    PROVE  Cardinality({f[i] : i \in 1..n}) = n
<1> DEFINE S == {f[i] : i \in 1..n}
           g == [i \in 1..n |-> f[i]]
<1>1. g \in Bijection(1..n, S)
    BY DEF Bijection, Injection, Surjection, IsInjective
<1>2. IsFiniteSet(1..n) /\ Cardinality(1..n) = n
    BY FS_Interval
<1> HIDE DEF g, S
<1>a. ExistsBijection(1..n, S)
    BY <1>1 DEF ExistsBijection
<1>3. Cardinality(S) = n
    BY <1>a, <1>2, FS_Bijection
<1> QED BY <1>3 DEF S

\* Pairs of a row and a score, one for each citation whose row is still there
LoadsWhatIs(pairs, c, records, query, limit) ==
    /\ Len(pairs) \in Nat /\ DOMAIN pairs = 1..Len(pairs) /\ Len(pairs) <= limit
    /\ \A i, j \in DOMAIN pairs : pairs[i].record.id = pairs[j].record.id => i = j
    /\ \A i \in DOMAIN pairs : /\ \E l \in DOMAIN c : c[l].id = pairs[i].record.id
                               /\ \E j \in DOMAIN records : pairs[i].record = records[j]
                               /\ MatchCount(pairs[i].record, query) > 0
    /\ (\A i \in DOMAIN c : \E j \in DOMAIN records : records[j].id = c[i].id) =>
          /\ Len(pairs) = Len(c)
          /\ \A l \in DOMAIN c : \E i \in DOMAIN pairs : pairs[i].record.id = c[l].id

\* What is loaded: a row for each citation whose memory is still there.
LEMMA LoadedIs ==
    ASSUME RetrievalAssumption, NEW records \in Seq(Rows), NEW query, NEW limit \in Nat, NEW c, Cited(c, query, limit)
    PROVE  LoadsWhatIs(Loaded(c, records), c, records, query, limit)
<1> DEFINE P == {i \in DOMAIN c : c[i].id \in IdsOf(records)}
           k == Kept(c, P)
           pairs == Loaded(c, records)
<1>1. /\ c \in Seq(Citations) /\ Len(c) \in Nat /\ DOMAIN c = 1..Len(c) /\ Len(c) <= limit /\ Distinct(c)
      /\ P \in SUBSET DOMAIN c
    BY DEF Cited
<1>2. /\ k \in Seq(Citations) /\ Len(k) = Cardinality(P) /\ SameItems(k, c, P)
    <2> HIDE DEF P
    <2> QED BY <1>1, KeptIs
<1>3. pairs = [i \in DOMAIN k |-> [record |-> Row(records, k[i].id), score |-> k[i].score]]
    BY DEF Loaded
<1> HIDE DEF k, pairs
<1>4. /\ DOMAIN k = 1..Len(k) /\ Len(k) \in Nat /\ DOMAIN pairs = 1..Len(k) /\ Len(pairs) = Len(k)
    <2>1. DOMAIN k = 1..Len(k) /\ Len(k) \in Nat
        BY <1>2
    <2> QED BY <1>3, <2>1
<1>5. Len(k) <= limit
    <2>1. IsFiniteSet(1..Len(c)) /\ Cardinality(1..Len(c)) = Len(c)
        BY <1>1, CountTo
    <2>2. Cardinality(P) <= Len(c)
        <3> HIDE DEF P
        <3> QED BY <1>1, <2>1, FS_Subset
    <2> QED BY <1>1, <1>2, <1>4, <2>2
<1>6. ASSUME NEW i \in DOMAIN k
      PROVE  /\ \E l \in P : k[i] = c[l]
             /\ \E j \in DOMAIN records : pairs[i].record = records[j] /\ records[j].id = k[i].id
             /\ pairs[i].record.id = k[i].id
    <2>1. PICK l \in P : k[i] = c[l]
        BY <1>2 DEF SameItems
    <2>2. k[i].id \in IdsOf(records)
        BY <2>1
    <2>3. PICK j \in DOMAIN records : Row(records, k[i].id) = records[j] /\ records[j].id = k[i].id
        BY <2>2, RowIs
    <2>4. pairs[i].record = Row(records, k[i].id)
        BY <1>3
    <2> QED BY <2>1, <2>3, <2>4
<1>7. ASSUME NEW i \in DOMAIN pairs, NEW j \in DOMAIN pairs, pairs[i].record.id = pairs[j].record.id PROVE i = j
    <2>1. i \in DOMAIN k /\ j \in DOMAIN k
        BY <1>4
    <2>2. k[i].id = k[j].id
        BY <1>6, <1>7, <2>1
    <2>3. Distinct(k)
        BY <1>1, <1>2 DEF SameItems
    <2> QED BY <2>1, <2>2, <2>3 DEF Distinct
<1>8. ASSUME NEW i \in DOMAIN pairs
      PROVE  /\ \E l \in DOMAIN c : c[l].id = pairs[i].record.id
             /\ \E j \in DOMAIN records : pairs[i].record = records[j]
             /\ MatchCount(pairs[i].record, query) > 0
    <2>1. i \in DOMAIN k
        BY <1>4
    <2>2. PICK l \in DOMAIN c : k[i] = c[l]
        BY <1>6, <2>1
    <2>3. PICK j \in DOMAIN records : pairs[i].record = records[j] /\ records[j].id = k[i].id
        BY <1>6, <2>1
    <2>4. PICK r \in Rows : r.id = c[l].id /\ MatchCount(r, query) > 0
        BY DEF Cited
    <2>5. records[j] \in Rows /\ records[j].id = r.id
        BY <2>2, <2>3, <2>4
    <2>6. MatchCount(records[j], query) = MatchCount(r, query)
        BY <2>5, OneMemory
    <2> QED BY <2>2, <2>3, <2>4, <2>6
<1>9. ASSUME \A i \in DOMAIN c : \E j \in DOMAIN records : records[j].id = c[i].id
      PROVE  /\ Len(pairs) = Len(c)
             /\ \A l \in DOMAIN c : \E i \in DOMAIN pairs : pairs[i].record.id = c[l].id
    <2>1. P = 1..Len(c)
        BY <1>1, <1>9 DEF IdsOf
    <2>2. Cardinality(1..Len(c)) = Len(c)
        BY <1>1, CountTo
    <2>3. Len(pairs) = Len(c)
        BY <1>2, <1>4, <2>1, <2>2
    <2>4. ASSUME NEW l \in DOMAIN c PROVE \E i \in DOMAIN pairs : pairs[i].record.id = c[l].id
        <3>1. l \in P
            BY <1>1, <2>1
        <3>2. PICK i \in DOMAIN k : k[i] = c[l]
            BY <1>2, <3>1 DEF SameItems
        <3> QED BY <1>4, <1>6, <3>2
    <2> QED BY <2>3, <2>4
<1>10. Len(pairs) \in Nat /\ DOMAIN pairs = 1..Len(pairs) /\ Len(pairs) <= limit
    BY <1>4, <1>5
<1>11. LoadsWhatIs(pairs, c, records, query, limit)
    BY <1>7, <1>8, <1>9, <1>10 DEF LoadsWhatIs
<1> QED BY <1>11 DEF pairs

\* What is loaded for the citations keeps to them, and to the table while nothing was written.
LEMMA LoadKeeps ==
    ASSUME RetrievalAssumption, SearchInv, Load PROVE SearchInv'
<1> DEFINE query == call.query
           limit == call.limit
           profile == call.profile
           found == call.found
           c == call.citations
           pairs == Loaded(c, table)
           ids == {p.record.id : p \in ToSet(pairs)}
           pool == Pool(found, limit)
<1>1. /\ call.step = "cited" /\ call'.step = "done" /\ call'.query = query /\ call'.limit = limit
      /\ call'.profile = profile /\ call'.found = found /\ call'.pairs = pairs
      /\ call'.start = call.start /\ table' = table /\ writes' = writes
    BY DEF Load
<1>2. /\ query \in QueryMenu /\ limit \in Nat /\ table \in Seq(Rows) /\ Distinct(table)
      /\ found \in Seq(Rows) /\ Cited(c, query, limit)
      /\ writes = call.start =>
            /\ \A i \in DOMAIN c : \E j \in DOMAIN table : table[j].id = c[i].id
            /\ BestCited(c, pool, table, query, profile, limit)
    BY <1>1 DEF SearchInv, TableInv, CallInv, CitedInv, RetrievalAssumption
<1> HIDE DEF query, limit, profile, found, c
<1>3. /\ Len(pairs) \in Nat /\ DOMAIN pairs = 1..Len(pairs) /\ Len(pairs) <= limit
      /\ \A i, j \in DOMAIN pairs : pairs[i].record.id = pairs[j].record.id => i = j
      /\ \A i \in DOMAIN pairs : /\ \E l \in DOMAIN c : c[l].id = pairs[i].record.id
                                 /\ \E j \in DOMAIN table : pairs[i].record = table[j]
                                 /\ MatchCount(pairs[i].record, query) > 0
      /\ (\A i \in DOMAIN c : \E j \in DOMAIN table : table[j].id = c[i].id) =>
            /\ Len(pairs) = Len(c)
            /\ \A l \in DOMAIN c : \E i \in DOMAIN pairs : pairs[i].record.id = c[l].id
    <2>1. LoadsWhatIs(pairs, c, table, query, limit)
        BY <1>2, LoadedIs
    <2> QED BY <2>1 DEF LoadsWhatIs
<1> HIDE DEF pairs
<1>4. Cardinality(ids) = Len(pairs)
    <2> DEFINE n == Len(pairs)
               f == [i \in 1..n |-> pairs[i].record.id]
    <2>1. n \in Nat /\ \A i, j \in 1..n : f[i] = f[j] => i = j
        BY <1>3
    <2>2. ids = {f[i] : i \in 1..n}
        BY <1>3 DEF ToSet
    <2> HIDE DEF n, f, ids
    <2>3. Cardinality({f[i] : i \in 1..n}) = n
        BY <2>1, DistinctCounts
    <2> QED BY <2>2, <2>3 DEF n
<1>5. \A p \in ToSet(pairs) : MatchCount(p.record, query) > 0
    BY <1>3 DEF ToSet
<1>6. ASSUME writes = call.start, NEW r \in ToSet(pool), r.id \notin ids, MatchCount(r, query) > 0
      PROVE  /\ Len(pairs) = limit
             /\ \A p \in ToSet(pairs) : Boosted(p.record, profile) >= Boosted(r, profile)
    <2>1. PICK j \in DOMAIN pool : r = pool[j]
        BY DEF ToSet
    <2>2. \A i \in DOMAIN c : c[i].id # r.id
        <3>1. SUFFICES ASSUME NEW i \in DOMAIN c, c[i].id = r.id PROVE FALSE
            OBVIOUS
        <3>2. PICK m \in DOMAIN pairs : pairs[m].record.id = r.id
            BY <1>2, <1>3, <1>6, <3>1
        <3>3. r.id \in ids
            BY <3>2 DEF ToSet
        <3> QED BY <1>6, <3>3
    <2>3. LeftOut(pool[j], c, query)
        BY <1>6, <2>1, <2>2 DEF LeftOut
    <2> HIDE DEF pool, ids
    <2>4. /\ Len(c) = limit
          /\ \A i \in DOMAIN c, k \in DOMAIN table :
                table[k].id = c[i].id => Boosted(table[k], profile) >= Boosted(pool[j], profile)
        BY <1>2, <1>6, <2>3 DEF BestCited
    <2>5. ASSUME NEW p \in ToSet(pairs) PROVE Boosted(p.record, profile) >= Boosted(r, profile)
        <3>1. PICK m \in DOMAIN pairs : p = pairs[m]
            BY DEF ToSet
        <3>2. PICK l \in DOMAIN c : c[l].id = pairs[m].record.id
            BY <1>3
        <3>3. PICK k \in DOMAIN table : pairs[m].record = table[k]
            BY <1>3
        <3> QED BY <2>1, <2>4, <3>1, <3>2, <3>3
    <2> QED BY <1>2, <1>3, <1>6, <2>4, <2>5
<1>7. DoneInv'
    <2>1. ToSet(pool) = IF Len(found) < limit THEN ToSet(table) ELSE ToSet(found)
        BY DEF Pool
    <2> HIDE DEF pool, ids
    <2>2. writes = call.start =>
            LET missed == {r \in ToSet(pool) : r.id \notin ids /\ MatchCount(r, query) > 0}
            IN  missed # {} => /\ Len(pairs) = limit
                               /\ \A p \in ToSet(pairs), r \in missed : Boosted(p.record, profile) >= Boosted(r, profile)
        BY <1>6
    <2> QED BY <1>1, <1>3, <1>4, <1>5, <2>1, <2>2 DEF DoneInv, ids
<1>8. TableInv' /\ CallInv'
    BY <1>1 DEF SearchInv, TableInv, CallInv, query, limit
<1> QED BY <1>1, <1>7, <1>8 DEF SearchInv, SearchedInv, CitedInv, PlanWeighed

\* A search cites the best of what it read, nothing twice, under a plan that weighs
\* what it selects, and no memory is proposed for two consolidations, whatever is
\* written between its reads (retrieval.py, orchestrator.py, consolidation.py).
THEOREM SearchesAreSound ==
    ASSUME RetrievalAssumption
    PROVE  RetrievalSpec => []SearchSound
<1>1. RetrievalInit => SearchInv
    <2> SUFFICES ASSUME RetrievalInit PROVE SearchInv
        OBVIOUS
    <2>1. table = << >> /\ call.step = "idle" /\ writes = 0
        BY DEF RetrievalInit, NoCall
    <2> QED BY <2>1 DEF SearchInv, TableInv, CallInv, SearchedInv, CitedInv, DoneInv, PlanWeighed, Distinct
<1>2. SearchInv /\ [RetrievalNext]_retrievalVars => SearchInv'
    <2> SUFFICES ASSUME SearchInv, [RetrievalNext]_retrievalVars PROVE SearchInv'
        OBVIOUS
    <2>0. table \in Seq(Rows)
        BY DEF SearchInv, TableInv
    <2>1. ASSUME NEW query \in QueryMenu, NEW available \in Availability, NEW limit \in Limits, Plan(query, available, limit)
          PROVE  SearchInv'
        BY <2>1, PlanKeeps
    <2>2. CASE Search
        BY <2>2, SearchKeeps
    <2>3. CASE Rank
        BY <2>3, RankKeeps
    <2>4. CASE Load
        BY <2>4, LoadKeeps
    <2>5. ASSUME call'.step = "idle", table' = table, writes' = writes PROVE SearchInv'
        BY <2>5 DEF SearchInv, TableInv, CallInv, SearchedInv, CitedInv, DoneInv, PlanWeighed
    <2>6. CASE Consolidate
        BY <2>5, <2>6 DEF Consolidate
    <2>7. ASSUME NEW id, Audit(id) PROVE SearchInv'
        BY <2>5, <2>7 DEF Audit, NoCall
    <2>8. ASSUME call' = call, table' = table, writes' = writes PROVE SearchInv'
        BY <2>8 DEF SearchInv, TableInv, CallInv, SearchedInv, CitedInv, DoneInv, PlanWeighed, Pool
    <2>9. ASSUME NEW r \in MemoryMenu, RecordMemory(r) \/ Add(r) PROVE SearchInv'
        <3>1. r \in Rows
            BY DEF Rows
        <3>2. CASE RecordMemory(r)
            BY <2>8, <3>2 DEF RecordMemory
        <3>3. CASE Add(r)
            BY <3>1, <3>3, WriteKeeps DEF Add
        <3> QED BY <2>9, <3>2, <3>3
    <2>10. ASSUME NEW query, ExecuteQuery(query) PROVE SearchInv'
        BY <2>8, <2>10 DEF ExecuteQuery
    <2>11. ASSUME NEW i \in DOMAIN table, Supersede(i) \/ AddReference(i) PROVE SearchInv'
        <3>1. table[i] \in Rows /\ table[i].references \in Nat /\ table[i].status \in Statuses
            BY <2>0, RowsAre
        <3>2. /\ Revised(table[i], table[i].references, "superseded") \in Rows
              /\ Revised(table[i], table[i].references + 1, table[i].status) \in Rows
            BY <3>1, RevisedIsRow DEF Statuses
        <3> QED BY <2>11, <3>2, WriteKeeps DEF Supersede, AddReference, Change
    <2>12. CASE UNCHANGED retrievalVars
        BY <2>8, <2>12 DEF retrievalVars
    <2> QED BY <2>1, <2>2, <2>3, <2>4, <2>6, <2>7, <2>9, <2>10, <2>11, <2>12 DEF RetrievalNext
<1>3. SearchInv => SearchSound
    <2> SUFFICES ASSUME SearchInv PROVE SearchSound
        OBVIOUS
    <2>1. CandidatesDisjoint
        BY ClustersDisjoint DEF SearchInv, TableInv, CandidatesDisjoint, Disjoint
    <2>2. SearchExact
        BY DEF SearchInv, DoneInv, SearchExact
    <2> QED BY <2>1, <2>2 DEF SearchInv, SearchSound
<1> QED BY <1>1, <1>2, <1>3, PTL DEF RetrievalSpec
=============================================================================
