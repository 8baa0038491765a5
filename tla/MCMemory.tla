------------------------------- MODULE MCMemory -------------------------------
(***************************************************************************)
(* The memory corpus and the search over it, in one run.  A behaviour is   *)
(* one deployment, named by scenario: two threads of one process writing   *)
(* memory.md, two processes that may die on the SQLite provider, or a      *)
(* search while other processes write.  The first two share the variables  *)
(* of MemoryStore, and so its properties; the search has those of          *)
(* Retrieval, which stay as they were at first in the others.              *)
(***************************************************************************)
EXTENDS MemoryStore, Retrieval

CONSTANTS t1, m1, m2, proc1, proc2

VARIABLES scenario

allVars == <<scenario, vars, retrievalVars>>

-----------------------------------------------------------------------------
\* The deployment of the module this one extends: two threads of one process on
\* memory.md.  The other two are instances on the same variables.

\* A decision, a decision with a rationale, an event nothing is extracted from
MCEmissions == {<<>>, <<m1>>, <<m1, m2>>}
OneProcess == [t \in Threads |-> proc1]
TwoProcesses == [t \in Threads |-> IF t = t1 THEN proc1 ELSE proc2]

Sqlite == INSTANCE MemoryStore WITH
        Processes <- {proc1, proc2}, ProcessOf <- TwoProcesses, Markdown <- FALSE, Faults <- TRUE

\* two processes on one memory.md, in a run of their own
Files == INSTANCE MemoryStore WITH
        Processes <- {proc1, proc2}, ProcessOf <- TwoProcesses, Markdown <- TRUE, Faults <- FALSE

\* what the proofs assume of a deployment holds of these three
ASSUME DeploymentsAssumption ==
    MemoryAssumption /\ Sqlite!MemoryAssumption /\ Files!MemoryAssumption

Memory(id, type, words, phrases, priority, confidence, events) ==
    [id |-> id, type |-> type, words |-> words, phrases |-> phrases, priority |-> priority, recency |-> 10,
     references |-> 0, confidence |-> confidence, status |-> "active", events |-> events]

\* three decisions alike, and a failure that contains the phrase
MCMemories ==
    {Memory("a", "DECISION", {"db", "use"}, {"decision db"}, 30, 10, {1}),
     Memory("b", "FAILURE", {"db", "use", "x"}, {"decision db", "blast shared"}, 50, 5, {}),
     Memory("c", "DECISION", {"db", "use", "y"}, {}, 10, 10, {2}),
     Memory("d", "DECISION", {"db", "use"}, {}, 20, 5, {3})}

\* several intents at once, and words that occur in the records
MCQueries ==
    {[name |-> "decision db", words |-> {"decision", "db", "DECISION"}],
     [name |-> "blast shared", words |-> {"blast", "shared", "x"}],
     [name |-> "resume decision", words |-> {"resume", "decision"}]}

AllProjections == {"continuation", "knowledge", "graph", "cross_project", "organization", "organization_graph"}

MCAvailability == {AllProjections, {"knowledge", "organization"}}

\* what the proofs assume of memories, queries and limits holds of these
ASSUME SearchAssumption == RetrievalAssumption

-----------------------------------------------------------------------------
MCInit ==
    /\ RetrievalInit
    /\ \/ scenario \in {"shared", "search"} /\ Init
       \/ scenario = "sqlite" /\ Sqlite!Init

\* A thread of either deployment goes on
Going(t) ==
    /\ \/ scenario = "shared" /\ ThreadStep(t)
       \/ scenario = "sqlite" /\ Sqlite!ThreadStep(t)
    /\ UNCHANGED <<scenario, retrievalVars>>

MCNext ==
    \/ scenario = "shared" /\ Next /\ UNCHANGED <<scenario, retrievalVars>>
    \/ scenario = "sqlite" /\ Sqlite!Next /\ UNCHANGED <<scenario, retrievalVars>>
    \/ scenario = "search" /\ RetrievalNext /\ UNCHANGED <<scenario, vars>>

\* A thread that has started goes on; the lock it waits for is always released
MCSpec == MCInit /\ [][MCNext]_allVars /\ \A t \in Threads : WF_allVars(Going(t))

FilesSpec ==
    /\ scenario = "files" /\ Files!Init /\ RetrievalInit
    /\ [][Files!Next /\ UNCHANGED <<scenario, retrievalVars>>]_allVars

-----------------------------------------------------------------------------
\* "Layered locks: thread-safe (across instances) and multi-process safe"
\* (markdown_provider.py:24): refuted, the file lock is released before the
\* rewrite, and the record of another process is overwritten.
NothingLostInFile == scenario = "files" => NothingLost
=============================================================================
