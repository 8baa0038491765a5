------------------------- MODULE ProjectionCompiler -------------------------
(***************************************************************************)
(* ProjectionRegistry and ProjectionCompiler of the projection platform    *)
(* (projection_platform/registry.py, compiler.py): projections are         *)
(* registered, the registry is frozen, and compile builds a projection     *)
(* after its dependencies, by recursion.  stack holds the calls in         *)
(* progress; other processes append to the ledger, and the legacy head     *)
(* compiler writes snapshots, between any two accesses to the store.       *)
(* Projection states are the length of the prefix of the stream they       *)
(* reduce.                                                                 *)
(***************************************************************************)
EXTENDS Integers, Sequences, FiniteSets, SequencesExt

CONSTANTS
    Projections,    \* ids
    DependencySets, \* the dependency functions a behaviour may start with
    Stored,         \* ids another process keeps snapshots of (SNAPSHOT_SERIALIZERS)
    Strict,         \* ids whose reduce refuses an empty stream
    MaxLog, MaxDepth

VARIABLES
    dependencies,   \* id -> sequence of [id, optional]
    registered, frozen,
    health,         \* compiler._health; "unknown" where it has no entry
    stack,          \* frames of compile, outermost first
    todo,           \* what compile_all has yet to compile
    latest,         \* the ledger: its latest sequence
    snapshot,       \* id -> sequence of its latest snapshot row, 0 if none
    result          \* what the last call returned or raised

pvars == <<dependencies, registered, frozen, health, stack, todo, latest, snapshot, result>>

ProjectionHealth == {"unknown", "building", "ready", "failed"}
ProjectionDependency == [id : Projections, optional : BOOLEAN]
Frame == [id : Projections, rest : Seq(ProjectionDependency), pc : {"deps", "latest", "events", "save"},
          begun : Nat, from : Nat, seen : Nat, upto : Nat]

\* what the proofs need of the constants
CompilerAssumption == IsFiniteSet(Projections) /\ DependencySets \subseteq [Projections -> Seq(ProjectionDependency)]

NewFrame(p) == [id |-> p, rest |-> dependencies[p], pc |-> "deps", begun |-> latest,
                from |-> 0, seen |-> 0, upto |-> 0]

Top == stack[Len(stack)]
SetTop(frame) == [stack EXCEPT ![Len(stack)] = frame]

-----------------------------------------------------------------------------
(* ProjectionRegistry *)

\* a call of _dfs, with the path and the visited nodes it finds
DfsCall == [node : Projections, path : SUBSET Projections, visited : SUBSET Projections]

\* one dependency d of the node: an exception ends the walk, an id that is not
\* registered is passed over
Examine(walk, call, done, d, ids) ==
    IF ~ done.ok \/ d.id \notin ids THEN done
    ELSE walk[[node |-> d.id, path |-> call.path \cup {call.node}, visited |-> done.visited]]

\* what is visited after each of the dependencies ds, and whether nothing was raised
Examined(walk, call, ds, ids) ==
    LET done[i \in 0..Len(ds)] ==
            IF i = 0 THEN [ok |-> TRUE, visited |-> call.visited \cup {call.node}]
            ELSE Examine(walk, call, done[i - 1], ds[i], ids)
    IN  done

Visit(walk, call, deps, ids) ==
    CASE call.node \in call.path -> [ok |-> FALSE, visited |-> call.visited]
      [] call.node \in call.visited \ call.path -> [ok |-> TRUE, visited |-> call.visited]
      [] OTHER -> Examined(walk, call, deps[call.node], ids)[Len(deps[call.node])]

\* _dfs: the nodes it has visited, and whether it never came back to its path
Dfs(deps, ids) ==
    LET walk[call \in DfsCall] == Visit(walk, call, deps, ids)
    IN  walk

\* Mutant: what a walk visits is forgotten as soon as it has a result, and a
\* node is looked for in the path of the walk's root only
Acyclic_RootsOnly ==
    \A p \in registered : \A i \in DOMAIN dependencies[p] : dependencies[p][i].id # p

\* every registered projection in turn, with the nodes visited before
Walked(roots, deps, ids) ==
    LET done[i \in 0..Len(roots)] ==
            IF i = 0 THEN [ok |-> TRUE, visited |-> {}]
            ELSE IF ~ done[i - 1].ok THEN done[i - 1]
            ELSE Dfs(deps, ids)[[node |-> roots[i], path |-> {}, visited |-> done[i - 1].visited]]
    IN  done

Acyclic ==
    LET roots == SetToSeq(registered)
    IN  Walked(roots, dependencies, registered)[Len(roots)].ok

RequiredPresent ==
    \A p \in registered : \A i \in DOMAIN dependencies[p] :
        dependencies[p][i].id \in registered \/ dependencies[p][i].optional

Register(p) ==
    /\ stack = <<>> /\ todo = <<>> /\ ~ frozen /\ p \notin registered
    /\ registered' = registered \cup {p}
    /\ UNCHANGED <<dependencies, frozen, health, stack, todo, latest, snapshot, result>>

\* raises, and leaves the registry open, unless the dependencies are sound
Freeze ==
    /\ stack = <<>> /\ todo = <<>> /\ ~ frozen /\ RequiredPresent /\ Acyclic
    /\ frozen' = TRUE
    /\ UNCHANGED <<dependencies, registered, health, stack, todo, latest, snapshot, result>>

-----------------------------------------------------------------------------
(* ProjectionCompiler *)

\* Mutant: the exception marks only the projection that raised it
Failed_TopOnly(kind) ==
    /\ health' = [health EXCEPT ![Top.id] = "failed"]
    /\ stack' = <<>> /\ todo' = <<>>
    /\ result' = [ok |-> FALSE, id |-> stack[1].id, kind |-> kind]

\* every frame of the recursion has its own except: it marks its projection
\* FAILED and re-raises
Failed(kind) ==
    /\ health' = [p \in Projections |-> IF \E i \in DOMAIN stack : stack[i].id = p THEN "failed"
                                        ELSE health[p]]
    /\ stack' = <<>> /\ todo' = <<>>
    /\ result' = [ok |-> FALSE, id |-> stack[1].id, kind |-> kind]

\* the caller's frame goes on with its next dependency; the outermost returns
Ready(upto) ==
    /\ health' = [health EXCEPT ![Top.id] = "ready"]
    /\ stack' = Front(stack)
    /\ result' = IF Len(stack) = 1
                 THEN [ok |-> TRUE, id |-> Top.id, begun |-> Top.begun, upto |-> upto, ended |-> latest]
                 ELSE result
    /\ UNCHANGED todo

\* compile, called by a user: an unknown id is refused before health is touched
Compile(p) ==
    /\ stack = <<>> /\ todo = <<>>
    /\ IF p \in registered
       THEN /\ health' = [health EXCEPT ![p] = "building"]
            /\ stack' = <<NewFrame(p)>>
            /\ UNCHANGED result
       ELSE /\ result' = [ok |-> FALSE, id |-> p, kind |-> "not_found"]
            /\ UNCHANGED <<health, stack>>
    /\ UNCHANGED <<dependencies, registered, frozen, todo, latest, snapshot>>

\* compile_all: every registered projection in turn, compiled already or not
CompileAll ==
    /\ stack = <<>> /\ todo = <<>>
    /\ todo' = SetToSeq(registered)
    /\ UNCHANGED <<dependencies, registered, frozen, health, stack, latest, snapshot, result>>

CompileNext ==
    /\ stack = <<>> /\ todo # <<>>
    /\ health' = [health EXCEPT ![Head(todo)] = "building"]
    /\ stack' = <<NewFrame(Head(todo))>>
    /\ todo' = Tail(todo)
    /\ UNCHANGED <<dependencies, registered, frozen, latest, snapshot, result>>

\* Mutant: a dependency is compiled unless it is ready
Needed_UnlessReady(dep) == health[dep] # "ready"

\* a dependency is compiled only if the compiler has never met it: one that
\* failed before, or that is being built further down the stack, is passed over
Needed(dep) == health[dep] = "unknown"

\* the loop over meta.dependencies
NextDependency ==
    /\ stack # <<>> /\ Top.pc = "deps" /\ Top.rest # <<>>
    /\ LET dep == Head(Top.rest).id
           here == SetTop([Top EXCEPT !.rest = Tail(@)])
       IN  CASE ~ Needed(dep) ->
                   stack' = here /\ UNCHANGED <<health, todo, result>>
             [] Needed(dep) /\ dep \in registered ->
                   /\ Len(stack) < MaxDepth
                   /\ health' = [health EXCEPT ![dep] = "building"]
                   /\ stack' = Append(here, NewFrame(dep))
                   /\ UNCHANGED <<todo, result>>
             [] OTHER -> Failed("not_found")
    /\ UNCHANGED <<dependencies, registered, frozen, latest, snapshot>>

LoadSnapshot ==
    /\ stack # <<>> /\ Top.pc = "deps" /\ Top.rest = <<>>
    /\ stack' = SetTop([Top EXCEPT !.pc = "latest", !.from = snapshot[Top.id]])
    /\ UNCHANGED <<dependencies, registered, frozen, health, todo, latest, snapshot, result>>

\* Mutant: one event behind counts as current
Current_OneBehind(seq) == seq > 0 /\ seq + 1 >= latest

\* snapshot_seq >= latest_seq, with a payload
Current(seq) == seq > 0 /\ seq >= latest

\* get_latest_sequence, and the fast path
ReadLatest ==
    /\ stack # <<>> /\ Top.pc = "latest"
    /\ IF Current(Top.from) THEN Ready(Top.from)
       ELSE /\ stack' = SetTop([Top EXCEPT !.pc = "events", !.seen = latest])
            /\ UNCHANGED <<health, todo, result>>
    /\ UNCHANGED <<dependencies, registered, frozen, latest, snapshot>>

\* get_events_since does not exist on the stores; a full stream is reduced
ReadEvents ==
    /\ stack # <<>> /\ Top.pc = "events"
    /\ CASE Top.from > 0 -> Failed("attribute_error")
         [] Top.from = 0 /\ Top.id \in Strict /\ latest = 0 -> Failed("missing_bootstrap")
         [] OTHER -> /\ stack' = SetTop([Top EXCEPT !.pc = "save", !.upto = latest])
                     /\ UNCHANGED <<health, todo, result>>
    /\ UNCHANGED <<dependencies, registered, frozen, latest, snapshot>>

\* _save_snapshot writes at most a row with sequence 0, and never raises
SaveSnapshot ==
    /\ stack # <<>> /\ Top.pc = "save"
    /\ Ready(Top.upto)
    /\ UNCHANGED <<dependencies, registered, frozen, latest, snapshot>>

-----------------------------------------------------------------------------
(* Other processes *)

AppendEvent ==
    /\ latest < MaxLog
    /\ latest' = latest + 1
    /\ UNCHANGED <<dependencies, registered, frozen, health, stack, todo, snapshot, result>>

\* the legacy path stores its head under the projection's name
LegacySnapshot(p) ==
    /\ p \in Stored /\ latest > snapshot[p]
    /\ snapshot' = [snapshot EXCEPT ![p] = latest]
    /\ UNCHANGED <<dependencies, registered, frozen, health, stack, todo, latest, result>>

PInit ==
    /\ dependencies \in DependencySets
    /\ registered = {} /\ frozen = FALSE
    /\ health = [p \in Projections |-> "unknown"]
    /\ stack = <<>> /\ todo = <<>>
    /\ latest = 0 /\ snapshot = [p \in Projections |-> 0]
    /\ result = [ok |-> FALSE, id |-> "none", kind |-> "none"]

CompilerStep == CompileNext \/ NextDependency \/ LoadSnapshot \/ ReadLatest \/ ReadEvents \/ SaveSnapshot

PNext ==
    \/ Freeze \/ CompileAll \/ CompilerStep \/ AppendEvent
    \/ \E p \in Projections : Register(p) \/ Compile(p) \/ LegacySnapshot(p)

\* a call that was made runs to its end
PFairness == WF_pvars(CompilerStep)
PSpec == PInit /\ [][PNext]_pvars /\ PFairness

-----------------------------------------------------------------------------
(* Properties *)

\* Between calls nothing is left BUILDING, whatever failed at whatever depth.
SettledWhenIdle ==
    stack = <<>> => \A p \in Projections : health[p] \in {"unknown", "ready", "failed"}

\* A returned state reduces a prefix of the stream that was complete at some
\* moment of the call: nothing committed before the call is missing from it.
ResultIsCurrent == result.ok => result.begun <= result.upto /\ result.upto <= result.ended

Needs(deps, p) == {deps[p][i].id : i \in DOMAIN deps[p]}
Cyclic(deps, S) == S # {} /\ \A p \in S : Needs(deps, p) \cap S # {}

\* A frozen registry has no projection that depends on itself, directly or not.
FrozenIsAcyclic == frozen => \A S \in SUBSET registered : ~ Cyclic(dependencies, S)

\* A registry that was frozen has no cycle, a call that ended left no projection
\* half built, and what it returned is the fold of the whole log at that time
\* (projection_platform/registry.py, compiler.py).
CompilerSound == SettledWhenIdle /\ ResultIsCurrent /\ FrozenIsAcyclic

Calling == stack # <<>>

\* Every call ends, whatever fails underneath, dependency cycles included: the
\* recursion is cut by BUILDING (compiler.py:40-125).
EventuallySettled == Calling ~> ~ Calling

\* "compiles dependencies first": refuted by a dependency that failed before.
ReadyNeedsReady ==
    \A p \in Projections : stack = <<>> /\ health[p] = "ready" =>
        \A i \in DOMAIN dependencies[p] : health[dependencies[p][i].id] = "ready"
=============================================================================
