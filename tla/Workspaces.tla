----------------------------- MODULE Workspaces -----------------------------
(***************************************************************************)
(* Workspaces and the agents that join them (workspace/).  WorkspaceService*)
(* and MultiAgentService are collections of pure functions: each takes the *)
(* values its caller holds and returns new values with the payload of an   *)
(* event.  An action here is one call, after which the caller keeps the    *)
(* new value and appends the payload to the ledger.                        *)
(*                                                                         *)
(* An identifier is a digest of a name or of other identifiers and of the  *)
(* time of the call, so it is modelled as the tuple of these.  The time is *)
(* the clock, or the reference_time a caller passes: it need not advance   *)
(* between two calls.                                                      *)
(***************************************************************************)
EXTENDS Integers, Sequences, FiniteSets

CONSTANTS Agents,     \* agent (profile) ids
          Names,      \* workspace names
          None,
          MaxTime,    \* bound on the clock
          MaxEvents,  \* bound on the events emitted
          Quota       \* event type -> bound on the events of that type

ASSUME WorkspacesAssumption ==
    /\ MaxTime \in Nat
    /\ MaxEvents \in Nat
    /\ \A type \in DOMAIN Quota : Quota[type] \in Nat
    /\ None \notin Agents \cup Names

VARIABLES
    clock,       \* the time of the calls
    log,         \* the payloads emitted, in order
    workspaces,  \* workspace id -> its value, None before open
    joined       \* the WorkspaceSessions, in the order they were opened

wvars == <<workspaces, joined>>

Time == 0..MaxTime
WorkspaceId == Names \X Time
WorkspaceStatus == {"ACTIVE", "PAUSED", "ARCHIVED"}
AgentRole == {"PRIMARY", "ADVISOR", "OBSERVER"}
Workspace == [status : WorkspaceStatus, agents : SUBSET Agents, updated : Time]
WorkspaceSession == [ws : WorkspaceId, agent : Agents, role : AgentRole,
                     status : {"OPEN", "CLOSED", "SUSPENDED"}, started : Time,
                     ended : Time \cup {None}]

WorkspaceEvent ==
    [type : {"WORKSPACE_CREATED"}, id : WorkspaceId, n : Nat]
      \cup [type : {"WORKSPACE_SESSION_OPENED"}, id : WorkspaceId \X Agents \X Time, n : Nat]

\* An event of the ledger: its type, the object it is about, a count it carries
Emit(type, id, n) ==
    /\ Len(log) < MaxEvents
    /\ Cardinality({k \in 1..Len(log) : log[k].type = type}) < Quota[type]
    /\ log' = Append(log, [type |-> type, id |-> id, n |-> n])

Tick ==
    /\ clock < MaxTime
    /\ clock' = clock + 1
    /\ UNCHANGED <<log, wvars>>

-----------------------------------------------------------------------------
WorkspacesInit ==
    /\ clock = 0
    /\ log = <<>>
    /\ workspaces = [w \in WorkspaceId |-> None]
    /\ joined = <<>>

\* The value a call returns replaces the one the caller held
Store(w, agents, status) ==
    /\ workspaces' = [workspaces EXCEPT ![w] = [status |-> status, agents |-> agents, updated |-> clock]]
    /\ UNCHANGED <<clock, joined>>

Open(name, agents) ==
    /\ Store(<<name, clock>>, agents, "ACTIVE")
    /\ Emit("WORKSPACE_CREATED", <<name, clock>>, 0)

\* pause and resume announce themselves with the payload of open
PauseWorkspace(w) ==
    /\ workspaces[w] # None
    /\ workspaces[w].status = "ACTIVE"
    /\ Store(w, workspaces[w].agents, "PAUSED")
    /\ Emit("WORKSPACE_CREATED", w, 0)

ResumeWorkspace(w) ==
    /\ workspaces[w] # None
    /\ workspaces[w].status = "PAUSED"
    /\ Store(w, workspaces[w].agents, "ACTIVE")
    /\ Emit("WORKSPACE_CREATED", w, 0)

Merge(a, b, name) ==
    /\ a # b
    /\ workspaces[a] # None /\ workspaces[b] # None
    /\ Store(<<name, clock>>, workspaces[a].agents \cup workspaces[b].agents, "ACTIVE")
    /\ Emit("WORKSPACE_CREATED", <<name, clock>>, 0)

\* join, given the sessions of the workspace
Join(w, agent, role) ==
    /\ workspaces[w] # None
    /\ ~\E i \in 1..Len(joined) :
           joined[i].ws = w /\ joined[i].agent = agent /\ joined[i].status = "OPEN"
    /\ agent \in workspaces[w].agents
    /\ joined' = Append(joined, [ws |-> w, agent |-> agent, role |-> role, status |-> "OPEN",
                                 started |-> clock, ended |-> None])
    /\ Emit("WORKSPACE_SESSION_OPENED", <<w, agent, clock>>, 0)
    /\ UNCHANGED <<clock, workspaces>>

\* leave returns the closed session, whatever its status was, and no event
Leave(i) ==
    /\ joined' = [joined EXCEPT ![i] = [@ EXCEPT !.status = "CLOSED", !.ended = clock]]
    /\ UNCHANGED <<clock, log, workspaces>>

WorkspaceStep ==
    \/ \E name \in Names, agents \in SUBSET Agents : Open(name, agents)
    \/ \E w \in WorkspaceId : PauseWorkspace(w) \/ ResumeWorkspace(w)
    \/ \E a, b \in WorkspaceId, name \in Names : Merge(a, b, name)
    \/ \E w \in WorkspaceId, agent \in Agents, role \in AgentRole : Join(w, agent, role)
    \/ \E i \in 1..Len(joined) : Leave(i)
=============================================================================
