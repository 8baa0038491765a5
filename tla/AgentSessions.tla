--------------------------- MODULE AgentSessions ---------------------------
(***************************************************************************)
(* Agent sessions (runtime/).  AgentRuntime takes a session value, checks  *)
(* its status and returns the new value with an event payload; the caller  *)
(* stores it with SessionRegistry.add_session or update_session.  An       *)
(* action is one call with the session get_session returns, and the store  *)
(* of what it returns.                                                     *)
(***************************************************************************)
EXTENDS Workspaces

CONSTANTS ProfileOf,     \* agent -> its AgentProfile
          Denied,        \* capabilities the workspaces deny
          Versions       \* protocol versions an agent may speak (majors)

RuntimeMajor == 1

VARIABLES
    sessions,   \* SessionRegistry.sessions
    bindings    \* the WorkspaceBindings returned so far

svars == <<sessions, bindings>>

SessionStatus == {"CREATED", "ATTACHED", "STREAMING", "PAUSED", "RESUMED", "DETACHED", "CLOSED"}
SessionId == Agents \X WorkspaceId \X Time
Capability == UNION {ProfileOf[a].capabilities : a \in Agents}
AgentProfile == [active : BOOLEAN, capabilities : SUBSET Capability]
BindingId == [of : SessionId \cup Agents, ws : WorkspaceId]
WorkspaceBinding == [id : BindingId, session : SessionId, ws : WorkspaceId, detached : Time \cup {None}]
RuntimeContext == Agents \X Time
AgentSession == [id : SessionId, agent : Agents, ws : WorkspaceId, status : SessionStatus,
                 binding : BindingId, context : RuntimeContext \cup {None},
                 active : Time, ended : Time \cup {None}]

ASSUME SessionsAssumption ==
    /\ DOMAIN ProfileOf = Agents
    /\ \A a \in Agents : ProfileOf[a] \in AgentProfile /\ IsFiniteSet(ProfileOf[a].capabilities)
    /\ Versions \subseteq Nat

OPEN == {"CREATED", "ATTACHED", "STREAMING", "RESUMED"}

\* AgentCapabilities.effective, as CapabilityResolver.resolve fills it
Effective(agent, denied) == ProfileOf[agent].capabilities \ denied

\* The first entry of an id in a registry, and the registry with every entry of
\* the id of x replaced by x
FirstOf(q, id) == q[CHOOSE i \in 1..Len(q) : q[i].id = id /\ \A j \in 1..(i - 1) : q[j].id # id]
WithEvery(q, x) == [i \in 1..Len(q) |-> IF q[i].id = x.id THEN x ELSE q[i]]

\* Mutant: the first match alone is replaced
UpdateSession_FirstOnly(s) ==
    LET f == CHOOSE i \in 1..Len(sessions) :
                 sessions[i].id = s.id /\ \A j \in 1..(i - 1) : sessions[j].id # s.id
    IN  sessions' = [sessions EXCEPT ![f] = s]

\* update_session: every entry of that id
UpdateSession(s) == sessions' = WithEvery(sessions, s)

\* get_session: the first entry of that id
GetSession(id) == FirstOf(sessions, id)

Ids == {sessions[i].id : i \in 1..Len(sessions)}

SessionEventType ==
    {"SESSION_CREATED", "SESSION_ATTACHED", "SESSION_PAUSED", "SESSION_RESUMED", "SESSION_DETACHED",
     "SESSION_CLOSED"}
SessionEvent == [type : SessionEventType, id : SessionId, n : Nat]

\* The values WorkspaceBinder builds
NewSession(agent, w) ==
    [id |-> <<agent, w, clock>>, agent |-> agent, ws |-> w, status |-> "CREATED",
     binding |-> [of |-> agent, ws |-> w], context |-> None, active |-> clock, ended |-> None]
NewBinding(b, id, w) == [id |-> b, session |-> id, ws |-> w, detached |-> None]
Attached(s, w) == [s EXCEPT !.ws = w, !.status = "ATTACHED", !.binding = [of |-> s.id, ws |-> w], !.active = clock]
Detached(s) == [s EXCEPT !.status = "DETACHED", !.active = clock]
Closed(s) == [s EXCEPT !.status = "CLOSED", !.active = clock, !.ended = clock]

-----------------------------------------------------------------------------
SessionsInit ==
    /\ sessions = <<>>
    /\ bindings = {}

\* create_session and add_session.  The registry's has_open_session is not asked
CreateSession(agent, w, version) ==
    /\ workspaces[w] # None
    /\ version = RuntimeMajor
    /\ ProfileOf[agent].active
    /\ LET s == NewSession(agent, w) IN
       /\ sessions' = Append(sessions, s)
       /\ bindings' = bindings \cup {NewBinding(s.binding, s.id, w)}
       /\ Emit("SESSION_CREATED", s.id, 0)
    /\ UNCHANGED <<clock, wvars>>

\* attach makes a binding of its own; the one of create_session stays as it is
Attach(id, w, denied) ==
    LET s == GetSession(id)
        t == Attached(s, w)
    IN
    /\ workspaces[w] # None
    /\ s.status = "CREATED"
    /\ UpdateSession(t)
    /\ bindings' = bindings \cup {NewBinding(t.binding, id, w)}
    /\ Emit("SESSION_ATTACHED", id, Cardinality(Effective(s.agent, denied)))
    /\ UNCHANGED <<clock, wvars>>

\* Mutant: the session goes on as if it had been resumed
Pause_KeepsRunning(id) ==
    LET s == GetSession(id) IN
    /\ s.status \in {"ATTACHED", "STREAMING"}
    /\ UpdateSession([s EXCEPT !.status = "RESUMED", !.active = clock])
    /\ Emit("SESSION_PAUSED", id, 0)
    /\ UNCHANGED <<clock, wvars, bindings>>

Pause(id) ==
    LET s == GetSession(id) IN
    /\ s.status \in {"ATTACHED", "STREAMING", "RESUMED"}
    /\ UpdateSession([s EXCEPT !.status = "PAUSED", !.active = clock])
    /\ Emit("SESSION_PAUSED", id, 0)
    /\ UNCHANGED <<clock, wvars, bindings>>

Resume(id) ==
    LET s == GetSession(id) IN
    /\ s.status = "PAUSED"
    /\ UpdateSession([s EXCEPT !.status = "RESUMED", !.active = clock])
    /\ Emit("SESSION_RESUMED", id, 0)
    /\ UNCHANGED <<clock, wvars, bindings>>

\* detach, with a binding of the session that its caller holds
Detach(id, b) ==
    LET s == GetSession(id) IN
    /\ s.status \notin {"CLOSED", "DETACHED"}
    /\ b.session = id
    /\ UpdateSession(Detached(s))
    /\ bindings' = (bindings \ {b}) \cup {[b EXCEPT !.detached = clock]}
    /\ Emit("SESSION_DETACHED", id, 0)
    /\ UNCHANGED <<clock, wvars>>

Close(id) ==
    LET s == GetSession(id) IN
    /\ s.status # "CLOSED"
    /\ UpdateSession(Closed(s))
    /\ Emit("SESSION_CLOSED", id, 0)
    /\ UNCHANGED <<clock, wvars, bindings>>

\* PackageStreamer.stream: the context is compiled without the session's id
ContextId(agent) == <<agent, clock>>

\* Mutant: a paused session can be streamed to
StreamPackage_Paused(id) ==
    LET s == GetSession(id) IN
    /\ s.status \in {"ATTACHED", "RESUMED", "STREAMING", "PAUSED"}
    /\ UpdateSession([s EXCEPT !.status = "STREAMING", !.context = ContextId(s.agent), !.active = clock])
    /\ UNCHANGED <<clock, log, wvars, bindings>>

\* stream_package returns the session, the package and the context; the
\* PackageStreamedPayload is dropped, so no event is emitted
StreamPackage(id) ==
    LET s == GetSession(id) IN
    /\ s.status \in {"ATTACHED", "RESUMED", "STREAMING"}
    /\ UpdateSession([s EXCEPT !.status = "STREAMING", !.context = ContextId(s.agent), !.active = clock])
    /\ UNCHANGED <<clock, log, wvars, bindings>>

SessionStep ==
    \/ \E agent \in Agents, w \in WorkspaceId, v \in Versions : CreateSession(agent, w, v)
    \/ \E id \in Ids :
          \/ \E w \in WorkspaceId : Attach(id, w, Denied)
          \/ Pause(id) \/ Resume(id) \/ Close(id) \/ StreamPackage(id)
          \/ \E b \in bindings : Detach(id, b)

-----------------------------------------------------------------------------
(* Properties *)

SessionsTypeOK ==
    /\ sessions \in Seq(AgentSession)
    /\ bindings \subseteq WorkspaceBinding

\* Of a ledger l: how many events of a type an id has, and its last session event
Count(l, type, id) == Cardinality({k \in 1..Len(l) : l[k].type = type /\ l[k].id = id})
IsLast(l, k, id) ==
    /\ l[k].type \in SessionEventType /\ l[k].id = id
    /\ \A j \in (k + 1)..Len(l) : ~(l[j].type \in SessionEventType /\ l[j].id = id)
LastType(l, id) == l[CHOOSE k \in 1..Len(l) : IsLast(l, k, id)].type

\* The status each session event leaves behind
After(type) ==
    CASE type = "SESSION_CREATED"  -> "CREATED"
      [] type = "SESSION_ATTACHED" -> "ATTACHED"
      [] type = "SESSION_PAUSED"   -> "PAUSED"
      [] type = "SESSION_RESUMED"  -> "RESUMED"
      [] type = "SESSION_DETACHED" -> "DETACHED"
      [] type = "SESSION_CLOSED"   -> "CLOSED"

\* Domain object -> payload -> ledger -> state (runtime/events.py): whoever
\* rebuilds the registry from the ledger finds every session in its status,
\* except that streaming, whose payload stream_package drops, cannot be seen.
LogExplainsStatus ==
    \A id \in Ids :
        Count(log, "SESSION_CREATED", id) = 1 =>
            \/ GetSession(id).status = After(LastType(log, id))
            \/ /\ GetSession(id).status = "STREAMING"
               /\ After(LastType(log, id)) \in {"ATTACHED", "RESUMED"}

\* Two sessions created for one agent, workspace and time share their id.  The
\* registry keeps both, and the next call with that id makes them one session
\* again: afterwards no entry is left behind in a status of its own.
CollisionsConverge ==
    \A i, j \in 1..Len(sessions) :
        /\ sessions[i].id = sessions[j].id
        /\ LastType(log, sessions[i].id) # "SESSION_CREATED"
        => sessions[i] = sessions[j]

\* The registry is what the ledger tells: every session that was created once has
\* the status its last event gives it, and those that share an id agree again
\* after the next call (runtime/agent_runtime.py, session_registry.py).
RegistryIsReplayable == LogExplainsStatus /\ CollisionsConverge

\* "Enforces at most one OPEN session per agent per workspace"
\* (runtime/session_registry.py)
OneOpenSession ==
    \A i, j \in 1..Len(sessions) :
        /\ sessions[i].agent = sessions[j].agent
        /\ sessions[i].ws = sessions[j].ws
        /\ {sessions[i].status, sessions[j].status} \subseteq OPEN
        => i = j
=============================================================================
