----------------------- MODULE TransportSessionsProofs -----------------------
(* What the ledger says of sessions and transports, for every set of agents, *)
(* workspaces and connectors and any number of events: whoever replays it    *)
(* finds every session in its status, and every connector's count.           *)
EXTENDS TransportSessions, TLAPS, FiniteSetTheorems

\* A registry lists an id first somewhere
FirstListed(q) ==
    \A i \in 1..Len(q) : \E f \in 1..i : q[f].id = q[i].id /\ \A j \in 1..(f - 1) : q[j].id # q[i].id

\* Of ledger l and registry q: the ledger tells that entry i was created and which
\* event about it came last; if it was created once, it has that event's status
Explained(l, s) ==
    \/ s.status = After(LastType(l, s.id))
    \/ s.status = "STREAMING" /\ After(LastType(l, s.id)) \in {"ATTACHED", "RESUMED"}
EntryTold(l, q, i) ==
    /\ \E k \in 1..Len(l) : l[k].type = "SESSION_CREATED" /\ l[k].id = q[i].id
    /\ \E k \in 1..Len(l) : IsLast(l, k, q[i].id)
    /\ Count(l, "SESSION_CREATED", q[i].id) = 1 => Explained(l, FirstOf(q, q[i].id))
Agree(l, q) ==
    \A i, j \in 1..Len(q) : q[i].id = q[j].id /\ LastType(l, q[i].id) # "SESSION_CREATED" => q[i] = q[j]

SessionInv == Agree(log, sessions) /\ \A i \in 1..Len(sessions) : EntryTold(log, sessions, i)

\* A connector sends under ids that were attached, and a closed session is the
\* one whose detachment was reported
AttachedIn(l, id) == \E k \in 1..Len(l) : l[k].type = "CONNECTOR_ATTACHED" /\ l[k].id = id
CountTold(l, t) ==
    Count(l, "CONNECTOR_ATTACHED", t.id) = 1 =>
        /\ t.packages = Count(l, "TRANSPORT_PACKAGE_STREAMED", t.id)
        /\ \A k \in 1..Len(l) :
               l[k].type = "CONNECTOR_DETACHED" /\ l[k].id = t.id =>
                   /\ t.status = "CLOSED"
                   /\ l[k].n = Count(l, "TRANSPORT_PACKAGE_STREAMED", t.id)
                   /\ \A j \in (k + 1)..Len(l) : ~(l[j].type \in TransportEventType /\ l[j].id = t.id)

TransportInv ==
    /\ \A i \in 1..Len(transports) : AttachedIn(log, transports[i].id) /\ CountTold(log, transports[i])
    /\ \A k \in 1..Len(log) :
          log[k].type \in {"TRANSPORT_PACKAGE_STREAMED", "CONNECTOR_DETACHED"} => AttachedIn(log, log[k].id)

Event == WorkspaceEvent \cup SessionEvent \cup TransportEvent

-----------------------------------------------------------------------------
(* The operators of the model *)

\* The first entry of an id that a registry lists.
LEMMA FirstOfFacts ==
  ASSUME NEW T, NEW q \in Seq(T), FirstListed(q), NEW i \in 1..Len(q)
  PROVE  \E f \in 1..i : /\ FirstOf(q, q[i].id) = q[f]
                         /\ q[f].id = q[i].id
                         /\ \A j \in 1..(f - 1) : q[j].id # q[i].id
<1>1. PICK f \in 1..i : q[f].id = q[i].id /\ \A j \in 1..(f - 1) : q[j].id # q[i].id
  BY DEF FirstListed
<1> DEFINE First(x) == q[x].id = q[i].id /\ \A j \in 1..(x - 1) : q[j].id # q[i].id
<1>2. f \in 1..Len(q) /\ First(f)
  BY <1>1
<1>3. \A x \in 1..Len(q) : First(x) => x = f
  <2> SUFFICES ASSUME NEW x \in 1..Len(q), First(x), x # f PROVE FALSE
    OBVIOUS
  <2>1. CASE x < f
    BY <1>1, <2>1
  <2>2. CASE f < x
    BY <1>1, <2>2
  <2> QED
    BY <2>1, <2>2
<1>4. FirstOf(q, q[i].id) = q[CHOOSE x \in 1..Len(q) : First(x)]
  BY DEF FirstOf
<1>5. (CHOOSE x \in 1..Len(q) : First(x)) = f
  <2> HIDE DEF First
  <2> QED
    BY <1>2, <1>3
<1> QED
  BY <1>1, <1>4, <1>5

\* What get_session returns has the id asked for.
LEMMA FirstOfId ==
  ASSUME NEW T, NEW q \in Seq(T), FirstListed(q), NEW id \in {q[i].id : i \in 1..Len(q)}
  PROVE  FirstOf(q, id) \in T /\ FirstOf(q, id).id = id /\ \E i \in 1..Len(q) : FirstOf(q, id) = q[i]
<1>1. PICK i \in 1..Len(q) : q[i].id = id
  OBVIOUS
<1>2. PICK f \in 1..i : FirstOf(q, q[i].id) = q[f] /\ q[f].id = q[i].id
  BY FirstOfFacts
<1>3. f \in 1..Len(q) /\ q[f] \in T
  BY <1>2
<1> QED
  BY <1>1, <1>2, <1>3

\* update_session keeps the ids and their order, and makes all entries of the id
\* the same.
LEMMA WithEveryFacts ==
  ASSUME NEW T, NEW q \in Seq(T), NEW x \in T
  PROVE  /\ WithEvery(q, x) \in Seq(T)
         /\ Len(WithEvery(q, x)) = Len(q)
         /\ \A i \in 1..Len(q) : WithEvery(q, x)[i].id = q[i].id
         /\ \A i \in 1..Len(q) : q[i].id = x.id => WithEvery(q, x)[i] = x
         /\ \A i \in 1..Len(q) : q[i].id # x.id => WithEvery(q, x)[i] = q[i]
BY DEF WithEvery

\* Replacing entries keeps which is listed first.
LEMMA WithEveryFirst ==
  ASSUME NEW T, NEW q \in Seq(T), NEW x \in T, FirstListed(q)
  PROVE  FirstListed(WithEvery(q, x))
<1>1. \A i \in 1..Len(q) : WithEvery(q, x)[i].id = q[i].id
  BY WithEveryFacts
<1>2. Len(WithEvery(q, x)) = Len(q)
  BY WithEveryFacts
<1> SUFFICES ASSUME NEW i \in 1..Len(q)
             PROVE  \E f \in 1..i : /\ WithEvery(q, x)[f].id = WithEvery(q, x)[i].id
                                    /\ \A j \in 1..(f - 1) : WithEvery(q, x)[j].id # WithEvery(q, x)[i].id
  BY <1>2 DEF FirstListed
<1>3. PICK f \in 1..i : q[f].id = q[i].id /\ \A j \in 1..(f - 1) : q[j].id # q[i].id
  BY DEF FirstListed
<1>4. f \in 1..Len(q) /\ \A j \in 1..(f - 1) : j \in 1..Len(q)
  OBVIOUS
<1> QED
  BY <1>1, <1>3, <1>4

\* add_session keeps which is listed first.
LEMMA AppendFirst ==
  ASSUME NEW T, NEW q \in Seq(T), NEW x \in T, FirstListed(q)
  PROVE  FirstListed(Append(q, x))
<1> DEFINE p == Append(q, x)
<1>1. Len(q) \in Nat /\ Len(p) = Len(q) + 1 /\ p[Len(p)] = x /\ \A i \in 1..Len(q) : p[i] = q[i]
  OBVIOUS
<1> HIDE DEF p
<1> SUFFICES ASSUME NEW i \in 1..Len(p)
             PROVE  \E f \in 1..i : p[f].id = p[i].id /\ \A j \in 1..(f - 1) : p[j].id # p[i].id
  BY DEF FirstListed, p
<1>2. CASE i \in 1..Len(q)
  <2>1. PICK f \in 1..i : q[f].id = q[i].id /\ \A j \in 1..(f - 1) : q[j].id # q[i].id
    BY <1>2 DEF FirstListed
  <2>2. f \in 1..Len(q) /\ \A j \in 1..(f - 1) : j \in 1..Len(q)
    BY <1>2
  <2> QED
    BY <1>1, <1>2, <2>1, <2>2
<1>3. CASE i = Len(p) /\ \E k \in 1..Len(q) : q[k].id = x.id
  <2>1. PICK k \in 1..Len(q) : q[k].id = x.id
    BY <1>3
  <2>2. PICK f \in 1..k : q[f].id = q[k].id /\ \A j \in 1..(f - 1) : q[j].id # q[k].id
    BY DEF FirstListed
  <2>3. f \in 1..Len(q) /\ f \in 1..i /\ \A j \in 1..(f - 1) : j \in 1..Len(q)
    BY <1>1, <1>3
  <2> QED
    BY <1>1, <1>3, <2>1, <2>2, <2>3
<1>4. CASE i = Len(p) /\ ~\E k \in 1..Len(q) : q[k].id = x.id
  BY <1>1, <1>4
<1>5. i \in 1..Len(q) \/ i = Len(p)
  BY <1>1
<1> QED
  BY <1>2, <1>3, <1>4, <1>5

\* The first entry of an id stays when another one is added, and is the added one
\* if there was none.
LEMMA AppendFirstOf ==
  ASSUME NEW T, NEW q \in Seq(T), NEW x \in T, FirstListed(q)
  PROVE  /\ \A i \in 1..Len(q) : FirstOf(Append(q, x), q[i].id) = FirstOf(q, q[i].id)
         /\ (\A i \in 1..Len(q) : q[i].id # x.id) => FirstOf(Append(q, x), x.id) = x
<1> DEFINE p == Append(q, x)
<1>1. Len(q) \in Nat /\ Len(p) = Len(q) + 1 /\ p[Len(p)] = x /\ \A i \in 1..Len(q) : p[i] = q[i]
  OBVIOUS
<1>2. p \in Seq(T) /\ FirstListed(p)
  BY AppendFirst
<1> HIDE DEF p
<1>3. ASSUME NEW i \in 1..Len(q) PROVE FirstOf(p, q[i].id) = FirstOf(q, q[i].id)
  <2>1. PICK f \in 1..i : /\ FirstOf(q, q[i].id) = q[f]
                          /\ q[f].id = q[i].id
                          /\ \A j \in 1..(f - 1) : q[j].id # q[i].id
    BY FirstOfFacts
  <2>2. i \in 1..Len(p) /\ p[i] = q[i]
    BY <1>1
  <2>3. PICK g \in 1..i : /\ FirstOf(p, p[i].id) = p[g]
                          /\ p[g].id = p[i].id
                          /\ \A j \in 1..(g - 1) : p[j].id # p[i].id
    BY <1>2, <2>2, FirstOfFacts
  <2>4. f \in 1..Len(q) /\ g \in 1..Len(q) /\ p[f] = q[f] /\ p[g] = q[g]
    BY <1>1
  <2>5. ~(f < g) /\ ~(g < f)
    BY <1>1, <2>1, <2>2, <2>3, <2>4
  <2> QED
    BY <2>1, <2>2, <2>3, <2>4, <2>5
<1>4. ASSUME \A i \in 1..Len(q) : q[i].id # x.id PROVE FirstOf(p, x.id) = x
  <2>1. Len(p) \in 1..Len(p) /\ p[Len(p)].id = x.id
    BY <1>1
  <2>2. PICK f \in 1..Len(p) : FirstOf(p, x.id) = p[f] /\ p[f].id = x.id
    BY <1>2, <2>1, FirstOfFacts
  <2>3. f = Len(p)
    BY <1>1, <1>4, <2>2
  <2> QED
    BY <1>1, <2>2, <2>3
<1> QED
  BY <1>3, <1>4 DEF p

\* The first entry of an id after update_session.
LEMMA WithEveryFirstOf ==
  ASSUME NEW T, NEW q \in Seq(T), NEW x \in T, FirstListed(q), NEW i \in 1..Len(q)
  PROVE  /\ q[i].id = x.id => FirstOf(WithEvery(q, x), q[i].id) = x
         /\ q[i].id # x.id => FirstOf(WithEvery(q, x), q[i].id) = FirstOf(q, q[i].id)
<1> DEFINE p == WithEvery(q, x)
<1>0. p \in Seq(T) /\ FirstListed(p)
  BY WithEveryFacts, WithEveryFirst
<1>1. /\ Len(p) = Len(q)
      /\ \A k \in 1..Len(q) : p[k].id = q[k].id
      /\ \A k \in 1..Len(q) : q[k].id = x.id => p[k] = x
      /\ \A k \in 1..Len(q) : q[k].id # x.id => p[k] = q[k]
  BY DEF WithEvery
<1> HIDE DEF p
<1>2. i \in 1..Len(p) /\ p[i].id = q[i].id
  BY <1>1
<1>3. PICK g \in 1..i : /\ FirstOf(p, p[i].id) = p[g]
                        /\ p[g].id = p[i].id
                        /\ \A j \in 1..(g - 1) : p[j].id # p[i].id
  BY <1>0, <1>2, FirstOfFacts
<1>4. PICK f \in 1..i : /\ FirstOf(q, q[i].id) = q[f]
                        /\ q[f].id = q[i].id
                        /\ \A j \in 1..(f - 1) : q[j].id # q[i].id
  BY FirstOfFacts
<1>5. f \in 1..Len(q) /\ g \in 1..Len(q)
  OBVIOUS
<1>6. ~(f < g) /\ ~(g < f)
  BY <1>1, <1>2, <1>3, <1>4, <1>5
<1>7. f = g
  BY <1>5, <1>6
<1> QED
  BY <1>1, <1>2, <1>3, <1>4, <1>5, <1>7 DEF p

-----------------------------------------------------------------------------
(* The ledger *)

\* An event more: the count of its type and id goes up by one, the others stay.
LEMMA CountAppend ==
  ASSUME NEW T, NEW l \in Seq(T), NEW e, NEW type, NEW id
  PROVE  /\ Count(l, type, id) \in Nat
         /\ e.type = type /\ e.id = id => Count(Append(l, e), type, id) = Count(l, type, id) + 1
         /\ ~(e.type = type /\ e.id = id) => Count(Append(l, e), type, id) = Count(l, type, id)
<1> DEFINE S == {k \in 1..Len(l) : l[k].type = type /\ l[k].id = id}
           R == {k \in 1..Len(Append(l, e)) : Append(l, e)[k].type = type /\ Append(l, e)[k].id = id}
           n == Len(l) + 1
<1>1. IsFiniteSet(S) /\ n \notin S
  <2>1. IsFiniteSet(1..Len(l)) /\ S \subseteq 1..Len(l)
    BY FS_Interval
  <2> QED
    BY <2>1, FS_Subset
<1>2. Cardinality(S) \in Nat /\ Cardinality(S \cup {n}) = Cardinality(S) + 1
  BY <1>1, FS_CardinalityType, FS_AddElement
<1>3. e.type = type /\ e.id = id => R = S \cup {n}
  <2>1. /\ Len(Append(l, e)) = n /\ Append(l, e)[n] = e /\ Len(l) \in Nat
        /\ \A k \in 1..Len(l) : Append(l, e)[k] = l[k]
    OBVIOUS
  <2> QED
    BY <2>1
<1>4. ~(e.type = type /\ e.id = id) => R = S
  <2>1. /\ Len(Append(l, e)) = n /\ Append(l, e)[n] = e /\ Len(l) \in Nat
        /\ \A k \in 1..Len(l) : Append(l, e)[k] = l[k]
    OBVIOUS
  <2> QED
    BY <2>1
<1>5. Count(l, type, id) = Cardinality(S) /\ Count(Append(l, e), type, id) = Cardinality(R)
  BY DEF Count
<1> QED
  BY <1>2, <1>3, <1>4, <1>5

\* Counting none, and counting at least one.
LEMMA CountNone ==
  ASSUME NEW T, NEW l \in Seq(T), NEW type, NEW id
  PROVE  Count(l, type, id) = 0 <=> ~\E k \in 1..Len(l) : l[k].type = type /\ l[k].id = id
<1> DEFINE S == {k \in 1..Len(l) : l[k].type = type /\ l[k].id = id}
<1>1. IsFiniteSet(S)
  <2>1. IsFiniteSet(1..Len(l)) /\ S \subseteq 1..Len(l)
    BY FS_Interval
  <2> QED
    BY <2>1, FS_Subset
<1>2. Cardinality(S) = 0 <=> S = {}
  BY <1>1, FS_EmptySet
<1> QED
  BY <1>2 DEF Count

\* The last session event of an id is unique, so LastType is its type.
LEMMA LastTypeIs ==
  ASSUME NEW T, NEW l \in Seq(T), NEW id, NEW k \in 1..Len(l), IsLast(l, k, id)
  PROVE  LastType(l, id) = l[k].type
<1>1. \A j \in 1..Len(l) : IsLast(l, j, id) => j = k
  <2> SUFFICES ASSUME NEW j \in 1..Len(l), IsLast(l, j, id), j # k PROVE FALSE
    OBVIOUS
  <2>1. CASE j < k
    <3>1. k \in (j + 1)..Len(l)
      BY <2>1
    <3> QED
      BY <3>1 DEF IsLast
  <2>2. CASE k < j
    <3>1. j \in (k + 1)..Len(l)
      BY <2>2
    <3> QED
      BY <3>1 DEF IsLast
  <2> QED
    BY <2>1, <2>2
<1>2. (CHOOSE j \in 1..Len(l) : IsLast(l, j, id)) = k
  BY <1>1
<1> QED
  BY <1>2 DEF LastType

\* An event of an id is its last session event; what is not about the id leaves
\* its last session event where it was.
LEMMA LastAppend ==
  ASSUME NEW T, NEW l \in Seq(T), NEW e, NEW id
  PROVE  /\ e.type \in SessionEventType /\ e.id = id =>
                LastType(Append(l, e), id) = e.type /\ IsLast(Append(l, e), Len(l) + 1, id)
         /\ ~(e.type \in SessionEventType /\ e.id = id) =>
                \A k \in 1..Len(l) : IsLast(l, k, id) =>
                    IsLast(Append(l, e), k, id) /\ LastType(Append(l, e), id) = LastType(l, id)
<1> DEFINE m == Append(l, e)
<1>1. /\ Len(l) \in Nat /\ Len(m) = Len(l) + 1 /\ m[Len(l) + 1] = e
      /\ \A k \in 1..Len(l) : m[k] = l[k]
  OBVIOUS
<1>2. m \in Seq(T \cup {e})
  <2>1. l \in Seq(T \cup {e})
    OBVIOUS
  <2> QED
    BY <2>1
<1> HIDE DEF m
<1>3. ASSUME e.type \in SessionEventType, e.id = id
      PROVE  LastType(m, id) = e.type /\ IsLast(m, Len(l) + 1, id)
  <2>1. IsLast(m, Len(l) + 1, id)
    BY <1>1, <1>3 DEF IsLast
  <2>2. Len(l) + 1 \in 1..Len(m)
    BY <1>1
  <2>3. LastType(m, id) = m[Len(l) + 1].type
    BY <1>2, <2>1, <2>2, LastTypeIs
  <2> QED
    BY <1>1, <2>1, <2>3
<1>4. ASSUME ~(e.type \in SessionEventType /\ e.id = id), NEW k \in 1..Len(l), IsLast(l, k, id)
      PROVE  IsLast(m, k, id) /\ LastType(m, id) = LastType(l, id)
  <2>1. k \in 1..Len(m) /\ m[k] = l[k]
    BY <1>1
  <2>2. \A j \in (k + 1)..Len(m) : ~(m[j].type \in SessionEventType /\ m[j].id = id)
    <3> TAKE j \in (k + 1)..Len(m)
    <3>1. CASE j = Len(l) + 1
      BY <1>1, <1>4, <3>1
    <3>2. CASE j # Len(l) + 1
      <4>1. j \in (k + 1)..Len(l) /\ j \in 1..Len(l)
        BY <1>1, <3>2
      <4> QED
        BY <1>1, <1>4, <4>1 DEF IsLast
    <3> QED
      BY <3>1, <3>2
  <2>3. IsLast(m, k, id)
    BY <1>4, <2>1, <2>2 DEF IsLast
  <2>4. LastType(m, id) = m[k].type
    BY <1>2, <2>1, <2>3, LastTypeIs
  <2>5. LastType(l, id) = l[k].type
    BY <1>4, LastTypeIs
  <2> QED
    BY <2>1, <2>3, <2>4, <2>5
<1> QED
  BY <1>3, <1>4 DEF m

-----------------------------------------------------------------------------
(* Types *)

Listed == FirstListed(sessions) /\ FirstListed(transports)

\* Nothing is opened, created or attached.
LEMMA InitTypes == Init => TypeOK /\ Listed
<1> SUFFICES ASSUME Init PROVE TypeOK /\ Listed
  OBVIOUS
<1>1. clock \in Time /\ workspaces \in [WorkspaceId -> Workspace \cup {None}]
  BY WorkspacesAssumption DEF Init, WorkspacesInit, Time
<1>2. Listed
  BY DEF Init, SessionsInit, TransportInit, Listed, FirstListed
<1> QED
  BY <1>1, <1>2 DEF Init, WorkspacesInit, SessionsInit, TransportInit, TypeOK, SessionsTypeOK

\* Emit appends one event.
LEMMA EmitAppends ==
  ASSUME NEW type, NEW id, NEW n, Emit(type, id, n)
  PROVE  log' = Append(log, [type |-> type, id |-> id, n |-> n])
BY DEF Emit

\* get_session returns a session of the id asked for.
LEMMA GetSessionFacts ==
  ASSUME TypeOK, Listed, NEW id \in Ids
  PROVE  GetSession(id) \in AgentSession /\ GetSession(id).id = id /\ id \in SessionId
<1>1. sessions \in Seq(AgentSession) /\ FirstListed(sessions) /\ id \in {sessions[i].id : i \in 1..Len(sessions)}
  BY DEF TypeOK, SessionsTypeOK, Listed, Ids
<1>2. FirstOf(sessions, id) \in AgentSession /\ FirstOf(sessions, id).id = id
  BY <1>1, FirstOfId
<1> QED
  BY <1>2 DEF GetSession, AgentSession

\* get_session of the transport manager, likewise.
LEMMA GetTransportFacts ==
  ASSUME TypeOK, Listed, NEW id \in TransportIds
  PROVE  /\ GetTransport(id) \in TransportSession /\ GetTransport(id).id = id /\ id \in TransportId
         /\ \E i \in 1..Len(transports) : GetTransport(id) = transports[i]
<1>1. transports \in Seq(TransportSession) /\ FirstListed(transports) /\ id \in {transports[i].id : i \in 1..Len(transports)}
  BY DEF TypeOK, Listed, TransportIds
<1>2. /\ FirstOf(transports, id) \in TransportSession /\ FirstOf(transports, id).id = id
      /\ \E i \in 1..Len(transports) : FirstOf(transports, id) = transports[i]
  BY <1>1, FirstOfId
<1> QED
  BY <1>2 DEF GetTransport, TransportSession

\* What a workspace call changes.
LEMMA WorkspaceTypes ==
  ASSUME TypeOK, Listed, WorkspaceStep, UNCHANGED <<svars, tvars>>
  PROVE  /\ TypeOK'
         /\ \/ log' = log
            \/ \E e \in Event : e.type \in {"WORKSPACE_CREATED", "WORKSPACE_SESSION_OPENED"} /\ log' = Append(log, e)
<1> USE WorkspacesAssumption
<1>1. ASSUME NEW w \in WorkspaceId, NEW agents \in SUBSET Agents, NEW status \in WorkspaceStatus,
             Store(w, agents, status), Emit("WORKSPACE_CREATED", w, 0)
      PROVE  /\ TypeOK'
             /\ \E e \in Event : e.type \in {"WORKSPACE_CREATED", "WORKSPACE_SESSION_OPENED"} /\ log' = Append(log, e)
  <2>1. [type |-> "WORKSPACE_CREATED", id |-> w, n |-> 0] \in WorkspaceEvent
    BY DEF WorkspaceEvent
  <2>2. log' = Append(log, [type |-> "WORKSPACE_CREATED", id |-> w, n |-> 0])
    BY <1>1, EmitAppends
  <2>3. [status |-> status, agents |-> agents, updated |-> clock] \in Workspace
    BY DEF TypeOK, Workspace
  <2>4. workspaces' \in [WorkspaceId -> Workspace \cup {None}] /\ UNCHANGED <<clock, joined>>
    BY <1>1, <2>3 DEF Store, TypeOK
  <2>5. log' \in Seq(WorkspaceEvent \cup SessionEvent \cup TransportEvent)
    BY <2>1, <2>2 DEF TypeOK
  <2> QED
    BY <2>1, <2>2, <2>4, <2>5 DEF TypeOK, SessionsTypeOK, svars, tvars, Event
<1>2. ASSUME NEW name \in Names PROVE <<name, clock>> \in WorkspaceId
  BY DEF TypeOK, WorkspaceId
<1>3. ASSUME NEW w \in WorkspaceId, workspaces[w] # None
      PROVE  workspaces[w].agents \in SUBSET Agents
  BY <1>3 DEF TypeOK, Workspace
<1>4. ASSUME NEW name \in Names, NEW agents \in SUBSET Agents, Open(name, agents)
      PROVE  /\ TypeOK'
             /\ \E e \in Event : e.type \in {"WORKSPACE_CREATED", "WORKSPACE_SESSION_OPENED"} /\ log' = Append(log, e)
  BY <1>1, <1>2, <1>4 DEF Open, WorkspaceStatus
<1>5. ASSUME NEW w \in WorkspaceId, PauseWorkspace(w) \/ ResumeWorkspace(w)
      PROVE  /\ TypeOK'
             /\ \E e \in Event : e.type \in {"WORKSPACE_CREATED", "WORKSPACE_SESSION_OPENED"} /\ log' = Append(log, e)
  BY <1>1, <1>3, <1>5 DEF PauseWorkspace, ResumeWorkspace, WorkspaceStatus
<1>6. ASSUME NEW a \in WorkspaceId, NEW b \in WorkspaceId, NEW name \in Names, Merge(a, b, name)
      PROVE  /\ TypeOK'
             /\ \E e \in Event : e.type \in {"WORKSPACE_CREATED", "WORKSPACE_SESSION_OPENED"} /\ log' = Append(log, e)
  <2>1. workspaces[a].agents \cup workspaces[b].agents \in SUBSET Agents
    BY <1>3, <1>6 DEF Merge
  <2> QED
    BY <1>1, <1>2, <1>6, <2>1 DEF Merge, WorkspaceStatus
<1>7. ASSUME NEW w \in WorkspaceId, NEW agent \in Agents, NEW role \in AgentRole, Join(w, agent, role)
      PROVE  /\ TypeOK'
             /\ \E e \in Event : e.type \in {"WORKSPACE_CREATED", "WORKSPACE_SESSION_OPENED"} /\ log' = Append(log, e)
  <2> DEFINE e == [type |-> "WORKSPACE_SESSION_OPENED", id |-> <<w, agent, clock>>, n |-> 0]
  <2>1. e \in WorkspaceEvent
    BY DEF WorkspaceEvent, TypeOK
  <2>2. log' = Append(log, e)
    BY <1>7, EmitAppends DEF Join
  <2>3. [ws |-> w, agent |-> agent, role |-> role, status |-> "OPEN", started |-> clock, ended |-> None]
            \in WorkspaceSession
    BY DEF TypeOK, WorkspaceSession
  <2>4. joined' \in Seq(WorkspaceSession) /\ UNCHANGED <<clock, workspaces>>
    BY <1>7, <2>3 DEF Join, TypeOK
  <2>5. log' \in Seq(WorkspaceEvent \cup SessionEvent \cup TransportEvent)
    BY <2>1, <2>2 DEF TypeOK
  <2>6. TypeOK'
    BY <2>4, <2>5 DEF TypeOK, SessionsTypeOK, svars, tvars
  <2> QED
    BY <2>1, <2>2, <2>6 DEF Event
<1>8. ASSUME NEW i \in 1..Len(joined), Leave(i) PROVE TypeOK' /\ log' = log
  <2>1. joined[i] \in WorkspaceSession
    BY DEF TypeOK
  <2>2. [joined[i] EXCEPT !.status = "CLOSED", !.ended = clock] \in WorkspaceSession
    BY <2>1 DEF TypeOK, WorkspaceSession
  <2>3. joined' \in Seq(WorkspaceSession)
    BY <1>8, <2>2 DEF Leave, TypeOK
  <2> QED
    BY <1>8, <2>3 DEF Leave, TypeOK, SessionsTypeOK, svars, tvars
<1> QED
  BY <1>4, <1>5, <1>6, <1>7, <1>8 DEF WorkspaceStep

\* What a session call does to the registry and the ledger: a session is created
\* and announced, all entries of an id move to the status of the event that
\* announces it, or a running session is streamed to and no event tells of it.
Creates ==
    \E s \in AgentSession, e \in SessionEvent :
        /\ s.status = "CREATED" /\ e.type = "SESSION_CREATED" /\ e.id = s.id
        /\ sessions' = Append(sessions, s) /\ log' = Append(log, e)
Moves ==
    \E s \in AgentSession, e \in SessionEvent :
        /\ s.id \in Ids /\ e.type # "SESSION_CREATED" /\ e.id = s.id /\ s.status = After(e.type)
        /\ sessions' = WithEvery(sessions, s) /\ log' = Append(log, e)
Streams ==
    \E s \in AgentSession :
        /\ s.id \in Ids /\ s.status = "STREAMING"
        /\ GetSession(s.id).status \in {"ATTACHED", "RESUMED", "STREAMING"}
        /\ sessions' = WithEvery(sessions, s) /\ log' = log

\* Every session call is one of the three.
LEMMA SessionTypes ==
  ASSUME TypeOK, Listed, SessionStep, UNCHANGED tvars
  PROVE  TypeOK' /\ (Creates \/ Moves \/ Streams)
<1> USE WorkspacesAssumption
<1>0. clock \in Time /\ sessions \in Seq(AgentSession) /\ bindings \subseteq WorkspaceBinding
  BY DEF TypeOK, SessionsTypeOK
<1>1. ASSUME NEW id \in Ids, NEW s \in AgentSession, s.id = id, NEW type \in SessionEventType \ {"SESSION_CREATED"},
             NEW n \in Nat, s.status = After(type), UpdateSession(s), Emit(type, id, n),
             bindings' \subseteq WorkspaceBinding, UNCHANGED <<clock, wvars>>
      PROVE  TypeOK' /\ Moves
  <2> DEFINE e == [type |-> type, id |-> id, n |-> n]
  <2>1. log' = Append(log, e)
    BY <1>1, EmitAppends
  <2>2. e \in SessionEvent /\ e.type = type /\ e.id = id
    BY <1>1, GetSessionFacts DEF SessionEvent
  <2> HIDE DEF e
  <2>3. log' \in Seq(WorkspaceEvent \cup SessionEvent \cup TransportEvent)
    BY <2>1, <2>2 DEF TypeOK
  <2>4. sessions' \in Seq(AgentSession) /\ sessions' = WithEvery(sessions, s)
    BY <1>0, <1>1, WithEveryFacts DEF UpdateSession
  <2>5. TypeOK'
    BY <1>1, <2>3, <2>4 DEF TypeOK, SessionsTypeOK, wvars, tvars
  <2>6. Moves
    BY <1>1, <2>1, <2>2, <2>4 DEF Moves
  <2> QED
    BY <2>5, <2>6
<1>2. ASSUME NEW agent \in Agents, NEW w \in WorkspaceId, NEW v \in Versions, CreateSession(agent, w, v)
      PROVE  TypeOK' /\ Creates
  <2> DEFINE s == NewSession(agent, w)
             e == [type |-> "SESSION_CREATED", id |-> s.id, n |-> 0]
  <2>1. s \in AgentSession /\ s.status = "CREATED" /\ NewBinding(s.binding, s.id, w) \in WorkspaceBinding
    BY <1>0 DEF NewSession, AgentSession, SessionId, SessionStatus, BindingId, NewBinding, WorkspaceBinding
  <2>2. e \in SessionEvent
    BY <1>0 DEF NewSession, SessionId, SessionEvent, SessionEventType
  <2>3. Emit("SESSION_CREATED", s.id, 0)
    BY <1>2 DEF CreateSession
  <2>4. log' = Append(log, e)
    BY <2>3, EmitAppends
  <2>5. /\ sessions' = Append(sessions, s)
        /\ bindings' = bindings \cup {NewBinding(s.binding, s.id, w)}
        /\ UNCHANGED <<clock, wvars>>
    BY <1>2 DEF CreateSession
  <2>6. e.type = "SESSION_CREATED" /\ e.id = s.id
    OBVIOUS
  <2> HIDE DEF s, e
  <2>7. log' \in Seq(WorkspaceEvent \cup SessionEvent \cup TransportEvent)
    BY <2>2, <2>4 DEF TypeOK
  <2>8. TypeOK'
    BY <1>0, <2>1, <2>5, <2>7 DEF TypeOK, SessionsTypeOK, wvars, tvars
  <2>9. Creates
    BY <2>1, <2>2, <2>4, <2>5, <2>6 DEF Creates
  <2> QED
    BY <2>8, <2>9
<1>3. ASSUME NEW id \in Ids, NEW w \in WorkspaceId, Attach(id, w, Denied) PROVE TypeOK' /\ Moves
  <2> DEFINE s == GetSession(id)
             t == Attached(s, w)
  <2>1. s \in AgentSession /\ s.id = id /\ id \in SessionId
    BY GetSessionFacts
  <2>2. t \in AgentSession /\ t.id = id /\ t.status = "ATTACHED" /\ NewBinding(t.binding, id, w) \in WorkspaceBinding
    BY <1>0, <2>1 DEF Attached, AgentSession, SessionStatus, BindingId, NewBinding, WorkspaceBinding
  <2>3. Cardinality(Effective(s.agent, Denied)) \in Nat
    <3>1. s.agent \in Agents
      BY <2>1 DEF AgentSession
    <3>2. IsFiniteSet(ProfileOf[s.agent].capabilities)
      BY <3>1, SessionsAssumption
    <3>3. Effective(s.agent, Denied) \in SUBSET ProfileOf[s.agent].capabilities
      BY DEF Effective
    <3> QED
      BY <3>2, <3>3, FS_Subset, FS_CardinalityType
  <2>4. /\ UpdateSession(t)
        /\ bindings' = bindings \cup {NewBinding(t.binding, id, w)}
        /\ Emit("SESSION_ATTACHED", id, Cardinality(Effective(s.agent, Denied)))
        /\ UNCHANGED <<clock, wvars>>
    BY <1>3 DEF Attach
  <2>5. t.status = After("SESSION_ATTACHED") /\ "SESSION_ATTACHED" \in SessionEventType \ {"SESSION_CREATED"}
    BY <2>2 DEF After, SessionEventType
  <2> HIDE DEF s, t
  <2>6. bindings' \subseteq WorkspaceBinding
    BY <1>0, <2>2, <2>4
  <2> QED
    BY <1>1, <2>2, <2>3, <2>4, <2>5, <2>6
<1>4. ASSUME NEW id \in Ids, NEW status \in SessionStatus, NEW type \in SessionEventType \ {"SESSION_CREATED"},
             status = After(type), UpdateSession([GetSession(id) EXCEPT !.status = status, !.active = clock]),
             Emit(type, id, 0), bindings' \subseteq WorkspaceBinding, UNCHANGED <<clock, wvars>>
      PROVE  TypeOK' /\ Moves
  <2> DEFINE s == GetSession(id)
             t == [s EXCEPT !.status = status, !.active = clock]
  <2>1. s \in AgentSession /\ s.id = id
    BY GetSessionFacts
  <2>2. t \in AgentSession /\ t.id = id /\ t.status = status
    BY <1>0, <2>1 DEF AgentSession
  <2>3. UpdateSession(t)
    BY <1>4
  <2> HIDE DEF s, t
  <2> QED
    BY <1>1, <1>4, <2>2, <2>3
<1>5. ASSUME NEW id \in Ids, Pause(id) PROVE TypeOK' /\ Moves
  <2>1. "PAUSED" \in SessionStatus /\ "SESSION_PAUSED" \in SessionEventType \ {"SESSION_CREATED"}
        /\ "PAUSED" = After("SESSION_PAUSED")
    BY DEF SessionStatus, SessionEventType, After
  <2> QED
    BY <1>0, <1>4, <1>5, <2>1 DEF Pause
<1>6. ASSUME NEW id \in Ids, Resume(id) PROVE TypeOK' /\ Moves
  <2>1. "RESUMED" \in SessionStatus /\ "SESSION_RESUMED" \in SessionEventType \ {"SESSION_CREATED"}
        /\ "RESUMED" = After("SESSION_RESUMED")
    BY DEF SessionStatus, SessionEventType, After
  <2> QED
    BY <1>0, <1>4, <1>6, <2>1 DEF Resume
<1>7. ASSUME NEW id \in Ids, NEW b \in bindings, Detach(id, b) PROVE TypeOK' /\ Moves
  <2>1. "DETACHED" \in SessionStatus /\ "SESSION_DETACHED" \in SessionEventType \ {"SESSION_CREATED"}
        /\ "DETACHED" = After("SESSION_DETACHED")
    BY DEF SessionStatus, SessionEventType, After
  <2>2. b \in WorkspaceBinding /\ [b EXCEPT !.detached = clock] \in WorkspaceBinding
    BY <1>0 DEF WorkspaceBinding
  <2>3. bindings' \subseteq WorkspaceBinding
    BY <1>0, <1>7, <2>2 DEF Detach
  <2> QED
    BY <1>4, <1>7, <2>1, <2>3 DEF Detach, Detached
<1>8. ASSUME NEW id \in Ids, Close(id) PROVE TypeOK' /\ Moves
  <2> DEFINE s == GetSession(id)
             t == Closed(s)
  <2>1. s \in AgentSession /\ s.id = id
    BY GetSessionFacts
  <2>2. t \in AgentSession /\ t.id = id /\ t.status = "CLOSED"
    BY <1>0, <2>1 DEF Closed, AgentSession, SessionStatus
  <2>3. UpdateSession(t) /\ Emit("SESSION_CLOSED", id, 0) /\ UNCHANGED <<clock, wvars, bindings>>
    BY <1>8 DEF Close
  <2>4. t.status = After("SESSION_CLOSED") /\ "SESSION_CLOSED" \in SessionEventType \ {"SESSION_CREATED"}
    BY <2>2 DEF After, SessionEventType
  <2> HIDE DEF s, t
  <2> QED
    BY <1>0, <1>1, <2>2, <2>3, <2>4
<1>9. ASSUME NEW id \in Ids, StreamPackage(id) PROVE TypeOK' /\ Streams
  <2> DEFINE s == GetSession(id)
             t == [s EXCEPT !.status = "STREAMING", !.context = ContextId(s.agent), !.active = clock]
  <2>1. s \in AgentSession /\ s.id = id
    BY GetSessionFacts
  <2>2. ContextId(s.agent) \in RuntimeContext
    BY <1>0, <2>1 DEF ContextId, RuntimeContext, AgentSession
  <2>3. t \in AgentSession /\ t.id = id /\ t.status = "STREAMING"
    BY <1>0, <2>1, <2>2 DEF AgentSession, SessionStatus
  <2>4. UpdateSession(t) /\ UNCHANGED <<clock, log, wvars, bindings>> /\ s.status \in {"ATTACHED", "RESUMED", "STREAMING"}
    BY <1>9 DEF StreamPackage
  <2>5. GetSession(t.id) = s
    BY <2>3
  <2> HIDE DEF s, t
  <2>6. sessions' \in Seq(AgentSession) /\ sessions' = WithEvery(sessions, t)
    BY <1>0, <2>3, <2>4, WithEveryFacts DEF UpdateSession
  <2>7. TypeOK'
    BY <2>4, <2>6 DEF TypeOK, SessionsTypeOK, wvars, tvars
  <2>8. Streams
    BY <2>3, <2>4, <2>5, <2>6 DEF Streams
  <2> QED
    BY <2>7, <2>8
<1> QED
  BY <1>2, <1>3, <1>5, <1>6, <1>7, <1>8, <1>9 DEF SessionStep

\* What a transport call does to the manager and the ledger: a session is attached
\* and announced, a package more is counted and announced, a session is closed
\* with its count, or neither the manager nor a session's events are touched.
Attaches ==
    \E t \in TransportSession, e \in TransportEvent :
        /\ t.packages = 0 /\ e.type = "CONNECTOR_ATTACHED" /\ e.id = t.id
        /\ transports' = Append(transports, t) /\ log' = Append(log, e)
Sends ==
    \E s, t \in TransportSession, e \in TransportEvent :
        /\ s.id = t.id /\ s.status # "CLOSED" /\ t.packages = s.packages + 1
        /\ \E i \in 1..Len(transports) : s = transports[i]
        /\ e.type = "TRANSPORT_PACKAGE_STREAMED" /\ e.id = t.id
        /\ transports' = WithEvery(transports, t) /\ log' = Append(log, e)
Detaches ==
    \E s, t \in TransportSession, e \in TransportEvent :
        /\ s.id = t.id /\ s.status # "CLOSED" /\ t.status = "CLOSED" /\ t.packages = s.packages
        /\ \E i \in 1..Len(transports) : s = transports[i]
        /\ e.type = "CONNECTOR_DETACHED" /\ e.id = t.id /\ e.n = t.packages
        /\ transports' = WithEvery(transports, t) /\ log' = Append(log, e)
Other ==
    /\ transports' = transports
    /\ log' = log \/ \E e \in Event : e.type \notin SessionEventType \cup TransportEventType /\ log' = Append(log, e)

\* Every transport call is one of the four, and none touches the registry.
LEMMA TransportTypes ==
  ASSUME TypeOK, Listed, TransportStep
  PROVE  TypeOK' /\ sessions' = sessions /\ (Attaches \/ Sends \/ Detaches \/ Other)
<1>0. clock \in Time /\ transports \in Seq(TransportSession)
  BY DEF TypeOK
<1>1. ASSUME NEW type \in {"CONNECTOR_REGISTERED", "CONNECTOR_NEGOTIATED", "CONNECTOR_UNREGISTERED"},
             NEW m \in Manifests, Emit(type, m, 0)
      PROVE  /\ log' \in Seq(WorkspaceEvent \cup SessionEvent \cup TransportEvent)
             /\ \E e \in Event : e.type \notin SessionEventType \cup TransportEventType /\ log' = Append(log, e)
  <2> DEFINE e == [type |-> type, id |-> m, n |-> 0]
  <2>1. log' = Append(log, e)
    BY <1>1, EmitAppends
  <2>2. e \in TransportEvent /\ e.type \notin SessionEventType \cup TransportEventType
    BY DEF TransportEvent, SessionEventType, TransportEventType
  <2> HIDE DEF e
  <2> QED
    BY <2>1, <2>2 DEF TypeOK, Event
<1>2. ASSUME NEW m \in Manifests, RegisterTransport(m) \/ UnregisterTransport(m)
      PROVE  TypeOK' /\ sessions' = sessions /\ Other
  <2>1. UNCHANGED <<clock, wvars, svars, tvars>>
    BY <1>2 DEF RegisterTransport, UnregisterTransport
  <2>2. /\ log' \in Seq(WorkspaceEvent \cup SessionEvent \cup TransportEvent)
        /\ \E e \in Event : e.type \notin SessionEventType \cup TransportEventType /\ log' = Append(log, e)
    BY <1>1, <1>2 DEF RegisterTransport, UnregisterTransport
  <2> QED
    BY <2>1, <2>2 DEF TypeOK, SessionsTypeOK, Other, wvars, svars, tvars
<1>3. ASSUME NEW m \in Manifests, NegotiateTransport(m) PROVE TypeOK' /\ sessions' = sessions /\ Other
  <2>1. UNCHANGED <<clock, wvars, svars, transports, serializers>>
    BY <1>3 DEF NegotiateTransport
  <2>2. /\ log' \in Seq(WorkspaceEvent \cup SessionEvent \cup TransportEvent)
        /\ \E e \in Event : e.type \notin SessionEventType \cup TransportEventType /\ log' = Append(log, e)
    BY <1>1, <1>3 DEF NegotiateTransport
  <2>3. Negotiate(m) \in {"INCOMPATIBLE", "COMPATIBLE", "REQUIRES_MIGRATION"}
    BY DEF Negotiate
  <2>4. negotiated' \subseteq TransportNegotiation
    BY <1>0, <1>3, <2>3 DEF NegotiateTransport, TransportNegotiation, TypeOK
  <2> QED
    BY <2>1, <2>2, <2>4 DEF TypeOK, SessionsTypeOK, Other, wvars, svars
<1>4. ASSUME NEW n \in negotiated, NEW session \in Ids, AttachTransport(n, session)
      PROVE  TypeOK' /\ sessions' = sessions /\ Attaches
  <2> DEFINE id == <<n.manifest, session, clock>>
             t == [id |-> id, negotiation |-> <<n.manifest, n.at>>, status |-> "CREATED", packages |-> 0]
             e == [type |-> "CONNECTOR_ATTACHED", id |-> id, n |-> 0]
  <2>1. n.manifest \in Manifests /\ n.at \in Time /\ session \in SessionId
    BY GetSessionFacts DEF TypeOK, TransportNegotiation
  <2>2. id \in TransportId
    BY <1>0, <2>1 DEF TransportId
  <2>3. t \in TransportSession /\ t.packages = 0 /\ t.id = id
    BY <2>1, <2>2 DEF TransportSession
  <2>4. e \in TransportEvent /\ e.type = "CONNECTOR_ATTACHED" /\ e.id = id
    BY <2>2 DEF TransportEvent, TransportEventType
  <2>5. Emit("CONNECTOR_ATTACHED", id, 0)
    BY <1>4 DEF AttachTransport
  <2>6. log' = Append(log, e)
    BY <2>5, EmitAppends
  <2>7. transports' = Append(transports, t) /\ UNCHANGED <<clock, wvars, svars, negotiated, serializers>>
    BY <1>4 DEF AttachTransport
  <2> HIDE DEF id, t, e
  <2>8. log' \in Seq(WorkspaceEvent \cup SessionEvent \cup TransportEvent)
    BY <2>4, <2>6 DEF TypeOK
  <2>9. Attaches
    BY <2>3, <2>4, <2>6, <2>7 DEF Attaches
  <2> QED
    BY <1>0, <2>3, <2>7, <2>8, <2>9 DEF TypeOK, SessionsTypeOK, wvars, svars
<1>5. ASSUME NEW id \in TransportIds, NEW t \in TransportSession, t.id = id, UpdateTransport(t),
             NEW type \in TransportEventType, NEW n \in Nat, Emit(type, id, n),
             UNCHANGED <<clock, wvars, svars, negotiated, serializers>>
      PROVE  /\ TypeOK' /\ sessions' = sessions
             /\ transports' = WithEvery(transports, t)
             /\ \E e \in TransportEvent : e.type = type /\ e.id = id /\ e.n = n /\ log' = Append(log, e)
  <2> DEFINE e == [type |-> type, id |-> id, n |-> n]
  <2>1. e \in TransportEvent /\ e.type = type /\ e.id = id /\ e.n = n
    BY GetTransportFacts DEF TransportEvent
  <2>2. log' = Append(log, e)
    BY <1>5, EmitAppends
  <2> HIDE DEF e
  <2>3. log' \in Seq(WorkspaceEvent \cup SessionEvent \cup TransportEvent)
    BY <2>1, <2>2 DEF TypeOK
  <2>4. transports' \in Seq(TransportSession) /\ transports' = WithEvery(transports, t)
    BY <1>0, <1>5, WithEveryFacts DEF UpdateTransport
  <2> QED
    BY <1>5, <2>1, <2>2, <2>3, <2>4 DEF TypeOK, SessionsTypeOK, wvars, svars
<1>6. ASSUME NEW id \in TransportIds, NEW f \in Formats, StreamTransport(id, f)
      PROVE  TypeOK' /\ sessions' = sessions /\ Sends
  <2> DEFINE s == GetTransport(id)
             n == s.packages + 1
             t == [s EXCEPT !.status = "STREAMING", !.packages = n]
  <2>1. /\ s \in TransportSession /\ s.id = id
        /\ \E i \in 1..Len(transports) : s = transports[i]
    BY GetTransportFacts
  <2>2. t \in TransportSession /\ t.id = id /\ t.packages = s.packages + 1
    <3>1. n \in Nat
      BY <2>1 DEF TransportSession
    <3>2. ASSUME NEW k \in Nat, NEW r \in TransportSession
          PROVE  /\ [r EXCEPT !.status = "STREAMING", !.packages = k] \in TransportSession
                 /\ [r EXCEPT !.status = "STREAMING", !.packages = k].id = r.id
                 /\ [r EXCEPT !.status = "STREAMING", !.packages = k].packages = k
      BY DEF TransportSession
    <3> QED
      BY <2>1, <3>1, <3>2
  <2>3. /\ s.status # "CLOSED" /\ UpdateTransport(t) /\ Emit("TRANSPORT_PACKAGE_STREAMED", id, 1)
        /\ UNCHANGED <<clock, wvars, svars, negotiated, serializers>>
    BY <1>6 DEF StreamTransport
  <2> HIDE DEF s, t
  <2>4. /\ TypeOK' /\ sessions' = sessions
        /\ transports' = WithEvery(transports, t)
        /\ \E e \in TransportEvent : e.type = "TRANSPORT_PACKAGE_STREAMED" /\ e.id = id /\ e.n = 1 /\ log' = Append(log, e)
    BY <1>5, <2>2, <2>3 DEF TransportEventType
  <2> QED
    BY <2>1, <2>2, <2>3, <2>4 DEF Sends
<1>7. ASSUME NEW id \in TransportIds, DetachTransport(id) PROVE TypeOK' /\ sessions' = sessions /\ Detaches
  <2> DEFINE s == GetTransport(id)
             t == [s EXCEPT !.status = "CLOSED"]
  <2>1. /\ s \in TransportSession /\ s.id = id
        /\ \E i \in 1..Len(transports) : s = transports[i]
    BY GetTransportFacts
  <2>2. /\ t \in TransportSession /\ t.id = id /\ t.packages = s.packages /\ t.status = "CLOSED"
        /\ s.packages \in Nat
    BY <2>1 DEF TransportSession
  <2>3. /\ s.status # "CLOSED" /\ UpdateTransport(t) /\ Emit("CONNECTOR_DETACHED", id, s.packages)
        /\ UNCHANGED <<clock, wvars, svars, negotiated, serializers>>
    BY <1>7 DEF DetachTransport
  <2> HIDE DEF s, t
  <2>4. /\ TypeOK' /\ sessions' = sessions
        /\ transports' = WithEvery(transports, t)
        /\ \E e \in TransportEvent : e.type = "CONNECTOR_DETACHED" /\ e.id = id /\ e.n = s.packages /\ log' = Append(log, e)
    BY <1>5, <2>2, <2>3 DEF TransportEventType
  <2> QED
    BY <2>1, <2>2, <2>3, <2>4 DEF Detaches
<1>8. ASSUME NEW f \in Formats, RegisterSerializer(f) PROVE TypeOK' /\ sessions' = sessions /\ Other
  BY <1>8 DEF RegisterSerializer, TypeOK, SessionsTypeOK, Other, wvars, svars
<1> QED
  BY <1>2, <1>3, <1>4, <1>6, <1>7, <1>8 DEF TransportStep

\* A step of the three layers, as the registry, the manager and the ledger see it.
LEMMA StepKinds ==
  ASSUME TypeOK, Listed, [Next]_vars
  PROVE  /\ TypeOK'
         /\ \/ sessions' = sessions /\ (Attaches \/ Sends \/ Detaches \/ Other)
            \/ transports' = transports /\ (Creates \/ Moves \/ Streams)
<1>1. CASE Tick /\ UNCHANGED <<svars, tvars>>
  BY <1>1, WorkspacesAssumption DEF Tick, TypeOK, SessionsTypeOK, Other, Time, wvars, svars, tvars
<1>2. CASE WorkspaceStep /\ UNCHANGED <<svars, tvars>>
  BY <1>2, WorkspaceTypes DEF Other, svars, tvars, SessionEventType, TransportEventType
<1>3. CASE SessionStep /\ UNCHANGED tvars
  BY <1>3, SessionTypes DEF tvars
<1>4. CASE TransportStep
  BY <1>4, TransportTypes
<1>5. CASE UNCHANGED vars
  BY <1>5 DEF vars, TypeOK, SessionsTypeOK, Other, wvars, svars, tvars
<1> QED
  BY <1>1, <1>2, <1>3, <1>4, <1>5 DEF Next

\* Every step keeps which entry of an id is listed first.
LEMMA NextListed ==
  ASSUME TypeOK, Listed, [Next]_vars
  PROVE  Listed'
<1>0. sessions \in Seq(AgentSession) /\ transports \in Seq(TransportSession) /\ FirstListed(sessions) /\ FirstListed(transports)
  BY DEF TypeOK, SessionsTypeOK, Listed
<1>1. sessions' = sessions \/ \E s \in AgentSession : sessions' = Append(sessions, s) \/ sessions' = WithEvery(sessions, s)
  BY StepKinds DEF Creates, Moves, Streams
<1>2. transports' = transports
        \/ \E t \in TransportSession : transports' = Append(transports, t) \/ transports' = WithEvery(transports, t)
  BY StepKinds DEF Attaches, Sends, Detaches, Other
<1>3. FirstListed(sessions')
  BY <1>0, <1>1, AppendFirst, WithEveryFirst
<1>4. FirstListed(transports')
  BY <1>0, <1>2, AppendFirst, WithEveryFirst
<1> QED
  BY <1>3, <1>4 DEF Listed

-----------------------------------------------------------------------------
(* The registry is what the ledger tells *)

\* An event about something else leaves what is told of an entry.
LEMMA ToldStays ==
  ASSUME NEW T, NEW l \in Seq(T), NEW q \in Seq(AgentSession), FirstListed(q), NEW i \in 1..Len(q),
         EntryTold(l, q, i), NEW e, ~(e.type \in SessionEventType /\ e.id = q[i].id)
  PROVE  /\ EntryTold(Append(l, e), q, i)
         /\ LastType(Append(l, e), q[i].id) = LastType(l, q[i].id)
<1> DEFINE m == Append(l, e)
<1>1. Len(m) = Len(l) + 1 /\ Len(l) \in Nat /\ \A k \in 1..Len(l) : k \in 1..Len(m) /\ m[k] = l[k]
  OBVIOUS
<1>2. PICK k \in 1..Len(l) : IsLast(l, k, q[i].id)
  BY DEF EntryTold
<1>3. IsLast(m, k, q[i].id) /\ LastType(m, q[i].id) = LastType(l, q[i].id)
  <2> DEFINE id == q[i].id
  <2>1. ~(e.type \in SessionEventType /\ e.id = id) /\ IsLast(l, k, id)
    BY <1>2
  <2> HIDE DEF id
  <2>2. IsLast(Append(l, e), k, id) /\ LastType(Append(l, e), id) = LastType(l, id)
    BY <2>1, LastAppend
  <2> QED
    BY <2>2 DEF id
<1>4. Count(m, "SESSION_CREATED", q[i].id) = Count(l, "SESSION_CREATED", q[i].id)
  <2>1. ~(e.type = "SESSION_CREATED" /\ e.id = q[i].id)
    BY DEF SessionEventType
  <2> QED
    BY <2>1, CountAppend
<1> HIDE DEF m
<1>5. FirstOf(q, q[i].id).id = q[i].id
  BY FirstOfFacts
<1>6. Explained(l, FirstOf(q, q[i].id)) => Explained(m, FirstOf(q, q[i].id))
  BY <1>3, <1>5 DEF Explained
<1>7. \E j \in 1..Len(m) : m[j].type = "SESSION_CREATED" /\ m[j].id = q[i].id
  BY <1>1 DEF EntryTold
<1>8. EntryTold(m, q, i)
  BY <1>1, <1>3, <1>4, <1>6, <1>7 DEF EntryTold
<1> QED
  BY <1>3, <1>8 DEF m

\* A call that does not touch the registry leaves what the ledger tells of it.
LEMMA QuietTold ==
  ASSUME TypeOK, Listed, SessionInv, sessions' = sessions,
         log' = log \/ \E e : e.type \notin SessionEventType /\ log' = Append(log, e)
  PROVE  SessionInv'
<1>0. log \in Seq(Event) /\ sessions \in Seq(AgentSession) /\ FirstListed(sessions)
  BY DEF TypeOK, SessionsTypeOK, Listed, Event
<1>1. CASE log' = log
  BY <1>1 DEF SessionInv
<1>2. ASSUME NEW e, e.type \notin SessionEventType, log' = Append(log, e) PROVE SessionInv'
  <2>1. \A i \in 1..Len(sessions) : EntryTold(log', sessions, i)
                                    /\ LastType(log', sessions[i].id) = LastType(log, sessions[i].id)
    BY <1>0, <1>2, ToldStays DEF SessionInv
  <2>2. Agree(log', sessions)
    BY <2>1 DEF SessionInv, Agree
  <2> QED
    BY <2>1, <2>2 DEF SessionInv
<1> QED
  BY <1>1, <1>2

\* A session that is created and announced is told, and so are the others.
LEMMA CreatedTold ==
  ASSUME TypeOK, Listed, SessionInv, Creates
  PROVE  SessionInv'
<1>0. log \in Seq(Event) /\ sessions \in Seq(AgentSession) /\ FirstListed(sessions)
  BY DEF TypeOK, SessionsTypeOK, Listed, Event
<1>1. PICK s \in AgentSession, e \in SessionEvent :
        /\ s.status = "CREATED" /\ e.type = "SESSION_CREATED" /\ e.id = s.id
        /\ sessions' = Append(sessions, s) /\ log' = Append(log, e)
  BY DEF Creates
<1> DEFINE n == Len(sessions) + 1
<1>2. /\ Len(sessions) \in Nat /\ Len(sessions') = n /\ sessions'[n] = s
      /\ \A i \in 1..Len(sessions) : sessions'[i] = sessions[i]
  BY <1>0, <1>1
<1>3. /\ Len(log) \in Nat /\ Len(log') = Len(log) + 1 /\ log'[Len(log) + 1] = e
      /\ \A k \in 1..Len(log) : log'[k] = log[k]
  BY <1>0, <1>1
<1>4. e.type \in SessionEventType
  BY <1>1 DEF SessionEventType
<1>5. LastType(log', s.id) = "SESSION_CREATED" /\ IsLast(log', Len(log) + 1, s.id)
  BY <1>0, <1>1, <1>4, LastAppend
<1>6. \A i \in 1..Len(sessions) : FirstOf(sessions', sessions[i].id) = FirstOf(sessions, sessions[i].id)
  BY <1>0, <1>1, AppendFirstOf
<1>7. Count(log', "SESSION_CREATED", s.id) = 1 => \A i \in 1..Len(sessions) : sessions[i].id # s.id
  <2> SUFFICES ASSUME NEW i \in 1..Len(sessions), sessions[i].id = s.id, Count(log', "SESSION_CREATED", s.id) = 1
               PROVE  FALSE
    OBVIOUS
  <2>1. \E k \in 1..Len(log) : log[k].type = "SESSION_CREATED" /\ log[k].id = s.id
    BY DEF SessionInv, EntryTold
  <2>2. Count(log, "SESSION_CREATED", s.id) # 0
    BY <1>0, <2>1, CountNone
  <2>3. Count(log, "SESSION_CREATED", s.id) \in Nat
        /\ Count(log', "SESSION_CREATED", s.id) = Count(log, "SESSION_CREATED", s.id) + 1
    BY <1>0, <1>1, CountAppend
  <2> QED
    BY <2>2, <2>3
<1>8. Count(log', "SESSION_CREATED", s.id) = 1 => Explained(log', FirstOf(sessions', s.id))
  <2> SUFFICES ASSUME Count(log', "SESSION_CREATED", s.id) = 1 PROVE Explained(log', FirstOf(sessions', s.id))
    OBVIOUS
  <2>1. FirstOf(sessions', s.id) = s
    BY <1>0, <1>1, <1>7, AppendFirstOf
  <2> QED
    BY <1>1, <1>5, <2>1 DEF Explained, After
<1>9. \E k \in 1..Len(log') : log'[k].type = "SESSION_CREATED" /\ log'[k].id = s.id
  BY <1>1, <1>3
<1>10. ASSUME NEW i \in 1..Len(sessions'), sessions'[i].id = s.id PROVE EntryTold(log', sessions', i)
  <2>1. Len(log) + 1 \in 1..Len(log')
    BY <1>3
  <2> QED
    BY <1>5, <1>8, <1>9, <1>10, <2>1 DEF EntryTold
<1>11. ASSUME NEW i \in 1..Len(sessions'), sessions'[i].id # s.id
       PROVE  /\ EntryTold(log', sessions', i) /\ i \in 1..Len(sessions) /\ sessions'[i] = sessions[i]
              /\ LastType(log', sessions'[i].id) = LastType(log, sessions[i].id)
  <2>1. i \in 1..Len(sessions) /\ sessions'[i] = sessions[i]
    BY <1>2, <1>11
  <2>2. EntryTold(log', sessions, i) /\ LastType(log', sessions[i].id) = LastType(log, sessions[i].id)
    BY <1>0, <1>1, <1>11, <2>1, ToldStays DEF SessionInv
  <2>3. EntryTold(log', sessions', i)
    BY <1>6, <2>1, <2>2 DEF EntryTold
  <2> QED
    BY <2>1, <2>2, <2>3
<1>12. Agree(log', sessions')
  <2> SUFFICES ASSUME NEW i \in 1..Len(sessions'), NEW j \in 1..Len(sessions'), sessions'[i].id = sessions'[j].id,
                      LastType(log', sessions'[i].id) # "SESSION_CREATED"
               PROVE  sessions'[i] = sessions'[j]
    BY DEF Agree
  <2>1. sessions'[i].id # s.id
    BY <1>5
  <2> QED
    BY <1>11, <2>1 DEF SessionInv, Agree
<1> QED
  BY <1>10, <1>11, <1>12 DEF SessionInv

\* A call that moves a session moves every entry of its id to the status of the
\* event that announces it.
LEMMA MovedTold ==
  ASSUME TypeOK, Listed, SessionInv, Moves
  PROVE  SessionInv'
<1>0. log \in Seq(Event) /\ sessions \in Seq(AgentSession) /\ FirstListed(sessions)
  BY DEF TypeOK, SessionsTypeOK, Listed, Event
<1>1. PICK s \in AgentSession, e \in SessionEvent :
        /\ s.id \in Ids /\ e.type # "SESSION_CREATED" /\ e.id = s.id /\ s.status = After(e.type)
        /\ sessions' = WithEvery(sessions, s) /\ log' = Append(log, e)
  BY DEF Moves
<1>2. /\ Len(sessions') = Len(sessions)
      /\ \A i \in 1..Len(sessions) : sessions'[i].id = sessions[i].id
      /\ \A i \in 1..Len(sessions) : sessions[i].id = s.id => sessions'[i] = s
      /\ \A i \in 1..Len(sessions) : sessions[i].id # s.id => sessions'[i] = sessions[i]
  BY <1>0, <1>1 DEF WithEvery
<1>3. /\ Len(log) \in Nat /\ Len(log') = Len(log) + 1 /\ log'[Len(log) + 1] = e
      /\ \A k \in 1..Len(log) : k \in 1..Len(log') /\ log'[k] = log[k]
  BY <1>0, <1>1
<1>4. e.type \in SessionEventType
  BY DEF SessionEvent
<1>5. LastType(log', s.id) = e.type /\ IsLast(log', Len(log) + 1, s.id)
  BY <1>0, <1>1, <1>4, LastAppend
<1>6. ASSUME NEW i \in 1..Len(sessions), sessions[i].id = s.id PROVE EntryTold(log', sessions', i)
  <2>1. FirstOf(sessions', s.id) = s
    BY <1>0, <1>1, <1>6, WithEveryFirstOf
  <2>2. Explained(log', s)
    BY <1>1, <1>5 DEF Explained
  <2>3. \E k \in 1..Len(log) : log[k].type = "SESSION_CREATED" /\ log[k].id = s.id
    BY <1>6 DEF SessionInv, EntryTold
  <2>4. \E k \in 1..Len(log') : log'[k].type = "SESSION_CREATED" /\ log'[k].id = s.id
    BY <1>3, <2>3
  <2>5. Len(log) + 1 \in 1..Len(log') /\ sessions'[i].id = s.id
    BY <1>2, <1>3, <1>6
  <2> QED
    BY <1>5, <2>1, <2>2, <2>4, <2>5 DEF EntryTold
<1>7. ASSUME NEW i \in 1..Len(sessions), sessions[i].id # s.id
      PROVE  EntryTold(log', sessions', i) /\ LastType(log', sessions[i].id) = LastType(log, sessions[i].id)
  <2>1. EntryTold(log', sessions, i) /\ LastType(log', sessions[i].id) = LastType(log, sessions[i].id)
    BY <1>0, <1>1, <1>7, ToldStays DEF SessionInv
  <2>2. FirstOf(sessions', sessions[i].id) = FirstOf(sessions, sessions[i].id)
    BY <1>0, <1>1, <1>7, WithEveryFirstOf
  <2> QED
    BY <1>2, <1>7, <2>1, <2>2 DEF EntryTold
<1>8. Agree(log', sessions')
  <2> SUFFICES ASSUME NEW i \in 1..Len(sessions), NEW j \in 1..Len(sessions), sessions'[i].id = sessions'[j].id,
                      LastType(log', sessions'[i].id) # "SESSION_CREATED"
               PROVE  sessions'[i] = sessions'[j]
    BY <1>2 DEF Agree
  <2>1. sessions[i].id = sessions[j].id
    BY <1>2
  <2>2. CASE sessions[i].id = s.id
    BY <1>2, <2>1, <2>2
  <2>3. CASE sessions[i].id # s.id
    BY <1>2, <1>7, <2>1, <2>3 DEF SessionInv, Agree
  <2> QED
    BY <2>2, <2>3
<1> QED
  BY <1>2, <1>6, <1>7, <1>8 DEF SessionInv

\* Streaming to a running session is not told, and leaves a status the ledger's
\* last event allows.
LEMMA StreamedTold ==
  ASSUME TypeOK, Listed, SessionInv, Streams
  PROVE  SessionInv'
<1>0. sessions \in Seq(AgentSession) /\ FirstListed(sessions)
  BY DEF TypeOK, SessionsTypeOK, Listed
<1>1. PICK s \in AgentSession :
        /\ s.id \in Ids /\ s.status = "STREAMING"
        /\ GetSession(s.id).status \in {"ATTACHED", "RESUMED", "STREAMING"}
        /\ sessions' = WithEvery(sessions, s) /\ log' = log
  BY DEF Streams
<1>2. /\ Len(sessions') = Len(sessions)
      /\ \A i \in 1..Len(sessions) : sessions'[i].id = sessions[i].id
      /\ \A i \in 1..Len(sessions) : sessions[i].id = s.id => sessions'[i] = s
      /\ \A i \in 1..Len(sessions) : sessions[i].id # s.id => sessions'[i] = sessions[i]
  BY <1>0, <1>1 DEF WithEvery
<1>3. ASSUME NEW i \in 1..Len(sessions), sessions[i].id = s.id PROVE EntryTold(log', sessions', i)
  <2>1. FirstOf(sessions', s.id) = s
    BY <1>0, <1>1, <1>3, WithEveryFirstOf
  <2>2. GetSession(s.id).id = s.id
    BY <1>1, GetSessionFacts
  <2>3. Count(log, "SESSION_CREATED", s.id) = 1 => Explained(log, GetSession(s.id))
    BY <1>3 DEF SessionInv, EntryTold, GetSession
  <2>4. Explained(log, GetSession(s.id)) => Explained(log, s)
    BY <1>1, <2>2 DEF Explained
  <2> QED
    BY <1>1, <1>2, <1>3, <2>1, <2>3, <2>4 DEF SessionInv, EntryTold
<1>4. ASSUME NEW i \in 1..Len(sessions), sessions[i].id # s.id PROVE EntryTold(log', sessions', i)
  <2>1. FirstOf(sessions', sessions[i].id) = FirstOf(sessions, sessions[i].id)
    BY <1>0, <1>1, <1>4, WithEveryFirstOf
  <2> QED
    BY <1>1, <1>2, <1>4, <2>1 DEF SessionInv, EntryTold
<1>5. Agree(log', sessions')
  BY <1>1, <1>2 DEF SessionInv, Agree
<1> QED
  BY <1>2, <1>3, <1>4, <1>5 DEF SessionInv

-----------------------------------------------------------------------------
(* A connector's count is what the ledger tells *)

\* An event about something else leaves the count of a transport session told.
LEMMA CountStays ==
  ASSUME NEW T, NEW l \in Seq(T), NEW t, CountTold(l, t), NEW e, ~(e.type \in TransportEventType /\ e.id = t.id)
  PROVE  CountTold(Append(l, e), t)
<1> DEFINE m == Append(l, e)
           id == t.id
<1>1. /\ Len(l) \in Nat /\ Len(m) = Len(l) + 1 /\ m[Len(l) + 1] = e
      /\ \A k \in 1..Len(l) : m[k] = l[k]
  OBVIOUS
<1>2. \A type \in TransportEventType : Count(m, type, id) = Count(l, type, id)
  <2> TAKE type \in TransportEventType
  <2>1. ~(e.type = type /\ e.id = id)
    OBVIOUS
  <2> HIDE DEF id
  <2> QED
    BY <2>1, CountAppend
<1>3. ~(e.type \in TransportEventType /\ e.id = id)
  OBVIOUS
<1> HIDE DEF m, id
<1>4. {"CONNECTOR_ATTACHED", "TRANSPORT_PACKAGE_STREAMED", "CONNECTOR_DETACHED"} \subseteq TransportEventType
  BY DEF TransportEventType
<1>5. SUFFICES ASSUME Count(m, "CONNECTOR_ATTACHED", id) = 1
               PROVE  /\ t.packages = Count(m, "TRANSPORT_PACKAGE_STREAMED", id)
                      /\ \A k \in 1..Len(m) :
                            m[k].type = "CONNECTOR_DETACHED" /\ m[k].id = id =>
                                /\ t.status = "CLOSED"
                                /\ m[k].n = Count(m, "TRANSPORT_PACKAGE_STREAMED", id)
                                /\ \A j \in (k + 1)..Len(m) : ~(m[j].type \in TransportEventType /\ m[j].id = id)
  BY DEF CountTold, m, id
<1>6. Count(l, "CONNECTOR_ATTACHED", id) = 1
  BY <1>2, <1>4, <1>5
<1>7. t.packages = Count(m, "TRANSPORT_PACKAGE_STREAMED", id)
  BY <1>2, <1>4, <1>6 DEF CountTold, id
<1>8. ASSUME NEW k \in 1..Len(m), m[k].type = "CONNECTOR_DETACHED", m[k].id = id
      PROVE  /\ t.status = "CLOSED"
             /\ m[k].n = Count(m, "TRANSPORT_PACKAGE_STREAMED", id)
             /\ \A j \in (k + 1)..Len(m) : ~(m[j].type \in TransportEventType /\ m[j].id = id)
  <2>1. k \in 1..Len(l) /\ m[k] = l[k]
    <3>1. k # Len(l) + 1
      BY <1>1, <1>3, <1>4, <1>8
    <3> QED
      BY <1>1, <3>1
  <2>2. /\ t.status = "CLOSED"
        /\ l[k].n = Count(l, "TRANSPORT_PACKAGE_STREAMED", id)
        /\ \A j \in (k + 1)..Len(l) : ~(l[j].type \in TransportEventType /\ l[j].id = id)
    BY <1>6, <1>8, <2>1 DEF CountTold, id
  <2>3. \A j \in (k + 1)..Len(m) : ~(m[j].type \in TransportEventType /\ m[j].id = id)
    <3> TAKE j \in (k + 1)..Len(m)
    <3>1. CASE j = Len(l) + 1
      BY <1>1, <1>3, <3>1
    <3>2. CASE j # Len(l) + 1
      <4>1. j \in (k + 1)..Len(l) /\ j \in 1..Len(l)
        BY <1>1, <2>1, <3>2
      <4> QED
        BY <1>1, <2>2, <4>1
    <3> QED
      BY <3>1, <3>2
  <2> QED
    BY <1>2, <1>4, <2>1, <2>2, <2>3
<1> QED
  BY <1>7, <1>8

\* What is attached stays so, and an event under an attached id keeps the ids of
\* the ledger attached.
LEMMA AttachedStays ==
  ASSUME NEW T, NEW l \in Seq(T), NEW e, NEW id, AttachedIn(l, id)
  PROVE  AttachedIn(Append(l, e), id)
<1>1. \A k \in 1..Len(l) : k \in 1..Len(Append(l, e)) /\ Append(l, e)[k] = l[k]
  OBVIOUS
<1> QED
  BY <1>1 DEF AttachedIn

\* The ids under which something was sent stay attached.
LEMMA SentStaysAttached ==
  ASSUME NEW e, log \in Seq(Event), log' = Append(log, e), TransportInv,
         e.type \in {"TRANSPORT_PACKAGE_STREAMED", "CONNECTOR_DETACHED"} => AttachedIn(log, e.id)
  PROVE  \A k \in 1..Len(log') :
             log'[k].type \in {"TRANSPORT_PACKAGE_STREAMED", "CONNECTOR_DETACHED"} => AttachedIn(log', log'[k].id)
<1> SUFFICES ASSUME NEW k \in 1..Len(log'), log'[k].type \in {"TRANSPORT_PACKAGE_STREAMED", "CONNECTOR_DETACHED"}
             PROVE  AttachedIn(log', log'[k].id)
  OBVIOUS
<1>1. AttachedIn(log, log'[k].id)
  <2>1. CASE k = Len(log) + 1
    <3>1. log'[k] = e
      BY <2>1
    <3> QED
      BY <3>1
  <2>2. CASE k # Len(log) + 1
    <3>1. k \in 1..Len(log) /\ log'[k] = log[k]
      BY <2>2
    <3> QED
      BY <3>1 DEF TransportInv
  <2> QED
    BY <2>1, <2>2
<1> QED
  BY <1>1, AttachedStays

\* A call that touches no transport session leaves the counts told.
LEMMA QuietCounts ==
  ASSUME TypeOK, TransportInv, transports' = transports,
         log' = log \/ \E e : e.type \notin TransportEventType /\ log' = Append(log, e)
  PROVE  TransportInv'
<1>0. log \in Seq(Event)
  BY DEF TypeOK, Event
<1>1. CASE log' = log
  BY <1>1 DEF TransportInv
<1>2. ASSUME NEW e, e.type \notin TransportEventType, log' = Append(log, e) PROVE TransportInv'
  <2>1. \A i \in 1..Len(transports) : AttachedIn(log', transports[i].id) /\ CountTold(log', transports[i])
    BY <1>0, <1>2, CountStays, AttachedStays DEF TransportInv
  <2>2. e.type \notin {"TRANSPORT_PACKAGE_STREAMED", "CONNECTOR_DETACHED"}
    BY <1>2 DEF TransportEventType
  <2> QED
    BY <1>0, <1>2, <2>1, <2>2, SentStaysAttached DEF TransportInv
<1> QED
  BY <1>1, <1>2

\* Attaching: a new id has sent nothing; a second session of an id is not counted.
LEMMA AttachedCounts ==
  ASSUME TypeOK, TransportInv, Attaches
  PROVE  TransportInv'
<1>0. log \in Seq(Event) /\ transports \in Seq(TransportSession)
  BY DEF TypeOK, Event
<1>1. PICK t \in TransportSession, e \in TransportEvent :
        /\ t.packages = 0 /\ e.type = "CONNECTOR_ATTACHED" /\ e.id = t.id
        /\ transports' = Append(transports, t) /\ log' = Append(log, e)
  BY DEF Attaches
<1>2. /\ Len(log) \in Nat /\ Len(log') = Len(log) + 1 /\ log'[Len(log) + 1] = e
      /\ \A k \in 1..Len(log) : log'[k] = log[k]
  BY <1>0, <1>1
<1>3. AttachedIn(log', t.id)
  <2>1. Len(log) + 1 \in 1..Len(log')
    BY <1>2
  <2> QED
    BY <1>1, <1>2, <2>1 DEF AttachedIn
<1>4. \A k \in 1..Len(log') :
          log'[k].type \in {"TRANSPORT_PACKAGE_STREAMED", "CONNECTOR_DETACHED"} => AttachedIn(log', log'[k].id)
  BY <1>0, <1>1, SentStaysAttached
<1>5. Count(log', "CONNECTOR_ATTACHED", t.id) = 1 => ~AttachedIn(log, t.id)
  <2>1. /\ Count(log, "CONNECTOR_ATTACHED", t.id) \in Nat
        /\ Count(log', "CONNECTOR_ATTACHED", t.id) = Count(log, "CONNECTOR_ATTACHED", t.id) + 1
    BY <1>0, <1>1, CountAppend
  <2>2. Count(log, "CONNECTOR_ATTACHED", t.id) = 0 => ~AttachedIn(log, t.id)
    BY <1>0, CountNone DEF AttachedIn
  <2> QED
    BY <2>1, <2>2
<1>6. CountTold(log', t)
  <2> SUFFICES ASSUME ~AttachedIn(log, t.id)
               PROVE  /\ t.packages = Count(log', "TRANSPORT_PACKAGE_STREAMED", t.id)
                      /\ \A k \in 1..Len(log') : ~(log'[k].type = "CONNECTOR_DETACHED" /\ log'[k].id = t.id)
    BY <1>5 DEF CountTold
  <2>1. \A k \in 1..Len(log) :
            ~(log[k].type \in {"TRANSPORT_PACKAGE_STREAMED", "CONNECTOR_DETACHED"} /\ log[k].id = t.id)
    BY DEF TransportInv
  <2>2. Count(log, "TRANSPORT_PACKAGE_STREAMED", t.id) = 0
    <3>1. ~\E k \in 1..Len(log) : log[k].type = "TRANSPORT_PACKAGE_STREAMED" /\ log[k].id = t.id
      BY <2>1
    <3> QED
      BY <1>0, <3>1, CountNone
  <2>3. Count(log', "TRANSPORT_PACKAGE_STREAMED", t.id) = Count(log, "TRANSPORT_PACKAGE_STREAMED", t.id)
    <3>1. ~(e.type = "TRANSPORT_PACKAGE_STREAMED" /\ e.id = t.id)
      BY <1>1
    <3> QED
      BY <1>0, <1>1, <3>1, CountAppend
  <2>4. \A k \in 1..Len(log') : ~(log'[k].type = "CONNECTOR_DETACHED" /\ log'[k].id = t.id)
    BY <1>1, <1>2, <2>1
  <2> QED
    BY <1>1, <2>2, <2>3, <2>4
<1>7. ASSUME NEW i \in 1..Len(transports)
      PROVE  AttachedIn(log', transports[i].id) /\ CountTold(log', transports[i])
  <2>0. AttachedIn(log, transports[i].id) /\ CountTold(log, transports[i])
    BY DEF TransportInv
  <2>1. AttachedIn(log', transports[i].id)
    BY <1>0, <1>1, <2>0, AttachedStays
  <2>2. CASE transports[i].id = t.id
    BY <1>5, <2>0, <2>1, <2>2 DEF CountTold
  <2>3. CASE transports[i].id # t.id
    BY <1>0, <1>1, <2>0, <2>1, <2>3, CountStays
  <2> QED
    BY <2>2, <2>3, <2>1
<1>8. \A i \in 1..Len(transports') : (i \in 1..Len(transports) /\ transports'[i] = transports[i]) \/ transports'[i] = t
  BY <1>0, <1>1
<1> QED
  BY <1>3, <1>4, <1>6, <1>7, <1>8 DEF TransportInv

\* Sending and detaching: the session is open, so no detachment was reported, and
\* its count is the ledger's.
LEMMA SentCounts ==
  ASSUME TypeOK, TransportInv, Sends \/ Detaches
  PROVE  TransportInv'
<1>0. log \in Seq(Event) /\ transports \in Seq(TransportSession)
  BY DEF TypeOK, Event
<1>1. PICK s \in TransportSession, t \in TransportSession, e \in TransportEvent :
        /\ s.id = t.id /\ s.status # "CLOSED"
        /\ \E i \in 1..Len(transports) : s = transports[i]
        /\ e.id = t.id
        /\ transports' = WithEvery(transports, t) /\ log' = Append(log, e)
        /\ \/ e.type = "TRANSPORT_PACKAGE_STREAMED" /\ t.packages = s.packages + 1
           \/ e.type = "CONNECTOR_DETACHED" /\ t.packages = s.packages /\ t.status = "CLOSED" /\ e.n = t.packages
  BY DEF Sends, Detaches
<1>2. /\ Len(log) \in Nat /\ Len(log') = Len(log) + 1 /\ log'[Len(log) + 1] = e
      /\ \A k \in 1..Len(log) : log'[k] = log[k]
  BY <1>0, <1>1
<1>3. /\ Len(transports') = Len(transports)
      /\ \A i \in 1..Len(transports) : transports'[i] = IF transports[i].id = t.id THEN t ELSE transports[i]
  BY <1>0, <1>1 DEF WithEvery
<1>4. AttachedIn(log, t.id) /\ CountTold(log, s)
  BY <1>1 DEF TransportInv
<1>5. \A k \in 1..Len(log') :
          log'[k].type \in {"TRANSPORT_PACKAGE_STREAMED", "CONNECTOR_DETACHED"} => AttachedIn(log', log'[k].id)
  BY <1>0, <1>1, <1>4, SentStaysAttached
<1>6. CountTold(log', t)
  <2> SUFFICES ASSUME Count(log', "CONNECTOR_ATTACHED", t.id) = 1
               PROVE  /\ t.packages = Count(log', "TRANSPORT_PACKAGE_STREAMED", t.id)
                      /\ \A k \in 1..Len(log') :
                            log'[k].type = "CONNECTOR_DETACHED" /\ log'[k].id = t.id =>
                                /\ t.status = "CLOSED"
                                /\ log'[k].n = Count(log', "TRANSPORT_PACKAGE_STREAMED", t.id)
                                /\ \A j \in (k + 1)..Len(log') :
                                       ~(log'[j].type \in TransportEventType /\ log'[j].id = t.id)
    BY DEF CountTold
  <2>1. Count(log, "CONNECTOR_ATTACHED", t.id) = 1
    <3>1. ~(e.type = "CONNECTOR_ATTACHED" /\ e.id = t.id)
      BY <1>1
    <3> QED
      BY <1>0, <1>1, <3>1, CountAppend
  <2>2. s.packages = Count(log, "TRANSPORT_PACKAGE_STREAMED", t.id)
    BY <1>1, <1>4, <2>1 DEF CountTold
  <2>3. \A k \in 1..Len(log) : ~(log[k].type = "CONNECTOR_DETACHED" /\ log[k].id = t.id)
    BY <1>1, <1>4, <2>1 DEF CountTold
  <2>4. t.packages = Count(log', "TRANSPORT_PACKAGE_STREAMED", t.id)
    <3>1. CASE e.type = "TRANSPORT_PACKAGE_STREAMED"
      <4>1. Count(log', "TRANSPORT_PACKAGE_STREAMED", t.id) = Count(log, "TRANSPORT_PACKAGE_STREAMED", t.id) + 1
        BY <1>0, <1>1, <3>1, CountAppend
      <4> QED
        BY <1>1, <2>2, <3>1, <4>1
    <3>2. CASE e.type # "TRANSPORT_PACKAGE_STREAMED"
      <4>1. Count(log', "TRANSPORT_PACKAGE_STREAMED", t.id) = Count(log, "TRANSPORT_PACKAGE_STREAMED", t.id)
        BY <1>0, <1>1, <3>2, CountAppend
      <4> QED
        BY <1>1, <2>2, <3>2, <4>1
    <3> QED
      BY <3>1, <3>2
  <2>5. ASSUME NEW k \in 1..Len(log'), log'[k].type = "CONNECTOR_DETACHED", log'[k].id = t.id
        PROVE  /\ t.status = "CLOSED" /\ log'[k].n = t.packages /\ k = Len(log')
    <3>1. k = Len(log) + 1
      BY <1>2, <2>3, <2>5
    <3> QED
      BY <1>1, <1>2, <2>5, <3>1
  <2> QED
    BY <1>2, <2>4, <2>5
<1>7. ASSUME NEW i \in 1..Len(transports)
      PROVE  AttachedIn(log', transports'[i].id) /\ CountTold(log', transports'[i])
  <2>0. AttachedIn(log, transports[i].id) /\ CountTold(log, transports[i])
    BY DEF TransportInv
  <2>1. AttachedIn(log', transports[i].id) /\ AttachedIn(log', t.id)
    BY <1>0, <1>1, <1>4, <2>0, AttachedStays
  <2>2. CASE transports[i].id = t.id
    BY <1>3, <1>6, <2>1, <2>2
  <2>3. CASE transports[i].id # t.id
    <3>1. CountTold(log', transports[i])
      BY <1>0, <1>1, <2>0, <2>3, CountStays
    <3> QED
      BY <1>3, <2>1, <2>3, <3>1
  <2> QED
    BY <2>2, <2>3
<1> QED
  BY <1>3, <1>5, <1>7 DEF TransportInv

-----------------------------------------------------------------------------
(* The theorems *)

SessionsInv == TypeOK /\ Listed /\ SessionInv /\ TransportInv

\* The inductive invariant of workspaces, sessions and transports on one ledger.
THEOREM SessionsInvariant == Spec => []SessionsInv
<1>1. Init => SessionsInv
  <2> SUFFICES ASSUME Init PROVE SessionsInv
    OBVIOUS
  <2>1. log = <<>> /\ sessions = <<>> /\ transports = <<>>
    BY DEF Init, WorkspacesInit, SessionsInit, TransportInit
  <2>2. SessionInv /\ TransportInv
    BY <2>1 DEF SessionInv, Agree, TransportInv
  <2> QED
    BY <2>2, InitTypes DEF SessionsInv
<1>2. SessionsInv /\ [Next]_vars => SessionsInv'
  <2> SUFFICES ASSUME SessionsInv, [Next]_vars PROVE SessionsInv'
    OBVIOUS
  <2>0. TypeOK /\ Listed /\ SessionInv /\ TransportInv
    BY DEF SessionsInv
  <2>1. TypeOK' /\ Listed'
    BY <2>0, StepKinds, NextListed
  <2>2. CASE sessions' = sessions /\ (Attaches \/ Sends \/ Detaches \/ Other)
    <3>1. log' = log \/ \E e : e.type \notin SessionEventType /\ log' = Append(log, e)
      BY <2>2 DEF Attaches, Sends, Detaches, Other, SessionEventType
    <3>2. SessionInv'
      BY <2>0, <2>2, <3>1, QuietTold
    <3>3. ASSUME Other PROVE TransportInv'
      <4>1. transports' = transports /\ (log' = log \/ \E e : e.type \notin TransportEventType /\ log' = Append(log, e))
        BY <3>3 DEF Other
      <4> QED
        BY <2>0, <4>1, QuietCounts
    <3>4. TransportInv'
      BY <2>0, <2>2, <3>3, AttachedCounts, SentCounts
    <3> QED
      BY <2>1, <3>2, <3>4 DEF SessionsInv
  <2>3. CASE transports' = transports /\ (Creates \/ Moves \/ Streams)
    <3>1. log' = log \/ \E e : e.type \notin TransportEventType /\ log' = Append(log, e)
      BY <2>3 DEF Creates, Moves, Streams, SessionEvent, SessionEventType, TransportEventType
    <3>2. TransportInv'
      BY <2>0, <2>3, <3>1, QuietCounts
    <3>3. SessionInv'
      BY <2>0, <2>3, CreatedTold, MovedTold, StreamedTold
    <3> QED
      BY <2>1, <3>2, <3>3 DEF SessionsInv
  <2> QED
    BY <2>0, <2>2, <2>3, StepKinds
<1> QED
  BY <1>1, <1>2, PTL DEF Spec

\* Type correctness of workspaces, sessions, transports and their ledger.
THEOREM TypeCorrect == Spec => []TypeOK
<1>1. SessionsInv => TypeOK
  BY DEF SessionsInv
<1> QED
  BY <1>1, SessionsInvariant, PTL

\* Whoever rebuilds the registry from the ledger finds every session that was
\* created once in the status of its last event, or streaming on top of it, and
\* sessions that share an id are one again after the next call
\* (runtime/agent_runtime.py, session_registry.py).
THEOREM LedgerTellsRegistry == Spec => []RegistryIsReplayable
<1>1. SessionsInv => RegistryIsReplayable
  <2> SUFFICES ASSUME SessionsInv PROVE RegistryIsReplayable
    OBVIOUS
  <2>0. sessions \in Seq(AgentSession) /\ FirstListed(sessions) /\ TypeOK /\ Listed
    BY DEF SessionsInv, Listed, TypeOK, SessionsTypeOK
  <2>1. LogExplainsStatus
    <3> SUFFICES ASSUME NEW id \in Ids, Count(log, "SESSION_CREATED", id) = 1
                 PROVE  \/ GetSession(id).status = After(LastType(log, id))
                        \/ /\ GetSession(id).status = "STREAMING"
                           /\ After(LastType(log, id)) \in {"ATTACHED", "RESUMED"}
      BY DEF LogExplainsStatus
    <3>1. PICK i \in 1..Len(sessions) : sessions[i].id = id
      BY DEF Ids
    <3>2. Explained(log, GetSession(id))
      BY <3>1 DEF SessionsInv, SessionInv, EntryTold, GetSession
    <3>3. GetSession(id).id = id
      BY <2>0, GetSessionFacts
    <3> QED
      BY <3>2, <3>3 DEF Explained
  <2>2. CollisionsConverge
    BY DEF SessionsInv, SessionInv, Agree, CollisionsConverge
  <2> QED
    BY <2>1, <2>2 DEF RegistryIsReplayable
<1> QED
  BY <1>1, SessionsInvariant, PTL

\* A connector's packages_sent is the number of packages the ledger announced
\* under its id, its detachment reports that number, and nothing is sent
\* afterwards (transport/runtime.py, session_manager.py).
THEOREM LedgerTellsCounts == Spec => []CountsMatchLog
<1>1. SessionsInv => CountsMatchLog
  BY DEF SessionsInv, TransportInv, CountTold, CountsMatchLog
<1> QED
  BY <1>1, SessionsInvariant, PTL

=============================================================================
