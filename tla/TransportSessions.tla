------------------------- MODULE TransportSessions -------------------------
(***************************************************************************)
(* Transport sessions (transport/) on top of agent sessions and            *)
(* workspaces: a connector registers its manifest, the runtime negotiates  *)
(* with it, a session is attached for an agent session, and packages are   *)
(* serialized and counted.  TransportRuntime is pure, TransportSession-    *)
(* Manager stores what it returns, SerializationPipeline keeps the         *)
(* serializers of the process.  Next composes the three layers: they share *)
(* the ledger and the clock and know each other by id alone.               *)
(***************************************************************************)
EXTENDS AgentSessions

CONSTANTS ManifestOf,  \* manifest id -> what TransportManifest declares
          Formats      \* names of serializers

VARIABLES
    negotiated,   \* the TransportNegotiations returned so far
    transports,   \* TransportSessionManager.sessions
    serializers   \* SerializationPipeline._serializers

tvars == <<negotiated, transports, serializers>>
vars == <<clock, log, wvars, svars, tvars>>

Manifests == DOMAIN ManifestOf

\* How a supported_*_versions list relates to the version of this runtime
Listing == {"listed", "others", "empty"}
TransportManifest == [runtimes : Listing, workspaces : Listing, maxSessions : Nat]
TransportId == Manifests \X SessionId \X Time
TransportSession == [id : TransportId, negotiation : Manifests \X Time, status : {"CREATED", "STREAMING", "CLOSED"},
                     packages : Nat]

TransportNegotiation ==
    [manifest : Manifests, at : Time, outcome : {"INCOMPATIBLE", "COMPATIBLE", "REQUIRES_MIGRATION"}]

TransportEventType == {"CONNECTOR_ATTACHED", "TRANSPORT_PACKAGE_STREAMED", "CONNECTOR_DETACHED"}
TransportEvent ==
    [type : {"CONNECTOR_REGISTERED", "CONNECTOR_NEGOTIATED", "CONNECTOR_UNREGISTERED"}, id : Manifests, n : Nat]
      \cup [type : TransportEventType, id : TransportId, n : Nat]

ASSUME TransportAssumption == \A m \in Manifests : ManifestOf[m] \in TransportManifest

\* NegotiationEngine.negotiate with the default requirements: one session
Negotiate(m) ==
    LET f == ManifestOf[m] IN
    IF f.maxSessions < 1 THEN "INCOMPATIBLE"
    ELSE IF "others" \in {f.runtimes, f.workspaces} THEN "COMPATIBLE"     \* with a warning
    ELSE IF "empty" \in {f.runtimes, f.workspaces} THEN "REQUIRES_MIGRATION"
    ELSE "COMPATIBLE"

\* NegotiationEngine.check_compatibility
CheckCompatibility(m) == ManifestOf[m].runtimes = "listed" /\ ManifestOf[m].workspaces = "listed"

UpdateTransport(t) == transports' = WithEvery(transports, t)

GetTransport(id) == FirstOf(transports, id)

TransportIds == {transports[i].id : i \in 1..Len(transports)}

-----------------------------------------------------------------------------
TransportInit ==
    /\ negotiated = {}
    /\ transports = <<>>
    /\ serializers = {}

RegisterTransport(m) ==
    /\ Emit("CONNECTOR_REGISTERED", m, 0)
    /\ UNCHANGED <<clock, wvars, svars, tvars>>

UnregisterTransport(m) ==
    /\ Emit("CONNECTOR_UNREGISTERED", m, 0)
    /\ UNCHANGED <<clock, wvars, svars, tvars>>

\* No outcome is REJECTED, so every negotiation is announced
NegotiateTransport(m) ==
    /\ negotiated' = negotiated \cup {[manifest |-> m, at |-> clock, outcome |-> Negotiate(m)]}
    /\ Emit("CONNECTOR_NEGOTIATED", m, 0)
    /\ UNCHANGED <<clock, wvars, svars, transports, serializers>>

\* attach for any agent session the caller names; add_session stores it
AttachTransport(n, session) ==
    LET id == <<n.manifest, session, clock>> IN
    /\ n.outcome = "COMPATIBLE"
    /\ transports' = Append(transports, [id |-> id, negotiation |-> <<n.manifest, n.at>>,
                                         status |-> "CREATED", packages |-> 0])
    /\ Emit("CONNECTOR_ATTACHED", id, 0)
    /\ UNCHANGED <<clock, wvars, svars, negotiated, serializers>>

\* Mutant: the count is not carried over
StreamTransport_NoCount(id, format) ==
    LET t == GetTransport(id) IN
    /\ t.status # "CLOSED"
    /\ format \in serializers
    /\ UpdateTransport([t EXCEPT !.status = "STREAMING"])
    /\ Emit("TRANSPORT_PACKAGE_STREAMED", id, 1)
    /\ UNCHANGED <<clock, wvars, svars, negotiated, serializers>>

\* An unknown format is an Error: nothing is sent and nothing counted
StreamTransport(id, format) ==
    LET t == GetTransport(id) IN
    /\ t.status # "CLOSED"
    /\ format \in serializers
    /\ UpdateTransport([t EXCEPT !.status = "STREAMING", !.packages = @ + 1])
    /\ Emit("TRANSPORT_PACKAGE_STREAMED", id, 1)
    /\ UNCHANGED <<clock, wvars, svars, negotiated, serializers>>

DetachTransport(id) ==
    LET t == GetTransport(id) IN
    /\ t.status # "CLOSED"
    /\ UpdateTransport([t EXCEPT !.status = "CLOSED"])
    /\ Emit("CONNECTOR_DETACHED", id, t.packages)
    /\ UNCHANGED <<clock, wvars, svars, negotiated, serializers>>

RegisterSerializer(format) ==
    /\ format \notin serializers
    /\ serializers' = serializers \cup {format}
    /\ UNCHANGED <<clock, log, wvars, svars, negotiated, transports>>

TransportStep ==
    \/ \E m \in Manifests : RegisterTransport(m) \/ UnregisterTransport(m) \/ NegotiateTransport(m)
    \/ \E n \in negotiated, session \in Ids : AttachTransport(n, session)
    \/ \E id \in TransportIds : DetachTransport(id) \/ \E f \in Formats : StreamTransport(id, f)
    \/ \E f \in Formats : RegisterSerializer(f)

-----------------------------------------------------------------------------
Init == WorkspacesInit /\ SessionsInit /\ TransportInit

Next ==
    \/ Tick /\ UNCHANGED <<svars, tvars>>
    \/ WorkspaceStep /\ UNCHANGED <<svars, tvars>>
    \/ SessionStep /\ UNCHANGED tvars
    \/ TransportStep

Spec == Init /\ [][Next]_vars

-----------------------------------------------------------------------------
(* Properties *)

TypeOK ==
    /\ clock \in Time
    /\ log \in Seq(WorkspaceEvent \cup SessionEvent \cup TransportEvent)
    /\ workspaces \in [WorkspaceId -> Workspace \cup {None}]
    /\ joined \in Seq(WorkspaceSession)
    /\ SessionsTypeOK
    /\ negotiated \subseteq TransportNegotiation
    /\ transports \in Seq(TransportSession)
    /\ serializers \subseteq Formats

\* What a connector reports when it detaches is what the ledger says it sent:
\* packages_sent counts the streamed events of the session, the report carries
\* the final count, and nothing is sent under that id afterwards.
CountsMatchLog ==
    \A i \in 1..Len(transports) :
        LET id == transports[i].id
            sent == Count(log, "TRANSPORT_PACKAGE_STREAMED", id)
        IN  Count(log, "CONNECTOR_ATTACHED", id) = 1 =>
                /\ transports[i].packages = sent
                /\ \A k \in 1..Len(log) :
                       log[k].type = "CONNECTOR_DETACHED" /\ log[k].id = id =>
                           /\ log[k].n = sent
                           /\ \A l \in (k + 1)..Len(log) :
                                  ~(log[l].type \in TransportEventType /\ log[l].id = id)

\* "Rejects incompatible transports before sessions are created"
\* (transport/negotiation_engine.py), by the engine's own compatibility check
AttachedAreCompatible == \A id \in TransportIds : CheckCompatibility(id[1])
=============================================================================
