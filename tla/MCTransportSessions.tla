------------------------ MODULE MCTransportSessions ------------------------
EXTENDS TransportSessions, TLC

CONSTANTS a1, w1, read, execute, rest

OneAgent == a1 :> [active |-> TRUE, capabilities |-> {read, execute}]
OneManifest ==
    rest :> [runtimes |-> "others", workspaces |-> "empty", maxSessions |-> 1]

\* Three calls that announce a workspace, two sessions, two packages
Bounds ==
    [type \in {"WORKSPACE_SESSION_OPENED", "SESSION_ATTACHED", "SESSION_PAUSED", "SESSION_RESUMED",
               "SESSION_DETACHED", "SESSION_CLOSED", "CONNECTOR_REGISTERED", "CONNECTOR_UNREGISTERED",
               "CONNECTOR_NEGOTIATED", "CONNECTOR_ATTACHED", "CONNECTOR_DETACHED"} |-> 1]
 @@ [type \in {"SESSION_CREATED", "TRANSPORT_PACKAGE_STREAMED"} |-> 2]
 @@ [type \in {"WORKSPACE_CREATED"} |-> 3]
=============================================================================
