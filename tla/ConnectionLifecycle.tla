------------------------- MODULE ConnectionLifecycle -------------------------
(***************************************************************************)
(* What the class AndroidTvRemote promises its application about the       *)
(* connection: the values onConnectionState and onAvailabilityChanged may  *)
(* take, one after another, as seen from outside, with no stream, timer or *)
(* generation in sight.  RemoteConnection implements it.                   *)
(***************************************************************************)
CONSTANT AutoReconnect

VARIABLES
    state,     \* the last onConnectionState
    available, \* the last onAvailabilityChanged
    wanted,    \* the application has asked for a connection
    closing    \* the object is being destroyed, and its I/O thread knows

lifecycle == <<state, available, wanted, closing>>

Init ==
    /\ state = "Disconnected"
    /\ available = FALSE
    /\ wanted = FALSE
    /\ closing = FALSE

\* connect(): an attempt begins, or ends at once for want of an identity.
Connect ==
    /\ ~closing
    /\ wanted' = TRUE
    /\ state' \in {"Connecting", "Disconnected"}
    /\ UNCHANGED <<available, closing>>

\* disconnect()
Disconnect ==
    /\ wanted' = FALSE
    /\ state' = "Disconnected"
    /\ available' = FALSE
    /\ UNCHANGED closing

\* startPairing() takes the connection down without reporting availability.
Pair ==
    /\ wanted' = FALSE
    /\ state' = "Disconnected"
    /\ UNCHANGED <<available, closing>>

\* The television reports that the remote control is active.
Established ==
    /\ wanted
    /\ state # "Disconnected"
    /\ state' = "Connected"
    /\ available' = TRUE
    /\ UNCHANGED <<wanted, closing>>

\* The connection, or the attempt, is lost; the I/O thread may learn just then
\* that the object is being destroyed, and give up instead of trying again.
Lost ==
    /\ wanted
    /\ state # "Disconnected"
    /\ closing' \in {closing, TRUE}
    /\ state' = IF AutoReconnect /\ ~closing' THEN "Reconnecting" ELSE "Disconnected"
    /\ available' = (available /\ state # "Connected")
    /\ UNCHANGED wanted

\* A new attempt replaces one that is lost or has only just begun.
Retry ==
    /\ wanted /\ ~closing
    /\ AutoReconnect
    /\ state \in {"Connecting", "Reconnecting"}
    /\ state' = "Reconnecting"
    /\ UNCHANGED <<available, wanted, closing>>

\* The television refuses the handshake: pairing is required.
Refused ==
    /\ wanted /\ ~closing
    /\ state \in {"Connecting", "Reconnecting"}
    /\ state' = "Disconnected"
    /\ UNCHANGED <<available, wanted, closing>>

\* The destructor; a last connect() that it overtakes has no effect but that
\* the connection counts as wanted, and its clean-up as unwanted.
Destroy == closing' = TRUE /\ UNCHANGED <<state, available, wanted>>

Abandon == closing /\ wanted' \in BOOLEAN /\ UNCHANGED <<state, available, closing>>

Next ==
    \/ Connect \/ Disconnect \/ Pair \/ Established \/ Lost \/ Retry \/ Refused
    \/ Destroy \/ Abandon

Spec == Init /\ [][Next]_lifecycle

=============================================================================
