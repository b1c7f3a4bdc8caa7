------------------------------- MODULE Client -------------------------------
(***************************************************************************)
(* The client library: its connection state machine over a transport whose *)
(* connect, send and receive may fail, and the POSIX transport's socket.   *)
(* Requests of an active client are answered by the library itself; they   *)
(* change no state and are represented by the state they require.          *)
(***************************************************************************)
EXTENDS Naturals

CONSTANTS MaxSockets   \* sockets the operating system hands out

VARIABLES
    state,         \* client->state
    open,          \* client->channel.open
    active,        \* client->session.active
    socket,        \* the transport's fd is valid
    sockets,       \* sockets opened and not closed
    served         \* what the last request was answered with

vars == <<state, open, active, socket, sockets, served>>

States == {"disconnected", "resolving", "connecting", "channelOpening", "channelOpen",
           "sessionCreating", "activating", "active", "closing", "error"}

Follows == [disconnected |-> {"resolving"}, resolving |-> {"connecting"},
            connecting |-> {"channelOpening"}, channelOpening |-> {"channelOpen"},
            channelOpen |-> {"sessionCreating", "closing"},
            sessionCreating |-> {"activating", "channelOpen"},
            activating |-> {"active", "channelOpen"}, active |-> {"closing", "channelOpen"},
            closing |-> {"channelOpen"}, error |-> {}]

\* mu_client_state_transition: a step that is not allowed ends in error.
Moved(from, to) ==
    IF to \in {"error", "disconnected"} \cup Follows[from] THEN to ELSE "error"

Init ==
    /\ state = "disconnected"
    /\ open = FALSE
    /\ active = FALSE
    /\ socket = FALSE
    /\ sockets = 0
    /\ served = "nothing"

\* Where the transport fails: connecting, sending HEL or OPN, receiving the
\* answer. A receive that times out counts as a success.
Failures == {"none", "connect", "hello", "open", "receive"}

\* mu_client_open_secure_channel
Opened(failure) == failure \notin {"hello", "open", "receive"}

\* mu_client_connect, up to the step of the transport that fails.
Connect(failure) ==
    /\ state = "disconnected"
    /\ sockets < MaxSockets
    /\ IF failure = "connect"
       THEN state' = "error" /\ UNCHANGED <<socket, sockets, open>>
       ELSE /\ socket' = TRUE
            /\ sockets' = sockets + 1
            /\ open' = (open \/ Opened(failure))
            /\ state' = IF Opened(failure)
                        THEN Moved(Moved(Moved(Moved(state, "resolving"), "connecting"),
                                         "channelOpening"), "channelOpen")
                        ELSE "error"
    /\ served' = "nothing"
    /\ UNCHANGED active

\* mu_client_create_session and mu_client_activate_session.
CreateSession ==
    /\ state = "channelOpen"
    /\ open
    /\ state' = Moved(Moved(state, "sessionCreating"), "activating")
    /\ active' = FALSE
    /\ served' = "nothing"
    /\ UNCHANGED <<open, socket, sockets>>

ActivateSession(anonymous) ==
    /\ state = "activating"
    /\ state' = IF anonymous THEN Moved(state, "active") ELSE "error"
    /\ active' = (active \/ anonymous)
    /\ served' = "nothing"
    /\ UNCHANGED <<open, socket, sockets>>

\* What mu_client_close_session leaves.
ClosedSession ==
    IF ~active /\ state # "active" THEN [state |-> state, active |-> active]
    ELSE [state |-> Moved(Moved(state, "closing"), "channelOpen"), active |-> FALSE]

CloseSession ==
    /\ state' = ClosedSession.state
    /\ active' = ClosedSession.active
    /\ served' = "nothing"
    /\ UNCHANGED <<open, socket, sockets>>

\* Mutant: a disconnect from the error state leaves the transport alone.
ClosesTransportUnlessError == state # "error"

ClosesTransport == TRUE

EndsSession == IF state = "active" THEN ClosedSession ELSE [state |-> state, active |-> active]

\* mu_client_close_secure_channel: a CLO that cannot be sent leaves channel.open set.
StaysOpen(failure) == open /\ failure = "close"

\* mu_client_disconnect: the transport is closed and the state reset all the same.
Disconnect(failure) ==
    /\ active' = EndsSession.active
    /\ open' = StaysOpen(failure)
    /\ socket' = (socket /\ ~ClosesTransport)
    /\ sockets' = IF socket /\ ClosesTransport THEN sockets - 1 ELSE sockets
    /\ state' = "disconnected"
    /\ served' = "nothing"

\* Read, Browse, BrowseNext and Translate need an active Session,
\* GetEndpoints an open channel.
Request(service) ==
    /\ served' = IF service = "endpoints"
                 THEN (IF open THEN "answered" ELSE "refused")
                 ELSE (IF state = "active" /\ active THEN "answered" ELSE "refused")
    /\ UNCHANGED <<state, open, active, socket, sockets>>

Next ==
    \/ \E failure \in Failures : Connect(failure)
    \/ CreateSession
    \/ \E anonymous \in BOOLEAN : ActivateSession(anonymous)
    \/ CloseSession
    \/ \E failure \in {"none", "close"} : Disconnect(failure)
    \/ \E service \in {"endpoints", "read"} : Request(service)

Spec == Init /\ [][Next]_vars

-----------------------------------------------------------------------------
\* No sequence of calls and transport failures leaks a socket: every socket
\* opened is the one the transport still knows, and a disconnected client
\* has none, so that its next connect overwrites nothing.
SocketKept ==
    /\ sockets = (IF socket THEN 1 ELSE 0)
    /\ state = "disconnected" => ~socket

\* The Session flag and the state machine agree, through failed activations
\* and disconnects in any state: a request passes exactly in the active state.
SessionAgrees == active <=> state = "active"

\* The state machine, the Session flag and the transport's socket agree.
ClientAgrees == SocketKept /\ SessionAgrees
=============================================================================
