-------------------------- MODULE ClientConnection --------------------------
(***************************************************************************)
(* The connection of one rex-client (transport/base.rs, and tcp.rs,        *)
(* websocket.rs or quic.rs): the connection monitor that reconnects, one   *)
(* receive task per socket, the heartbeat task, and close.  All four write *)
(* connection_state, a relaxed atomic, between their awaits.               *)
(*                                                                         *)
(* A socket is a TCP or WebSocket connection, or a QUIC connection with    *)
(* the one stream the client writes to.  The three clients are three       *)
(* copies of the same control; what they share is defined once, what they  *)
(* differ in (when a receive task notices the end, what close reaches,     *)
(* when a dial is still possible) per client.                              *)
(***************************************************************************)
EXTENDS Naturals

CONSTANTS Socks,       \* sockets; a number is used again once nobody holds it
          MaxAttempts, \* max_reconnect_attempts
          MaxBreaks,   \* bound: how often a socket breaks
          None         \* "no socket"

ASSUME ConstantsAssumption ==
    /\ None \notin Socks
    /\ MaxAttempts \in Nat \ {0}
    /\ MaxBreaks \in Nat

VARIABLES
    state,     \* connection_state
    monitor,   \* where open, later the connection monitor, is
    opening,   \* connect_with_retry is still that of open
    attempts,  \* failed attempts of the running connect_with_retry
    sock,      \* the socket the client's sender writes to
    up,        \* sockets that work
    readers,   \* sockets with a running receive task
    told,      \* receive tasks that will see the shutdown signal
    heartbeat, \* where the heartbeat task is
    pinged,    \* the socket it is sending its ping to
    closer,    \* where close is
    breaks,    \* sockets broken so far
    protocol,  \* which of the three clients this is
    stopped    \* sockets whose stream the server reads no longer (QUIC)

link == <<protocol, stopped>>
vars == <<link, state, monitor, opening, attempts, sock, up, readers, told,
          heartbeat, pinged, closer, breaks>>

States == {"Disconnected", "Connecting", "Connected", "Reconnecting"}

(* Every variable keeps its shape; once open has returned, or dialled,     *)
(* there is a socket.                                                      *)
TypeOK ==
    /\ state \in States
    /\ monitor \in {"dial", "login", "backoff", "sleep", "failed", "gone"}
    /\ opening \in BOOLEAN
    /\ attempts \in 0 .. MaxAttempts - 1
    /\ sock \in Socks \cup {None}
    /\ up \subseteq Socks
    /\ readers \subseteq Socks
    /\ told \subseteq readers
    /\ heartbeat \in {"off", "sleep", "send", "wait", "gone"}
    /\ pinged \in Socks \cup {None}
    /\ closer \in {"no", "socket", "state", "done"}
    /\ breaks \in 0 .. MaxBreaks
    /\ protocol \in {"tcp", "websocket", "quic"}
    /\ stopped \subseteq Socks
    /\ monitor = "login" \/ ~opening => sock # None

(* open calls connect_with_retry.                                          *)
Init ==
    /\ state = "Connecting"
    /\ monitor = "dial"
    /\ opening = TRUE
    /\ attempts = 0
    /\ sock = None
    /\ up = {}
    /\ readers = {}
    /\ told = {}
    /\ heartbeat = "off"
    /\ pinged = None
    /\ closer = "no"
    /\ breaks = 0
    /\ protocol \in {"tcp", "websocket", "quic"}
    /\ stopped = {}

-----------------------------------------------------------------------------
(* A write to s is not refused.                                            *)
Writable(s) == s \in up \ stopped

(* What every connect does: a new socket becomes the client's sender and   *)
(* gets a receive task, which subscribes to shutdown now; then login.  The *)
(* sender it replaces is overwritten without being dropped, so that socket *)
(* stays open.                                                             *)
Dialled(s) ==
    /\ monitor = "dial"
    /\ s \notin readers \cup {sock, pinged}
    /\ sock' = s
    /\ up' = up \cup {s}
    /\ readers' = readers \cup {s}
    /\ stopped' = stopped \ {s}
    /\ monitor' = "login"
    /\ UNCHANGED <<protocol, state, opening, attempts, told, heartbeat, pinged, closer, breaks>>

TcpConnect(s) == protocol = "tcp" /\ Dialled(s)

WebSocketConnect(s) == protocol = "websocket" /\ Dialled(s)

(* The endpoint of a QUIC client, once closed, opens no connection.        *)
QuicConnect(s) ==
    /\ protocol = "quic"
    /\ closer \notin {"state", "done"}
    /\ Dialled(s)

Connect(s) == TcpConnect(s) \/ WebSocketConnect(s) \/ QuicConnect(s)

(* Mutant of Fail: the monitor gives up without a trace.                   *)
BugGiveUpSilently ==
    \/ /\ attempts + 1 < MaxAttempts
       /\ attempts' = attempts + 1
       /\ monitor' = "backoff"
       /\ UNCHANGED state
    \/ /\ attempts + 1 >= MaxAttempts
       /\ attempts' = 0
       /\ monitor' = IF opening THEN "failed" ELSE "sleep"
       /\ UNCHANGED state

(* Mutant of Fail: one attempt too many.                                   *)
BugOneMore ==
    \/ /\ attempts < MaxAttempts
       /\ attempts' = attempts + 1
       /\ monitor' = "backoff"
       /\ UNCHANGED state
    \/ /\ attempts >= MaxAttempts
       /\ attempts' = 0
       /\ monitor' = IF opening THEN "failed" ELSE "sleep"
       /\ state' = IF opening THEN state ELSE "Disconnected"

(* connect_with_retry after an error: back off, or give up.  open then     *)
(* returns the error; the monitor goes back to sleep.                      *)
Fail ==
    \/ /\ attempts + 1 < MaxAttempts
       /\ attempts' = attempts + 1
       /\ monitor' = "backoff"
       /\ UNCHANGED state
    \/ /\ attempts + 1 >= MaxAttempts
       /\ attempts' = 0
       /\ monitor' = IF opening THEN "failed" ELSE "sleep"
       /\ state' = IF opening THEN state ELSE "Disconnected"

DialFails ==
    /\ monitor = "dial"
    /\ Fail
    /\ UNCHANGED <<link, opening, sock, up, readers, told, heartbeat, pinged, closer, breaks>>

(* The Login command cannot be written; the receive task lives on.         *)
LoginFails ==
    /\ monitor = "login"
    /\ ~Writable(sock)
    /\ Fail
    /\ UNCHANGED <<link, opening, sock, up, readers, told, heartbeat, pinged, closer, breaks>>

(* The Login command is written (a broken socket may still take it), then   *)
(* the state is set, whatever the receive task made of it meanwhile.  open  *)
(* goes on to spawn the monitor and the heartbeat.                         *)
LoggedIn ==
    /\ monitor = "login"
    /\ state' = "Connected"
    /\ attempts' = 0
    /\ monitor' = "sleep"
    /\ opening' = FALSE
    /\ heartbeat' = IF opening THEN "sleep" ELSE heartbeat
    /\ UNCHANGED <<link, sock, up, readers, told, pinged, closer, breaks>>

(* The pause of connect_with_retry is over; connect starts.                *)
Retry ==
    /\ monitor = "backoff"
    /\ monitor' = "dial"
    /\ state' = "Connecting"
    /\ UNCHANGED <<link, opening, attempts, sock, up, readers, told, heartbeat,
                   pinged, closer, breaks>>

(* connection_monitor_task finds the connection lost: Reconnecting, then   *)
(* at once Connecting.                                                     *)
Reconnect ==
    /\ monitor = "sleep"
    /\ state = "Disconnected"
    /\ monitor' = "dial"
    /\ state' = "Connecting"
    /\ UNCHANGED <<link, opening, attempts, sock, up, readers, told, heartbeat,
                   pinged, closer, breaks>>

(* The end of a receive task marks the connection lost, whichever socket   *)
(* it read.                                                                *)
ReaderEnds(s) ==
    /\ s \in readers
    /\ readers' = readers \ {s}
    /\ told' = told \ {s}
    /\ state' = "Disconnected"
    /\ UNCHANGED <<link, monitor, opening, attempts, sock, up, heartbeat, pinged,
                   closer, breaks>>

(* A TCP receive task ends at end of file, an error, or the signal.        *)
TcpReceiveEnds(s) ==
    /\ protocol = "tcp"
    /\ s \notin up \/ s \in told
    /\ ReaderEnds(s)

(* A WebSocket one at a Close message, too.                                *)
WebSocketReceiveEnds(s) ==
    /\ protocol = "websocket"
    /\ s \notin up \/ s \in told
    /\ ReaderEnds(s)

(* A QUIC one accepts streams: it ends with the connection, or at the      *)
(* signal, but not with the stream the client writes to.                   *)
QuicReceiveEnds(s) ==
    /\ protocol = "quic"
    /\ s \notin up \/ s \in told
    /\ ReaderEnds(s)

ReceiveEnds(s) == TcpReceiveEnds(s) \/ WebSocketReceiveEnds(s) \/ QuicReceiveEnds(s)

-----------------------------------------------------------------------------
(* heartbeat_task: after an idle while, a ping to the socket of now ...    *)
Ping ==
    /\ heartbeat = "sleep"
    /\ state = "Connected"
    /\ heartbeat' = "send"
    /\ pinged' = sock
    /\ UNCHANGED <<link, state, monitor, opening, attempts, sock, up, readers, told,
                   closer, breaks>>

(* Mutant of PingFails: the failed write is only logged.                   *)
BugPingErrorIgnored ==
    /\ heartbeat = "send"
    /\ ~Writable(pinged)
    /\ heartbeat' = "sleep"
    /\ pinged' = None
    /\ UNCHANGED <<link, state, monitor, opening, attempts, sock, up, readers, told,
                   closer, breaks>>

(* ... whose write fails on a broken socket ...                            *)
PingFails ==
    /\ heartbeat = "send"
    /\ ~Writable(pinged)
    /\ state' = "Disconnected"
    /\ heartbeat' = "sleep"
    /\ pinged' = None
    /\ UNCHANGED <<link, monitor, opening, attempts, sock, up, readers, told, closer,
                   breaks>>

(* ... or succeeds, for a while even on a broken one, and then the pong is  *)
(* waited for ...                                                          *)
PingSent ==
    /\ heartbeat = "send"
    /\ heartbeat' = "wait"
    /\ pinged' = None
    /\ UNCHANGED <<link, state, monitor, opening, attempts, sock, up, readers, told,
                   closer, breaks>>

(* ... but send_buf itself has set last_recv to now, so the comparison     *)
(* with the value before the ping always finds the heartbeat successful.   *)
Pong ==
    /\ heartbeat = "wait"
    /\ heartbeat' = "sleep"
    /\ UNCHANGED <<link, state, monitor, opening, attempts, sock, up, readers, told,
                   pinged, closer, breaks>>

-----------------------------------------------------------------------------
(* close, once open has returned: the shutdown signal, seen by the tasks   *)
(* subscribed so far ...                                                   *)
CloseSignals ==
    /\ closer = "no"
    /\ ~opening
    /\ closer' = "socket"
    /\ told' = readers
    /\ UNCHANGED <<link, state, monitor, opening, attempts, sock, up, readers,
                   heartbeat, pinged, breaks>>

(* Mutant of CloseSocket: the QUIC endpoint is left open.                  *)
BugOnlyConnection ==
    /\ closer = "socket"
    /\ closer' = "state"
    /\ up' = up \ {sock}
    /\ UNCHANGED <<link, state, monitor, opening, attempts, sock, readers, told,
                   heartbeat, pinged, breaks>>

(* ... the socket of now is closed, and by a QUIC client its endpoint with *)
(* every connection of it ...                                              *)
CloseSocket ==
    /\ closer = "socket"
    /\ closer' = "state"
    /\ up' = IF protocol = "quic" THEN {} ELSE up \ {sock}
    /\ UNCHANGED <<link, state, monitor, opening, attempts, sock, readers, told,
                   heartbeat, pinged, breaks>>

(* ... and the state set.                                                  *)
CloseState ==
    /\ closer = "state"
    /\ closer' = "done"
    /\ state' = "Disconnected"
    /\ UNCHANGED <<link, monitor, opening, attempts, sock, up, readers, told,
                   heartbeat, pinged, breaks>>

(* The signal drops the monitor at an await; select! may let it take a     *)
(* step before it looks at the signal.                                     *)
MonitorStops ==
    /\ closer # "no"
    /\ monitor \in {"dial", "login", "backoff", "sleep"}
    /\ monitor' = "gone"
    /\ attempts' = 0
    /\ UNCHANGED <<link, state, opening, sock, up, readers, told, heartbeat, pinged,
                   closer, breaks>>

HeartbeatStops ==
    /\ closer # "no"
    /\ heartbeat \in {"sleep", "send", "wait"}
    /\ heartbeat' = "gone"
    /\ pinged' = None
    /\ UNCHANGED <<link, state, monitor, opening, attempts, sock, up, readers, told,
                   closer, breaks>>

-----------------------------------------------------------------------------
(* The network, or the server, ends a connection.                          *)
Break(s) ==
    /\ s \in up
    /\ breaks < MaxBreaks
    /\ breaks' = breaks + 1
    /\ up' = up \ {s}
    /\ UNCHANGED <<link, state, monitor, opening, attempts, sock, readers, told,
                   heartbeat, pinged, closer>>

(* The driver of a QUIC stream ends (admin disconnect, oversize frame) and *)
(* drops the stream; the connection stays.                                 *)
StreamStops(s) ==
    /\ protocol = "quic"
    /\ s \in up \ stopped
    /\ breaks < MaxBreaks
    /\ breaks' = breaks + 1
    /\ stopped' = stopped \cup {s}
    /\ UNCHANGED <<protocol, state, monitor, opening, attempts, sock, up, readers, told,
                   heartbeat, pinged, closer>>

-----------------------------------------------------------------------------
(* connect_with_retry, but for the successful dial.                        *)
ConnectWithRetry == DialFails \/ LoginFails \/ LoggedIn \/ Retry

TasksStop == MonitorStops \/ HeartbeatStops

Close == CloseSignals \/ CloseSocket \/ CloseState

(* The copies of each client.                                              *)
TcpConnectWithRetry == protocol = "tcp" /\ ConnectWithRetry

TcpMonitor == protocol = "tcp" /\ Reconnect

TcpTasksStop == protocol = "tcp" /\ TasksStop

TcpClose == protocol = "tcp" /\ Close

WebSocketConnectWithRetry == protocol = "websocket" /\ ConnectWithRetry

WebSocketMonitor == protocol = "websocket" /\ Reconnect

WebSocketTasksStop == protocol = "websocket" /\ TasksStop

WebSocketClose == protocol = "websocket" /\ Close

QuicConnectWithRetry == protocol = "quic" /\ ConnectWithRetry

QuicMonitor == protocol = "quic" /\ Reconnect

QuicTasksStop == protocol = "quic" /\ TasksStop

QuicClose == protocol = "quic" /\ Close

TcpClient == TcpConnectWithRetry \/ TcpMonitor \/ TcpTasksStop \/ TcpClose

WebSocketClient ==
    WebSocketConnectWithRetry \/ WebSocketMonitor \/ WebSocketTasksStop \/ WebSocketClose

QuicClient == QuicConnectWithRetry \/ QuicMonitor \/ QuicTasksStop \/ QuicClose

Heartbeat == Ping \/ PingFails \/ PingSent \/ Pong

Next ==
    \/ \E s \in Socks : Connect(s) \/ ReceiveEnds(s) \/ Break(s) \/ StreamStops(s)
    \/ TcpClient \/ WebSocketClient \/ QuicClient
    \/ Heartbeat

Spec == Init /\ [][Next]_vars

(* tokio runs every task that can go on.  Of the world: not every dial     *)
(* fails, and writes to a broken socket do not succeed for ever.           *)
Fairness ==
    /\ SF_vars(\E s \in Socks : Connect(s))
    /\ WF_vars(LoggedIn \/ LoginFails)
    /\ WF_vars(Retry)
    /\ WF_vars(Reconnect)
    /\ \A s \in Socks : WF_vars(ReceiveEnds(s))
    /\ WF_vars(Heartbeat)
    /\ SF_vars(PingFails)

FairSpec == Spec /\ Fairness

-----------------------------------------------------------------------------
(* A sleeping monitor never finds the state Connecting or Reconnecting,    *)
(* which connection_monitor_task takes for work in progress and skips for  *)
(* ever: whoever else writes the state writes Disconnected, and every way  *)
(* out of connect_with_retry settles it.                                   *)
MonitorNotStuck ==
    monitor = "sleep" => state \in {"Connected", "Disconnected"}

(* A QUIC client that is closed has no connection left, although a         *)
(* reconnect races close: what it dialled before the endpoint closed is    *)
(* closed with it, and a later dial fails.  (A TCP or WebSocket client may *)
(* keep the socket its monitor dialled after close had closed the old one.) *)
ClosedQuicIsClosed ==
    protocol = "quic" /\ closer = "done" => up = {}

(* Once sockets stop breaking, an open client is connected over a working  *)
(* socket for good, although the receive task of an old socket may mark    *)
(* the new connection lost, connect may mark a lost one Connected, and     *)
(* only the heartbeat notices that a QUIC stream is read no longer.        *)
Recovers ==
    <>[](closer # "no" \/ monitor = "failed" \/ (state = "Connected" /\ Writable(sock)))
=============================================================================
