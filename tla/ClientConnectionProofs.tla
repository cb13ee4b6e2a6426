----------------------- MODULE ClientConnectionProofs -----------------------
(***************************************************************************)
(* Proofs about ClientConnection, for each of the three clients and any    *)
(* number of sockets, attempts and breaks.                                 *)
(***************************************************************************)
EXTENDS ClientConnection, TLAPS

(* MonitorNotStuck in inductive form: Connecting is the mark of a           *)
(* connect_with_retry that is running, failed in open, or was dropped.     *)
SettledByMonitor ==
    state \in {"Connecting", "Reconnecting"} =>
        monitor \in {"dial", "login", "backoff", "failed", "gone"}

-----------------------------------------------------------------------------
(* Every step keeps the shape of the state.                                *)
LEMMA TypeStep == ASSUME TypeOK, [Next]_vars PROVE TypeOK'
<1>1. ASSUME NEW s \in Socks, Dialled(s)
      PROVE  TypeOK'
  BY <1>1, ConstantsAssumption
  DEF Dialled, TypeOK, States
<1>2. ASSUME NEW s \in Socks, ReaderEnds(s)
      PROVE  TypeOK'
  BY <1>2, ConstantsAssumption
  DEF ReaderEnds, link, TypeOK, States
<1>3. ASSUME NEW s \in Socks, Break(s)
      PROVE  TypeOK'
  BY <1>3, ConstantsAssumption
  DEF Break, link, TypeOK, States
<1>4. ASSUME DialFails
      PROVE  TypeOK'
  BY <1>4, ConstantsAssumption
  DEF DialFails, link, Fail, TypeOK, States
<1>5. ASSUME LoginFails
      PROVE  TypeOK'
  BY <1>5, ConstantsAssumption
  DEF LoginFails, link, Fail, TypeOK, States
<1>6. ASSUME LoggedIn
      PROVE  TypeOK'
  <2>1. 0 \in 0 .. MaxAttempts - 1
    BY ConstantsAssumption
  <2>2. heartbeat' \in {"off", "sleep", "send", "wait", "gone"}
    BY <1>6 DEF LoggedIn, TypeOK
  <2>3. opening' \in BOOLEAN /\ sock' # None
    BY <1>6 DEF LoggedIn, TypeOK
  <2> QED
    BY <1>6, <2>1, <2>2, <2>3 DEF LoggedIn, link, TypeOK, States
<1>7. ASSUME Retry
      PROVE  TypeOK'
  BY <1>7, ConstantsAssumption
  DEF Retry, link, TypeOK, States
<1>8. ASSUME Reconnect
      PROVE  TypeOK'
  BY <1>8, ConstantsAssumption
  DEF Reconnect, link, TypeOK, States
<1>9. ASSUME Ping
      PROVE  TypeOK'
  BY <1>9, ConstantsAssumption
  DEF Ping, link, TypeOK, States
<1>10. ASSUME PingFails
      PROVE  TypeOK'
  BY <1>10, ConstantsAssumption
  DEF PingFails, link, TypeOK, States
<1>11. ASSUME PingSent
      PROVE  TypeOK'
  BY <1>11, ConstantsAssumption
  DEF PingSent, link, TypeOK, States
<1>12. ASSUME Pong
      PROVE  TypeOK'
  BY <1>12, ConstantsAssumption
  DEF Pong, link, TypeOK, States
<1>13. ASSUME CloseSignals
      PROVE  TypeOK'
  BY <1>13, ConstantsAssumption
  DEF CloseSignals, link, TypeOK, States
<1>14. ASSUME CloseSocket
      PROVE  TypeOK'
  BY <1>14, ConstantsAssumption
  DEF CloseSocket, link, TypeOK, States
<1>15. ASSUME CloseState
      PROVE  TypeOK'
  BY <1>15, ConstantsAssumption
  DEF CloseState, link, TypeOK, States
<1>16. ASSUME MonitorStops
      PROVE  TypeOK'
  BY <1>16, ConstantsAssumption
  DEF MonitorStops, link, TypeOK, States
<1>17. ASSUME HeartbeatStops
      PROVE  TypeOK'
  BY <1>17, ConstantsAssumption
  DEF HeartbeatStops, link, TypeOK, States
<1>18. ASSUME NEW s \in Socks, StreamStops(s)
      PROVE  TypeOK'
  BY <1>18, ConstantsAssumption
  DEF StreamStops, TypeOK, States
<1>19. ASSUME UNCHANGED vars
      PROVE  TypeOK'
  BY <1>19, ConstantsAssumption
  DEF vars, link, TypeOK, States
<1> QED
  BY <1>1, <1>2, <1>3, <1>4, <1>5, <1>6, <1>7, <1>8, <1>9,
     <1>10, <1>11, <1>12, <1>13, <1>14, <1>15, <1>16, <1>17, <1>18, <1>19
  DEF Next, Connect, TcpConnect, WebSocketConnect, QuicConnect, ReceiveEnds, TcpReceiveEnds,
      WebSocketReceiveEnds, QuicReceiveEnds, TcpClient, WebSocketClient, QuicClient,
      TcpConnectWithRetry, WebSocketConnectWithRetry, QuicConnectWithRetry, TcpMonitor,
      WebSocketMonitor, QuicMonitor, TcpTasksStop, WebSocketTasksStop, QuicTasksStop,
      TcpClose, WebSocketClose, QuicClose, ConnectWithRetry, TasksStop, Close, Heartbeat

(* Every variable of the client model keeps its shape (TypeOK): attempts    *)
(* stay below max_reconnect_attempts, and an open client has a socket.     *)
THEOREM TypeCorrect == Spec => []TypeOK
<1>1. Init => TypeOK
  BY ConstantsAssumption DEF Init, TypeOK, States
<1> QED
  BY <1>1, TypeStep, PTL DEF Spec

(* Every step keeps SettledByMonitor.                                      *)
LEMMA SettledStep == ASSUME TypeOK, SettledByMonitor, [Next]_vars PROVE SettledByMonitor'
<1>1. ASSUME NEW s \in Socks, Dialled(s)
      PROVE  SettledByMonitor'
  BY <1>1, ConstantsAssumption
  DEF Dialled, SettledByMonitor, TypeOK, States
<1>2. ASSUME NEW s \in Socks, ReaderEnds(s)
      PROVE  SettledByMonitor'
  BY <1>2, ConstantsAssumption
  DEF ReaderEnds, link, SettledByMonitor, TypeOK, States
<1>3. ASSUME NEW s \in Socks, Break(s)
      PROVE  SettledByMonitor'
  BY <1>3, ConstantsAssumption
  DEF Break, link, SettledByMonitor, TypeOK, States
<1>4. ASSUME DialFails
      PROVE  SettledByMonitor'
  BY <1>4, ConstantsAssumption
  DEF DialFails, link, Fail, SettledByMonitor, TypeOK, States
<1>5. ASSUME LoginFails
      PROVE  SettledByMonitor'
  BY <1>5, ConstantsAssumption
  DEF LoginFails, link, Fail, SettledByMonitor, TypeOK, States
<1>6. ASSUME LoggedIn
      PROVE  SettledByMonitor'
  BY <1>6, ConstantsAssumption
  DEF LoggedIn, link, SettledByMonitor, TypeOK, States
<1>7. ASSUME Retry
      PROVE  SettledByMonitor'
  BY <1>7, ConstantsAssumption
  DEF Retry, link, SettledByMonitor, TypeOK, States
<1>8. ASSUME Reconnect
      PROVE  SettledByMonitor'
  BY <1>8, ConstantsAssumption
  DEF Reconnect, link, SettledByMonitor, TypeOK, States
<1>9. ASSUME Ping
      PROVE  SettledByMonitor'
  BY <1>9, ConstantsAssumption
  DEF Ping, link, SettledByMonitor, TypeOK, States
<1>10. ASSUME PingFails
      PROVE  SettledByMonitor'
  BY <1>10, ConstantsAssumption
  DEF PingFails, link, SettledByMonitor, TypeOK, States
<1>11. ASSUME PingSent
      PROVE  SettledByMonitor'
  BY <1>11, ConstantsAssumption
  DEF PingSent, link, SettledByMonitor, TypeOK, States
<1>12. ASSUME Pong
      PROVE  SettledByMonitor'
  BY <1>12, ConstantsAssumption
  DEF Pong, link, SettledByMonitor, TypeOK, States
<1>13. ASSUME CloseSignals
      PROVE  SettledByMonitor'
  BY <1>13, ConstantsAssumption
  DEF CloseSignals, link, SettledByMonitor, TypeOK, States
<1>14. ASSUME CloseSocket
      PROVE  SettledByMonitor'
  BY <1>14, ConstantsAssumption
  DEF CloseSocket, link, SettledByMonitor, TypeOK, States
<1>15. ASSUME CloseState
      PROVE  SettledByMonitor'
  BY <1>15, ConstantsAssumption
  DEF CloseState, link, SettledByMonitor, TypeOK, States
<1>16. ASSUME MonitorStops
      PROVE  SettledByMonitor'
  BY <1>16, ConstantsAssumption
  DEF MonitorStops, link, SettledByMonitor, TypeOK, States
<1>17. ASSUME HeartbeatStops
      PROVE  SettledByMonitor'
  BY <1>17, ConstantsAssumption
  DEF HeartbeatStops, link, SettledByMonitor, TypeOK, States
<1>18. ASSUME NEW s \in Socks, StreamStops(s)
      PROVE  SettledByMonitor'
  BY <1>18, ConstantsAssumption
  DEF StreamStops, SettledByMonitor, TypeOK, States
<1>19. ASSUME UNCHANGED vars
      PROVE  SettledByMonitor'
  BY <1>19, ConstantsAssumption
  DEF vars, link, SettledByMonitor, TypeOK, States
<1> QED
  BY <1>1, <1>2, <1>3, <1>4, <1>5, <1>6, <1>7, <1>8, <1>9,
     <1>10, <1>11, <1>12, <1>13, <1>14, <1>15, <1>16, <1>17, <1>18, <1>19
  DEF Next, Connect, TcpConnect, WebSocketConnect, QuicConnect, ReceiveEnds, TcpReceiveEnds,
      WebSocketReceiveEnds, QuicReceiveEnds, TcpClient, WebSocketClient, QuicClient,
      TcpConnectWithRetry, WebSocketConnectWithRetry, QuicConnectWithRetry, TcpMonitor,
      WebSocketMonitor, QuicMonitor, TcpTasksStop, WebSocketTasksStop, QuicTasksStop,
      TcpClose, WebSocketClose, QuicClose, ConnectWithRetry, TasksStop, Close, Heartbeat

(* The sleeping monitor never finds a state it would skip for ever          *)
(* (MonitorNotStuck), whatever the receive tasks, the heartbeat and close   *)
(* write beside it.                                                        *)
THEOREM NotStuck == Spec => []MonitorNotStuck
<1>1. Init => SettledByMonitor
  BY DEF Init, SettledByMonitor
<1>2. TypeOK /\ SettledByMonitor => MonitorNotStuck
  BY DEF TypeOK, States, SettledByMonitor, MonitorNotStuck
<1> QED
  BY <1>1, <1>2, SettledStep, TypeCorrect, PTL DEF Spec

-----------------------------------------------------------------------------
(* ClosedQuicIsClosed in inductive form: from the moment the endpoint is   *)
(* closed, before close has set the state, no connection is up.            *)
EndpointClosed ==
    protocol = "quic" /\ closer \in {"state", "done"} => up = {}

(* What no step but these does: dial, change closer, or bring a socket up. *)
LEMMA OtherSteps ==
  ASSUME TypeOK, [Next]_vars,
         \A s \in Socks : ~Connect(s), ~CloseSignals, ~CloseSocket, ~CloseState
  PROVE  protocol' = protocol /\ closer' = closer /\ up' \subseteq up
<1>1. CASE \E s \in Socks : ReceiveEnds(s) \/ Break(s) \/ StreamStops(s)
  BY <1>1 DEF ReceiveEnds, TcpReceiveEnds, WebSocketReceiveEnds, QuicReceiveEnds,
              ReaderEnds, Break, StreamStops, link
<1>2. CASE ConnectWithRetry \/ Reconnect \/ TasksStop
  BY <1>2 DEF ConnectWithRetry, DialFails, LoginFails, LoggedIn, Retry, Reconnect,
              TasksStop, MonitorStops, HeartbeatStops, link
<1>3. CASE Heartbeat
  BY <1>3 DEF Heartbeat, Ping, PingFails, PingSent, Pong, link
<1>4. CASE UNCHANGED vars
  BY <1>4 DEF vars, link
<1> QED
  BY <1>1, <1>2, <1>3, <1>4
  DEF Next, TcpClient, WebSocketClient, QuicClient, TcpConnectWithRetry,
      WebSocketConnectWithRetry, QuicConnectWithRetry, TcpMonitor, WebSocketMonitor,
      QuicMonitor, TcpTasksStop, WebSocketTasksStop, QuicTasksStop, TcpClose,
      WebSocketClose, QuicClose, Close

(* Every step keeps EndpointClosed: a QUIC client dials only while its      *)
(* endpoint is open.                                                       *)
LEMMA EndpointStep ==
  ASSUME TypeOK, EndpointClosed, [Next]_vars PROVE EndpointClosed'
<1>1. ASSUME NEW s \in Socks, Connect(s) PROVE EndpointClosed'
  BY <1>1 DEF Connect, TcpConnect, WebSocketConnect, QuicConnect, Dialled, EndpointClosed
<1>2. CASE CloseSignals
  BY <1>2 DEF CloseSignals, link, EndpointClosed
<1>3. CASE CloseSocket
  BY <1>3 DEF CloseSocket, link, EndpointClosed
<1>4. CASE CloseState
  BY <1>4 DEF CloseState, link, EndpointClosed
<1> QED
  BY <1>1, <1>2, <1>3, <1>4, OtherSteps DEF EndpointClosed

(* Whatever races it, the close of a QUIC client leaves no connection       *)
(* (ClosedQuicIsClosed): QuicClient::close closes the endpoint, and an      *)
(* endpoint that is closed dials no more.                                  *)
THEOREM QuicCloses == Spec => []ClosedQuicIsClosed
<1>1. Init => EndpointClosed
  BY DEF Init, EndpointClosed
<1>2. EndpointClosed => ClosedQuicIsClosed
  BY DEF EndpointClosed, ClosedQuicIsClosed
<1> QED
  BY <1>1, <1>2, EndpointStep, TypeCorrect, PTL DEF Spec
=============================================================================
