--------------------------- MODULE ServerTransport ---------------------------
(***************************************************************************)
(* One endpoint of the broker (crates/rex-server/src/transport): the       *)
(* accept loop, the semaphore of connection permits, one task per          *)
(* connection and the ConnectionDriver that cuts its byte stream into      *)
(* frames, for the TCP, WebSocket and QUIC transports, from the            *)
(* configuration it is opened with to its shutdown.                        *)
(*                                                                         *)
(* The byte stream of a connection is described by offsets: the client has *)
(* written `written` bytes, the driver has received `recv` of them, and    *)
(* its buffer holds the bytes from offset `cut` on.  A frame is the record *)
(* of its offset and of the lengths of its title and data.  What the       *)
(* handlers do with a frame is modelled in Session, MessageAck and         *)
(* OfflineStore, not here.                                                 *)
(***************************************************************************)
EXTENDS ConfigLoader

CONSTANTS Conns,        \* connections that clients open
          None,         \* no connection
          Sources,      \* configuration sources the process may start from
          TitleLens,    \* lengths of titles sent
          DataLens,     \* lengths of data sent
          Splits,       \* bytes of a frame after which a read may end
          JunkLens,     \* total_len read from bytes that are no header
          MaxFrames     \* bound: frames written, per connection

ASSUME LengthsAssumption ==
  /\ TitleLens \subseteq Nat /\ DataLens \subseteq Nat
  /\ Splits \subseteq Nat \ {0} /\ JunkLens \subseteq Nat \ {0}
  /\ MaxFrames \in [Conns -> Nat]

Protocols == {"tcp", "websocket", "quic"}

EndpointConfig ==
  [protocol : Protocols, enabled : BOOLEAN,
   max_buffer_size : Nat, max_concurrent_handlers : Nat]

(* What the Rust types of a parsed configuration say, and a finite model. *)
ASSUME TypesAssumption ==
  /\ \A src \in Sources : \A cfg \in Load(src) : cfg.endpoints \in Seq(EndpointConfig)
  /\ IsFiniteSet(Conns) /\ None \notin Conns

VARIABLES endpoint,   \* the endpoint's configuration
          permits,    \* permits left in the semaphore
          acceptor,   \* the accept loop
          current,    \* connection the accept loop is handling
          conn,       \* task of each connection
          driver,     \* its ConnectionDriver
          signalled,  \* Shutdown::signal was called
          pending,    \* per driver: the signal waits in its receiver
          late,       \* connections whose driver subscribed after the signal
          closed,     \* QUIC: endpoint.close was called
          peer,       \* per connection: its client is still there
          frames, written, recv, cut, handled, cleared

vars == <<endpoint, permits, acceptor, current, conn, driver, signalled,
          pending, late, closed, peer, frames, written, recv, cut, handled, cleared>>

server  == <<endpoint, permits, acceptor, current>>
stop    == <<signalled, closed>>
heard   == <<pending, late>>
streams == <<frames, written, recv, cut, handled, cleared>>

-----------------------------------------------------------------------------
(* The frame layout (crates/rex-core/src/protocol/data.rs). *)

REX_LEN_SIZE   == 4
REX_HEAD_LEN   == 36
TITLE_LEN_SIZE == 1
TITLE_OFFSET   == REX_HEAD_LEN + TITLE_LEN_SIZE

TotalLen(f) == TITLE_OFFSET + f.title + f.data

(* RexData::new stores the length of the title in one byte ... *)
TitleLenByte(f) == f.title % 256

(* ... and title() and data() cut the received frame at that length. *)
Received(f) ==
  [at |-> f.at, title |-> TitleLenByte(f), data |-> TotalLen(f) - TITLE_OFFSET - TitleLenByte(f)]

Junk == [at |-> -1, title |-> 0, data |-> 0]

Buffered(c) == recv[c] - cut[c]

FrameAt(c) == {f \in frames[c] : f.at = cut[c]}

(* Mutant of TryDeserialize: total_len is taken as the length after the length field. *)
BugShortFrame(c) ==
  LET total == IF FrameAt(c) = {} THEN JunkLens ELSE {TotalLen(f) : f \in FrameAt(c)}
  IN  IF Buffered(c) < REX_LEN_SIZE THEN {}
      ELSE {n - REX_LEN_SIZE : n \in {k \in total : k <= Buffered(c)}}

(***************************************************************************)
(* RexData::try_deserialize: the length of the frame split off the buffer, *)
(* as a set, empty for Ok(None).  At an offset where no frame begins the   *)
(* length is whatever the bytes there spell.                               *)
(***************************************************************************)
TryDeserialize(c) ==
  LET total == IF FrameAt(c) = {} THEN JunkLens ELSE {TotalLen(f) : f \in FrameAt(c)}
  IN  IF Buffered(c) < REX_LEN_SIZE THEN {} ELSE {n \in total : n <= Buffered(c)}

-----------------------------------------------------------------------------
ConnStates == {"new", "backlog", "handshake", "permit", "spawned", "serving",
               "cleanup", "ended"}
Frame == [at : Int, title : Nat, data : Nat]

Proto    == endpoint.protocol
Capacity == endpoint.max_concurrent_handlers
Holders  == {c \in Conns : conn[c] \in {"spawned", "serving", "cleanup"}}
Driven(c) == driver[c] \in {"reading", "parsing"}

(* The sources load, and open() has bound the listener and spawned the     *)
(* accept loop, subscribed to the shutdown signal.                         *)
Init ==
  /\ endpoint \in UNION {{ServerEndpoint(cfg) : cfg \in Load(src)} : src \in Sources}
  /\ permits = Capacity
  /\ acceptor = "listening" /\ current = None
  /\ conn = [c \in Conns |-> "new"]
  /\ driver = [c \in Conns |-> "none"]
  /\ signalled = FALSE /\ closed = FALSE
  /\ pending = [c \in Conns |-> FALSE] /\ late = {}
  /\ peer = [c \in Conns |-> FALSE]
  /\ frames = [c \in Conns |-> {}]
  /\ written = [c \in Conns |-> 0]
  /\ recv = [c \in Conns |-> 0]
  /\ cut = [c \in Conns |-> 0]
  /\ handled = [c \in Conns |-> {}]
  /\ cleared = [c \in Conns |-> FALSE]

(* The client side of a connection. *)

Connect(c) ==
  /\ conn[c] = "new"
  /\ ~closed
  /\ conn' = [conn EXCEPT ![c] = "backlog"]
  /\ peer' = [peer EXCEPT ![c] = TRUE]
  /\ UNCHANGED <<server, stop, driver, heard, streams>>

(* TCP takes bytes from the start, the others after the handshake. *)
Send(c, title, data) ==
  LET f == [at |-> written[c], title |-> title, data |-> data] IN
  /\ peer[c] /\ Cardinality(frames[c]) < MaxFrames[c]
  /\ conn[c] \in {"permit", "spawned", "serving"}
       \/ (Proto = "tcp" /\ conn[c] = "backlog")
  /\ frames' = [frames EXCEPT ![c] = @ \cup {f}]
  /\ written' = [written EXCEPT ![c] = @ + TotalLen(f)]
  /\ UNCHANGED <<server, stop, conn, driver, heard, peer, recv, cut, handled, cleared>>

(* AckData::to_rex_data: no title, and the eight bytes of the message's id. *)
SendAck(c) == Send(c, 0, 8)

Leave(c) ==
  /\ peer[c]
  /\ peer' = [peer EXCEPT ![c] = FALSE]
  /\ UNCHANGED <<server, stop, conn, driver, heard, streams>>

-----------------------------------------------------------------------------
(***************************************************************************)
(* The accept loops.  For TCP and WebSocket the loop awaits                *)
(* handle_connection, hence the handshake and the permit, before it looks  *)
(* at the shutdown signal or at another connection again; for QUIC a task  *)
(* per incoming connection does that.                                      *)
(***************************************************************************)
TcpAccept(c) ==
  /\ Proto = "tcp" /\ acceptor = "listening" /\ conn[c] = "backlog"
  /\ conn' = [conn EXCEPT ![c] = "permit"]
  /\ acceptor' = "busy" /\ current' = c
  /\ UNCHANGED <<endpoint, permits, stop, driver, heard, peer, streams>>

WebSocketAccept(c) ==
  /\ Proto = "websocket" /\ acceptor = "listening" /\ conn[c] = "backlog"
  /\ conn' = [conn EXCEPT ![c] = "handshake"]
  /\ acceptor' = "busy" /\ current' = c
  /\ UNCHANGED <<endpoint, permits, stop, driver, heard, peer, streams>>

QuicAccept(c) ==
  /\ Proto = "quic" /\ acceptor = "listening" /\ conn[c] = "backlog" /\ ~closed
  /\ conn' = [conn EXCEPT ![c] = "handshake"]
  /\ UNCHANGED <<server, stop, driver, heard, peer, streams>>

Accept(c) == TcpAccept(c) \/ WebSocketAccept(c) \/ QuicAccept(c)

(* Back to the select of the accept loop, if it was the one handling c. *)
AcceptorReturns(c) ==
  IF current = c THEN acceptor' = "listening" /\ current' = None
  ELSE UNCHANGED <<acceptor, current>>

ConnectionLost(c) == ~peer[c] \/ closed

(* accept_async of handle_connection. *)
WebSocketHandshake(c) ==
  /\ Proto = "websocket" /\ conn[c] = "handshake" /\ ~ConnectionLost(c)
  /\ conn' = [conn EXCEPT ![c] = "permit"]
  /\ UNCHANGED <<server, stop, driver, heard, peer, streams>>

(* incoming.await, then open_uni of handle_connection. *)
QuicHandshake(c) ==
  /\ Proto = "quic" /\ conn[c] = "handshake" /\ ~ConnectionLost(c)
  /\ conn' = [conn EXCEPT ![c] = "permit"]
  /\ UNCHANGED <<server, stop, driver, heard, peer, streams>>

HandshakeFails(c) ==
  /\ conn[c] = "handshake"
  /\ conn' = [conn EXCEPT ![c] = "ended"]
  /\ AcceptorReturns(c)
  /\ UNCHANGED <<endpoint, permits, stop, driver, heard, peer, streams>>

(* acquire_connection_permit, then the task of the connection is spawned. *)
Admit(c) ==
  /\ conn[c] = "permit" /\ permits > 0
  /\ permits' = permits - 1
  /\ conn' = [conn EXCEPT ![c] = "spawned"]
  /\ AcceptorReturns(c)
  /\ UNCHANGED <<endpoint, stop, driver, heard, peer, streams>>

AcceptorStops ==
  /\ acceptor = "listening" /\ signalled
  /\ acceptor' = "stopped"
  /\ UNCHANGED <<endpoint, permits, current, stop, conn, driver, heard, peer, streams>>

-----------------------------------------------------------------------------
(***************************************************************************)
(* The task of a connection.  ConnectionDriver::new subscribes to the      *)
(* shutdown signal when the task runs; a signal sent earlier does not wait *)
(* in the new receiver.  For QUIC the task accepts streams and a further   *)
(* task drives the client's one stream, which shows once it carries bytes. *)
(***************************************************************************)
Subscribe(c) ==
  /\ driver' = [driver EXCEPT ![c] = "reading"]
  /\ late' = IF signalled THEN late \cup {c} ELSE late

TcpServe(c) ==
  /\ Proto = "tcp" /\ conn[c] = "spawned"
  /\ conn' = [conn EXCEPT ![c] = "serving"]
  /\ Subscribe(c)
  /\ UNCHANGED <<server, stop, pending, peer, streams>>

WebSocketServe(c) ==
  /\ Proto = "websocket" /\ conn[c] = "spawned"
  /\ conn' = [conn EXCEPT ![c] = "serving"]
  /\ Subscribe(c)
  /\ UNCHANGED <<server, stop, pending, peer, streams>>

QuicServe(c) ==
  /\ Proto = "quic" /\ conn[c] = "spawned"
  /\ conn' = [conn EXCEPT ![c] = "serving"]
  /\ UNCHANGED <<server, stop, driver, heard, peer, streams>>

AcceptStream(c) ==
  /\ Proto = "quic" /\ conn[c] = "serving" /\ driver[c] = "none"
  /\ written[c] > 0
  /\ Subscribe(c)
  /\ UNCHANGED <<server, stop, conn, pending, peer, streams>>

FrameEnds(c) == {f.at + TotalLen(f) : f \in frames[c]}

(* A read of a byte stream may end anywhere; the model takes, in every     *)
(* frame, its end and the offsets of Splits.                               *)
ChunkEnds(c) == FrameEnds(c) \cup {f.at + k : f \in frames[c], k \in Splits}

TcpPollRead(c) == {n \in ChunkEnds(c) : recv[c] < n /\ n <= written[c]}

QuicPollRead(c) == {n \in ChunkEnds(c) : recv[c] < n /\ n <= written[c]}

(* One binary message: the clients put one frame into each. *)
WebSocketPollRead(c) ==
  {n \in FrameEnds(c) : recv[c] < n /\ \A m \in FrameEnds(c) : recv[c] < m => n <= m}

PollRead(c) ==
  CASE Proto = "tcp"       -> TcpPollRead(c)
    [] Proto = "websocket" -> WebSocketPollRead(c)
    [] Proto = "quic"      -> QuicPollRead(c)

(* poll_read returns bytes, the driver enters parse_and_handle_buffer. *)
Read(c) ==
  /\ driver[c] = "reading"
  /\ \E n \in PollRead(c) :
       recv' = [recv EXCEPT ![c] = n]
  /\ driver' = [driver EXCEPT ![c] = "parsing"]
  /\ UNCHANGED <<server, stop, conn, heard, peer, frames, written, cut, handled, cleared>>

(* Mutant of HandleFrame: one frame per read. *)
BugOneFrame(c) ==
  /\ driver[c] = "parsing"
  /\ driver' = [driver EXCEPT ![c] = "reading"]
  /\ \E n \in TryDeserialize(c) :
       /\ cut' = [cut EXCEPT ![c] = @ + n]
       /\ handled' = [handled EXCEPT ![c] = @ \cup {Received(f) : f \in FrameAt(c)}]
  /\ UNCHANGED <<server, stop, conn, heard, peer, frames, written, recv, cleared>>

(* One turn of the loop: a frame is split off and handled. *)
HandleFrame(c) ==
  /\ driver[c] = "parsing"
  /\ \E n \in TryDeserialize(c) :
       /\ cut' = [cut EXCEPT ![c] = @ + n]
       /\ handled' = [handled EXCEPT ![c] =
                        @ \cup (IF FrameAt(c) = {} THEN {Junk} ELSE {Received(f) : f \in FrameAt(c)})]
  /\ UNCHANGED <<server, stop, conn, driver, heard, peer, frames, written, recv, cleared>>

(* Mutant of AwaitBytes: the bytes ever received are bounded, not those buffered. *)
BugTotalBytes(c) ==
  LET over == recv[c] > endpoint.max_buffer_size IN
  /\ driver[c] = "parsing"
  /\ FrameAt(c) = {} \/ TryDeserialize(c) = {}
  /\ driver' = [driver EXCEPT ![c] = "reading"]
  /\ cut' = IF over THEN [cut EXCEPT ![c] = recv[c]] ELSE cut
  /\ cleared' = [cleared EXCEPT ![c] = @ \/ over]
  /\ UNCHANGED <<server, stop, conn, heard, peer, frames, written, recv, handled>>

(* No complete frame: the loop ends, a buffer over its bound is cleared. *)
AwaitBytes(c) ==
  LET over == Buffered(c) > endpoint.max_buffer_size IN
  /\ driver[c] = "parsing"
  /\ FrameAt(c) = {} \/ TryDeserialize(c) = {}
  /\ driver' = [driver EXCEPT ![c] = "reading"]
  /\ cut' = IF over THEN [cut EXCEPT ![c] = recv[c]] ELSE cut
  /\ cleared' = [cleared EXCEPT ![c] = @ \/ over]
  /\ UNCHANGED <<server, stop, conn, heard, peer, frames, written, recv, handled>>

(* The select of drive(): end of stream or a read error, ... *)
ReadEnds(c) ==
  /\ driver[c] = "reading" /\ ConnectionLost(c)
  /\ driver' = [driver EXCEPT ![c] = "done"]
  /\ UNCHANGED <<server, stop, conn, heard, peer, streams>>

(* ... or the shutdown signal. *)
ShutdownReceived(c) ==
  /\ driver[c] = "reading" /\ pending[c]
  /\ driver' = [driver EXCEPT ![c] = "done"]
  /\ pending' = [pending EXCEPT ![c] = FALSE]
  /\ UNCHANGED <<server, stop, late, conn, peer, streams>>

(* ... or the client's token, cancelled by an administrator. *)
Cancelled(c) ==
  /\ driver[c] = "reading"
  /\ driver' = [driver EXCEPT ![c] = "done"]
  /\ UNCHANGED <<server, stop, conn, heard, peer, streams>>

(* The task goes on to remove_client: after drive(), ... *)
ServeEnds(c) ==
  /\ Proto # "quic" /\ conn[c] = "serving" /\ driver[c] = "done"
  /\ conn' = [conn EXCEPT ![c] = "cleanup"]
  /\ UNCHANGED <<server, stop, driver, heard, peer, streams>>

(* ... or, for QUIC, when accept_uni fails, whatever its driver does. *)
QuicServeEnds(c) ==
  /\ Proto = "quic" /\ conn[c] = "serving" /\ ConnectionLost(c)
  /\ conn' = [conn EXCEPT ![c] = "cleanup"]
  /\ UNCHANGED <<server, stop, driver, heard, peer, streams>>

(* Mutant of Cleanup: the permit was forgotten with the task. *)
BugLeakPermit(c) ==
  /\ conn[c] = "cleanup"
  /\ conn' = [conn EXCEPT ![c] = "ended"]
  /\ peer' = [peer EXCEPT ![c] = FALSE]
  /\ UNCHANGED <<server, stop, driver, heard, streams>>

(* remove_client has run; the permit is dropped with the task, and with it *)
(* the socket.                                                             *)
Cleanup(c) ==
  /\ conn[c] = "cleanup"
  /\ conn' = [conn EXCEPT ![c] = "ended"]
  /\ permits' = permits + 1
  /\ peer' = [peer EXCEPT ![c] = FALSE]
  /\ UNCHANGED <<endpoint, acceptor, current, stop, driver, heard, streams>>

-----------------------------------------------------------------------------
(* Mutant of Signal: only a driver waiting in its select is told. *)
BugSignalWaiting ==
  /\ ~signalled
  /\ signalled' = TRUE
  /\ pending' = [c \in Conns |-> driver[c] = "reading"]
  /\ UNCHANGED <<server, closed, late, conn, driver, peer, streams>>

(* close(): the signal reaches the receivers that exist, then QUIC closes  *)
(* its endpoint and with it every connection.                              *)
Signal ==
  /\ ~signalled
  /\ signalled' = TRUE
  /\ pending' = [c \in Conns |-> Driven(c)]
  /\ UNCHANGED <<server, closed, late, conn, driver, peer, streams>>

CloseEndpoint ==
  /\ Proto = "quic" /\ signalled /\ ~closed
  /\ closed' = TRUE
  /\ UNCHANGED <<server, signalled, conn, driver, heard, peer, streams>>

Client(c) ==
  Connect(c) \/ Leave(c) \/ SendAck(c) \/ \E t \in TitleLens, d \in DataLens : Send(c, t, d)

Loop == AcceptorStops \/ \E c \in Conns : Accept(c)

Task(c) ==
  \/ (ConnectionLost(c) /\ HandshakeFails(c)) \/ Admit(c)
  \/ TcpServe(c) \/ WebSocketServe(c) \/ QuicServe(c) \/ AcceptStream(c)
  \/ ServeEnds(c) \/ QuicServeEnds(c) \/ Cleanup(c)

Drive(c) ==
  Read(c) \/ HandleFrame(c) \/ AwaitBytes(c) \/ ReadEnds(c) \/ ShutdownReceived(c)

Next ==
  \/ Loop \/ Signal \/ CloseEndpoint
  \/ \E c \in Conns :
       \/ Client(c) \/ WebSocketHandshake(c) \/ QuicHandshake(c) \/ HandshakeFails(c)
       \/ Task(c) \/ Drive(c) \/ Cancelled(c)

(***************************************************************************)
(* Tokio polls every woken task: the accept loop, the tasks and the        *)
(* drivers make progress.  Weak fairness of each is enough, since a client *)
(* sends finitely many frames and there are finitely many connections.     *)
(* Nothing is assumed of clients, which may stall in a handshake for ever. *)
(***************************************************************************)
Fairness ==
  /\ WF_vars(Loop) /\ WF_vars(CloseEndpoint)
  /\ \A c \in Conns : WF_vars(Task(c)) /\ WF_vars(Drive(c))

Spec == Init /\ [][Next]_vars /\ Fairness

-----------------------------------------------------------------------------
(* The semaphore counts the connection tasks: never more tasks than        *)
(* max_concurrent_handlers, and no permit is lost or returned twice on any *)
(* of the ways a task ends.                                                *)
PermitsCount == permits >= 0 /\ permits + Cardinality(Holders) = Capacity

(* Whatever the chunks in which a stream arrives, as long as its buffer    *)
(* was not cleared the driver has handled the frames that begin before     *)
(* `cut`, all of them and nothing else, and each as it was sent when its   *)
(* title fits the length byte.                                             *)
FramesIntact ==
  \A c \in Conns : ~cleared[c] =>
     LET due == {f \in frames[c] : f.at < cut[c]} IN
     /\ handled[c] = {Received(f) : f \in due}
     /\ \A f \in due : f.title < 256 => f \in handled[c]

(* The size check of parse_and_handle_buffer drops buffered bytes only of  *)
(* a stream that carries a frame longer than max_buffer_size.              *)
ClearedOnlyOversize ==
  \A c \in Conns : cleared[c] => \E f \in frames[c] : TotalLen(f) > endpoint.max_buffer_size

(* A connection waits for ever to be accepted or admitted only while every *)
(* permit is held by a client that stays, while the WebSocket accept loop  *)
(* waits for a stalled handshake, or after the shutdown signal.            *)
WaitsOnlyWhenFull ==
  \A c \in Conns :
     <>[](conn[c] \in {"backlog", "permit"}) =>
     <>[](\/ signalled
          \/ current # None /\ conn[current] = "handshake"
          \/ permits = 0 /\ Holders # {} /\ \A d \in Holders : peer[d])

(* What is written on a connection that is served for ever gets handled:   *)
(* in the end the buffer holds no frame, unless it was cleared.            *)
FramesHandled ==
  \A c \in Conns :
     <>[](Driven(c)) => <>[](driver[c] = "reading" /\ (cleared[c] \/ cut[c] = written[c]))

(* After the signal every driver that was subscribed ends, QUIC ends every *)
(* connection, and the accept loop stops unless it waits for a stalled     *)
(* handshake or for a permit that late subscribers hold.                   *)
ShutdownDrains ==
  <>[](signalled =>
        /\ \A c \in Conns : Driven(c) => c \in late
        /\ Proto = "quic" => Holders = {}
        /\ \/ acceptor = "stopped"
           \/ acceptor = "busy" /\ conn[current] = "handshake"
           \/ acceptor = "busy" /\ Holders \subseteq late)

(* What the comment on Shutdown::signal says: "Broadcast shutdown to all   *)
(* current and future subscribers".                                        *)
SignalReachesEveryDriver == signalled ~> (\A c \in Conns : ~Driven(c))
=============================================================================
