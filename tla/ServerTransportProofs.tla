----------------------- MODULE ServerTransportProofs -----------------------
(***************************************************************************)
(* Proofs about ServerTransport, for every number of connections, every    *)
(* length of title and data, every way a stream is cut into reads, and     *)
(* every configuration that the loader accepts: the permits of the         *)
(* semaphore, the frames a driver handles, and when a buffer is cleared.   *)
(***************************************************************************)
EXTENDS ServerTransport, FiniteSetTheorems, TLAPS

-----------------------------------------------------------------------------
(* What validation promises of the endpoint that start_server opens.       *)

EndpointOK ==
  /\ endpoint \in EndpointConfig
  /\ endpoint.max_buffer_size >= 1024
  /\ endpoint.max_concurrent_handlers >= 1

(* The endpoint start_server opens has passed validate_endpoints.          *)
LEMMA LoadedEndpoint ==
  ASSUME NEW src \in Sources, NEW cfg \in Load(src)
  PROVE  /\ ServerEndpoint(cfg) \in EndpointConfig
         /\ ServerEndpoint(cfg).max_buffer_size >= 1024
         /\ ServerEndpoint(cfg).max_concurrent_handlers >= 1
<1>1. cfg.endpoints \in Seq(EndpointConfig)
  BY TypesAssumption, Zenon
<1>2. ValidEndpoints(cfg)
  BY Zenon DEF Load, Validate
<1>3. cfg.endpoints # << >>
  BY <1>1, <1>2 DEF ValidEndpoints
<1>4. /\ ServerEndpoint(cfg) = cfg.endpoints[1]
      /\ 1 \in DOMAIN cfg.endpoints
      /\ cfg.endpoints[1] \in EndpointConfig
  BY <1>1, <1>3 DEF ServerEndpoint
<1>5. /\ 1024 <= cfg.endpoints[1].max_buffer_size
      /\ 1 <= cfg.endpoints[1].max_concurrent_handlers
  BY <1>2, <1>4 DEF ValidEndpoints
<1> QED BY <1>4, <1>5

LEMMA EndpointInit == Init => EndpointOK
  BY LoadedEndpoint DEF Init, EndpointOK

LEMMA EndpointFixed == [Next]_vars => UNCHANGED endpoint
<1> SUFFICES ASSUME Next PROVE UNCHANGED endpoint
  BY Zenon DEF vars
<1>1. CASE Loop
  BY <1>1, Zenon DEF Loop, AcceptorStops, Accept, TcpAccept, WebSocketAccept, QuicAccept, server
<1>2. CASE Signal \/ CloseEndpoint
  BY <1>2, Zenon DEF Signal, CloseEndpoint, server
<1>3. ASSUME NEW c \in Conns, Client(c) PROVE UNCHANGED endpoint
  BY <1>3, Zenon DEF Client, Connect, Leave, SendAck, Send, server
<1>4. ASSUME NEW c \in Conns,
             WebSocketHandshake(c) \/ QuicHandshake(c) \/ HandshakeFails(c) \/ Cancelled(c)
      PROVE  UNCHANGED endpoint
  BY <1>4, Zenon DEF WebSocketHandshake, QuicHandshake, HandshakeFails, Cancelled, server
<1>5. ASSUME NEW c \in Conns, Task(c) PROVE UNCHANGED endpoint
  BY <1>5, Zenon DEF Task, HandshakeFails, Admit, TcpServe, WebSocketServe, QuicServe, AcceptStream,
              ServeEnds, QuicServeEnds, Cleanup, server
<1>6. ASSUME NEW c \in Conns, Drive(c) PROVE UNCHANGED endpoint
  BY <1>6, Zenon DEF Drive, Read, HandleFrame, AwaitBytes, ReadEnds, ShutdownReceived, server
<1> QED BY <1>1, <1>2, <1>3, <1>4, <1>5, <1>6, Zenon DEF Next

-----------------------------------------------------------------------------
(***************************************************************************)
(* The permits.  PermitsCount is inductive together with the types of the  *)
(* two variables it relates: a step changes at most one connection's       *)
(* state, and only Admit and Cleanup move it into or out of the holders.   *)
(***************************************************************************)
HolderStates == {"spawned", "serving", "cleanup"}

PermitInv ==
  /\ permits \in Nat
  /\ conn \in [Conns -> ConnStates]
  /\ PermitsCount

LEMMA HoldersFinite == IsFiniteSet(Holders)
<1>1. Holders \subseteq Conns
  BY Zenon DEF Holders
<1> QED BY <1>1, TypesAssumption, FS_Subset, Zenon

(* A step of a connection that neither takes nor returns its permit.       *)
LEMMA SameHolders ==
  ASSUME PermitInv, NEW c \in Conns, NEW s \in ConnStates,
         conn' = [conn EXCEPT ![c] = s],
         conn[c] \in HolderStates <=> s \in HolderStates,
         UNCHANGED <<endpoint, permits>>
  PROVE  PermitInv'
<1>1. Holders' = Holders
  BY Zenon DEF Holders, HolderStates, PermitInv
<1> QED BY <1>1, Zenon DEF PermitInv, PermitsCount, Capacity

LEMMA NothingMoves == PermitInv /\ UNCHANGED <<endpoint, permits, conn>> => PermitInv'
  BY Zenon DEF PermitInv, PermitsCount, Capacity, Holders

LEMMA AdmitTakesOne ==
  ASSUME PermitInv, NEW c \in Conns, Admit(c) PROVE PermitInv'
<1>1. /\ conn[c] = "permit" /\ permits > 0 /\ permits' = permits - 1
      /\ conn' = [conn EXCEPT ![c] = "spawned"]
      /\ UNCHANGED endpoint
  BY Zenon DEF Admit
<1>2. Holders' = Holders \cup {c} /\ c \notin Holders
  BY <1>1, Zenon DEF Holders, PermitInv
<1>3. Cardinality(Holders') = Cardinality(Holders) + 1 /\ Cardinality(Holders) \in Nat
  BY <1>2, HoldersFinite, FS_AddElement, FS_CardinalityType, Zenon
<1>4. permits' \in Nat /\ conn' \in [Conns -> ConnStates]
  BY <1>1 DEF PermitInv, ConnStates
<1>5. permits' + Cardinality(Holders') = permits + Cardinality(Holders)
  BY <1>1, <1>3 DEF PermitInv
<1> QED BY <1>1, <1>4, <1>5 DEF PermitInv, PermitsCount, Capacity

LEMMA CleanupReturnsOne ==
  ASSUME PermitInv, NEW c \in Conns, Cleanup(c) PROVE PermitInv'
<1>1. /\ conn[c] = "cleanup" /\ permits' = permits + 1
      /\ conn' = [conn EXCEPT ![c] = "ended"]
      /\ UNCHANGED endpoint
  BY Zenon DEF Cleanup
<1>2. Holders' = Holders \ {c} /\ c \in Holders
  BY <1>1, Zenon DEF Holders, PermitInv
<1>3. Cardinality(Holders') = Cardinality(Holders) - 1 /\ Cardinality(Holders) \in Nat
  BY <1>2, HoldersFinite, FS_RemoveElement, FS_CardinalityType, Zenon
<1>4. permits' \in Nat /\ conn' \in [Conns -> ConnStates]
  BY <1>1 DEF PermitInv, ConnStates
<1>5. permits' + Cardinality(Holders') = permits + Cardinality(Holders)
  BY <1>1, <1>3 DEF PermitInv
<1> QED BY <1>1, <1>4, <1>5 DEF PermitInv, PermitsCount, Capacity

LEMMA PermitStep == PermitInv /\ [Next]_vars => PermitInv'
<1> SUFFICES ASSUME PermitInv, [Next]_vars PROVE PermitInv'
  OBVIOUS
<1>1. CASE UNCHANGED vars
  BY <1>1, NothingMoves, Zenon DEF vars
<1>2. CASE AcceptorStops \/ Signal \/ CloseEndpoint
  BY <1>2, NothingMoves, Zenon DEF AcceptorStops, Signal, CloseEndpoint, server
<1>3. ASSUME NEW c \in Conns, Accept(c) \/ Connect(c) PROVE PermitInv'
  <2>1. PICK s \in {"backlog", "handshake", "permit"} :
          /\ conn' = [conn EXCEPT ![c] = s]
          /\ conn[c] \in {"new", "backlog"}
          /\ UNCHANGED <<endpoint, permits>>
    BY <1>3, Zenon DEF Accept, TcpAccept, WebSocketAccept, QuicAccept, Connect, server
  <2> QED BY <2>1, SameHolders, Zenon DEF HolderStates, ConnStates
<1>4. ASSUME NEW c \in Conns,
             WebSocketHandshake(c) \/ QuicHandshake(c) \/ HandshakeFails(c)
      PROVE  PermitInv'
  <2>1. PICK s \in {"permit", "ended"} :
          /\ conn' = [conn EXCEPT ![c] = s]
          /\ conn[c] = "handshake"
          /\ UNCHANGED <<endpoint, permits>>
    BY <1>4, Zenon DEF WebSocketHandshake, QuicHandshake, HandshakeFails, server
  <2> QED BY <2>1, SameHolders, Zenon DEF HolderStates, ConnStates
<1>5. ASSUME NEW c \in Conns,
             TcpServe(c) \/ WebSocketServe(c) \/ QuicServe(c) \/ ServeEnds(c) \/ QuicServeEnds(c)
      PROVE  PermitInv'
  <2>1. PICK s \in {"serving", "cleanup"} :
          /\ conn' = [conn EXCEPT ![c] = s]
          /\ conn[c] \in {"spawned", "serving"}
          /\ UNCHANGED <<endpoint, permits>>
    BY <1>5, Zenon DEF TcpServe, WebSocketServe, QuicServe, ServeEnds, QuicServeEnds, server
  <2> QED BY <2>1, SameHolders, Zenon DEF HolderStates, ConnStates
<1>6. ASSUME NEW c \in Conns,
             \/ Leave(c) \/ SendAck(c) \/ \E t \in TitleLens, d \in DataLens : Send(c, t, d)
             \/ AcceptStream(c) \/ Drive(c) \/ Cancelled(c)
      PROVE  PermitInv'
  <2>1. UNCHANGED <<endpoint, permits, conn>>
    BY <1>6, Zenon DEF Leave, SendAck, Send, AcceptStream, Drive, Read, HandleFrame, AwaitBytes,
                ReadEnds, ShutdownReceived, Cancelled, server
  <2> QED BY <2>1, NothingMoves, Zenon
<1> QED BY <1>1, <1>2, <1>3, <1>4, <1>5, <1>6, AdmitTakesOne, CleanupReturnsOne, ZenonT(40)
        DEF Next, Loop, Client, Task

(* The semaphore of ServerBase counts the connection tasks: permits left   *)
(* and tasks running always add up to max_concurrent_handlers.             *)
THEOREM PermitsKept == Spec => []PermitsCount
<1>1. Init => PermitInv
  <2> SUFFICES ASSUME Init PROVE PermitInv
    OBVIOUS
  <2>1. Holders = {} /\ conn \in [Conns -> ConnStates]
    BY Zenon DEF Init, Holders, ConnStates
  <2>2. permits = Capacity /\ Capacity \in Nat
    BY EndpointInit DEF Init, EndpointOK, EndpointConfig, Capacity
  <2> QED BY <2>1, <2>2, FS_EmptySet DEF PermitInv, PermitsCount
<1>2. PermitInv => PermitsCount
  BY Zenon DEF PermitInv
<1> QED BY <1>1, <1>2, PermitStep, PTL DEF Spec

-----------------------------------------------------------------------------
(***************************************************************************)
(* The streams.  The frames of a connection lie one behind the other from  *)
(* offset 0 to `written`; as long as the buffer was not cleared, it begins *)
(* where a frame begins or at the end of what was written.                 *)
(***************************************************************************)
Sent == [at : Nat, title : Nat, data : Nat]

End(f) == f.at + TotalLen(f)

StreamTypes ==
  /\ frames \in [Conns -> SUBSET Sent]
  /\ written \in [Conns -> Nat] /\ recv \in [Conns -> Nat] /\ cut \in [Conns -> Nat]
  /\ handled \in [Conns -> SUBSET [at : Int, title : Int, data : Int]]
  /\ cleared \in [Conns -> BOOLEAN]

(* The frames F fill the offsets up to w. *)
Contiguous(F, w) ==
  /\ \A f \in F : End(f) <= w /\ (End(f) = w \/ \E g \in F : g.at = End(f))
  /\ \A f, g \in F : f.at < g.at => End(f) <= g.at
  /\ \A f, g \in F : f.at = g.at => f = g

AtBoundary(F, w, k) == k = w \/ \E f \in F : f.at = k

StreamInv ==
  /\ EndpointOK
  /\ StreamTypes
  /\ \A c \in Conns :
       /\ recv[c] <= written[c]
       /\ Contiguous(frames[c], written[c])
       /\ ~cleared[c] => AtBoundary(frames[c], written[c], cut[c])
  /\ FramesIntact
  /\ ClearedOnlyOversize

LEMMA FrameLengths ==
  ASSUME NEW f \in Sent
  PROVE  /\ TotalLen(f) \in Nat /\ TotalLen(f) >= 37
         /\ TotalLen(f) = 37 + f.title + f.data
         /\ End(f) \in Nat /\ End(f) = f.at + TotalLen(f)
         /\ Received(f) \in [at : Int, title : Int, data : Int]
         /\ f.title < 256 => Received(f) = f
  BY DEF Sent, TotalLen, TITLE_OFFSET, REX_HEAD_LEN, TITLE_LEN_SIZE, Received, TitleLenByte, End

(* What try_deserialize finds in a buffer that was not cleared: the length *)
(* of the one frame that begins there, if all of it has arrived.           *)
LEMMA FrameFound ==
  ASSUME StreamInv, NEW c \in Conns, ~cleared[c], NEW n \in TryDeserialize(c)
  PROVE  \E f \in frames[c] : FrameAt(c) = {f} /\ n = TotalLen(f) /\ f.at = cut[c]
<1>1. /\ frames[c] \subseteq Sent
      /\ written[c] \in Nat /\ recv[c] \in Nat /\ cut[c] \in Nat
      /\ recv[c] <= written[c]
      /\ \A f, g \in frames[c] : f.at = g.at => f = g
      /\ cut[c] = written[c] \/ \E f \in frames[c] : f.at = cut[c]
  BY Zenon DEF StreamInv, StreamTypes, Contiguous, AtBoundary
<1>2. Buffered(c) >= 4
  BY <1>1 DEF TryDeserialize, REX_LEN_SIZE, Buffered
<1>3. PICK f \in frames[c] : f.at = cut[c]
  BY <1>1, <1>2 DEF Buffered
<1>4. FrameAt(c) = {f}
  BY <1>1, <1>3, Zenon DEF FrameAt
<1>5. n = TotalLen(f)
  BY <1>2, <1>4, Zenon DEF TryDeserialize
<1> QED BY <1>3, <1>4, <1>5, Zenon

(* A step that leaves the streams alone.                                   *)
LEMMA StreamsAlone == StreamInv /\ UNCHANGED <<endpoint, streams>> => StreamInv'
  BY DEF StreamInv, streams, EndpointOK, StreamTypes, FramesIntact, ClearedOnlyOversize

(* A client writes a frame behind the others.                              *)
LEMMA SendKeeps ==
  ASSUME StreamInv, NEW c \in Conns, NEW t \in Nat, NEW d \in Nat, Send(c, t, d)
  PROVE  StreamInv'
<1> DEFINE f == [at |-> written[c], title |-> t, data |-> d]
           F == frames[c]
           w == written[c]
<1>1. /\ frames' = [frames EXCEPT ![c] = F \cup {f}]
      /\ written' = [written EXCEPT ![c] = w + TotalLen(f)]
      /\ UNCHANGED <<endpoint, recv, cut, handled, cleared>>
  BY Zenon DEF Send, server
<1>2. /\ F \subseteq Sent /\ w \in Nat /\ f \in Sent /\ recv[c] \in Nat /\ cut[c] \in Nat
      /\ recv[c] <= w /\ Contiguous(F, w)
      /\ ~cleared[c] => AtBoundary(F, w, cut[c])
  BY Zenon DEF StreamInv, StreamTypes, Sent
<1>3. /\ \A g \in F \cup {f} : TotalLen(g) \in Nat /\ TotalLen(g) >= 37
      /\ \A g \in F \cup {f} : g.at \in Nat /\ End(g) \in Nat /\ End(g) = g.at + TotalLen(g)
      /\ \A g \in F : g.at < w
  <2>1. \A g \in F \cup {f} : TotalLen(g) \in Nat /\ TotalLen(g) >= 37
                              /\ g.at \in Nat /\ End(g) \in Nat /\ End(g) = g.at + TotalLen(g)
    BY <1>2, FrameLengths, ZenonT(40) DEF Sent
  <2> QED BY <2>1, <1>2 DEF Contiguous
<1>4. f.at = w /\ End(f) = w + TotalLen(f)
  BY <1>3, Zenon
<1> HIDE DEF f
<1>5. Contiguous(F \cup {f}, w + TotalLen(f))
  <2>1. ASSUME NEW g \in F \cup {f}
        PROVE  /\ End(g) <= w + TotalLen(f)
               /\ End(g) = w + TotalLen(f) \/ \E h \in F \cup {f} : h.at = End(g)
    BY <1>2, <1>3, <1>4 DEF Contiguous
  <2>2. ASSUME NEW g \in F \cup {f}, NEW h \in F \cup {f}, g.at < h.at
        PROVE  End(g) <= h.at
    BY <2>2, <1>2, <1>3, <1>4 DEF Contiguous
  <2>3. ASSUME NEW g \in F \cup {f}, NEW h \in F \cup {f}, g.at = h.at
        PROVE  g = h
    BY <2>3, <1>2, <1>3, <1>4, SMTT(30) DEF Contiguous
  <2> QED BY <2>1, <2>2, <2>3, Zenon DEF Contiguous
<1>6. ~cleared[c] => AtBoundary(F \cup {f}, w + TotalLen(f), cut[c]) /\ ~(f.at < cut[c])
  BY <1>2, <1>3, <1>4 DEF AtBoundary
<1>7. StreamTypes' /\ EndpointOK'
  BY <1>1, <1>2, <1>3 DEF StreamInv, StreamTypes, EndpointOK
<1>8. /\ frames'[c] = F \cup {f} /\ written'[c] = w + TotalLen(f)
      /\ \A b \in Conns \ {c} : frames'[b] = frames[b] /\ written'[b] = written[b]
  BY <1>1, Zenon DEF StreamInv, StreamTypes
<1>9. ASSUME NEW b \in Conns
      PROVE  /\ recv'[b] <= written'[b]
             /\ Contiguous(frames'[b], written'[b])
             /\ ~cleared'[b] => AtBoundary(frames'[b], written'[b], cut'[b])
  <2>1. CASE b = c
    <3>1. recv[c] <= w + TotalLen(f)
      BY <1>2, <1>3
    <3>2. recv' = recv /\ cleared' = cleared /\ cut' = cut
      BY <1>1, Zenon
    <3> HIDE DEF F, w
    <3> QED BY <2>1, <3>1, <3>2, <1>5, <1>6, <1>8, ZenonT(40)
  <2>2. CASE b # c
    BY <2>2, <1>1, <1>8, Zenon DEF StreamInv
  <2> QED BY <2>1, <2>2, Zenon
<1>10. FramesIntact'
  <2> SUFFICES ASSUME NEW b \in Conns, ~cleared[b]
               PROVE  LET due == {g \in frames'[b] : g.at < cut[b]} IN
                      /\ handled[b] = {Received(g) : g \in due}
                      /\ \A g \in due : g.title < 256 => g \in handled[b]
    BY <1>1, ZenonT(40) DEF FramesIntact
  <2>1. {g \in frames'[b] : g.at < cut[b]} = {g \in frames[b] : g.at < cut[b]}
    BY <1>6, <1>8, Zenon
  <2> QED BY <2>1, Zenon DEF StreamInv, FramesIntact
<1>11. ClearedOnlyOversize'
  BY <1>1, <1>8, Zenon DEF StreamInv, ClearedOnlyOversize
<1> QED BY <1>7, <1>9, <1>10, <1>11, Zenon DEF StreamInv

(* A read ends at or before what was written.                              *)
LEMMA ReadKeeps ==
  ASSUME StreamInv, NEW c \in Conns, Read(c) PROVE StreamInv'
<1>1. PICK n \in PollRead(c) : recv' = [recv EXCEPT ![c] = n]
  BY Zenon DEF Read
<1>2. UNCHANGED <<endpoint, frames, written, cut, handled, cleared>>
  BY Zenon DEF Read, server
<1>3. frames[c] \subseteq Sent /\ \A f \in frames[c] : End(f) <= written[c]
  BY Zenon DEF StreamInv, StreamTypes, Contiguous
<1>4. Splits \subseteq Nat /\ \A f \in frames[c] : End(f) \in Nat /\ f.at \in Nat
  BY <1>3, FrameLengths, LengthsAssumption, ZenonT(40) DEF Sent
<1>5. FrameEnds(c) = {End(f) : f \in frames[c]}
  BY Zenon DEF FrameEnds, End
<1>6. n \in Nat /\ n <= written[c]
  <2>1. endpoint.protocol \in Protocols
    BY DEF StreamInv, EndpointOK, EndpointConfig
  <2>2. n \in TcpPollRead(c) \/ n \in WebSocketPollRead(c)
    BY <2>1, <1>1, Zenon DEF PollRead, Proto, Protocols, TcpPollRead, QuicPollRead
  <2>3. CASE n \in TcpPollRead(c)
    BY <2>3, <1>4, <1>5 DEF TcpPollRead, ChunkEnds
  <2>4. CASE n \in WebSocketPollRead(c)
    BY <2>4, <1>3, <1>4, <1>5, Zenon DEF WebSocketPollRead
  <2> QED BY <2>2, <2>3, <2>4, Zenon
<1>7. StreamTypes' /\ \A b \in Conns : recv'[b] <= written'[b]
  BY <1>1, <1>2, <1>6, Zenon DEF StreamInv, StreamTypes
<1> QED BY <1>2, <1>7 DEF StreamInv, EndpointOK, FramesIntact, ClearedOnlyOversize

(* The frame at the front of the buffer is split off and handled.          *)
LEMMA HandleFrameKeeps ==
  ASSUME StreamInv, NEW c \in Conns, HandleFrame(c) PROVE StreamInv'
<1> DEFINE found == IF FrameAt(c) = {} THEN {Junk} ELSE {Received(f) : f \in FrameAt(c)}
<1>1. PICK n \in TryDeserialize(c) :
        /\ cut' = [cut EXCEPT ![c] = cut[c] + n]
        /\ handled' = [handled EXCEPT ![c] = handled[c] \cup found]
  BY Zenon DEF HandleFrame
<1>2. UNCHANGED <<endpoint, frames, written, recv, cleared>>
  BY Zenon DEF HandleFrame, server
<1>3. /\ frames[c] \subseteq Sent
      /\ written[c] \in Nat /\ cut[c] \in Nat
      /\ Contiguous(frames[c], written[c])
  BY Zenon DEF StreamInv, StreamTypes
<1>4. n \in Nat
  <2>1. \A f \in FrameAt(c) : TotalLen(f) \in Nat
    BY <1>3, FrameLengths, Zenon DEF FrameAt
  <2> QED BY <2>1, LengthsAssumption, Zenon DEF TryDeserialize
<1>5. found \subseteq [at : Int, title : Int, data : Int]
  BY <1>3, FrameLengths DEF FrameAt, Junk
<1>6. StreamTypes' /\ EndpointOK'
  <2>1. cut[c] + n \in Nat
    BY <1>3, <1>4
  <2> HIDE DEF found
  <2> QED BY <1>1, <1>2, <1>5, <2>1 DEF StreamInv, StreamTypes, EndpointOK
<1>7. /\ cut'[c] = cut[c] + n /\ handled'[c] = handled[c] \cup found
      /\ \A b \in Conns \ {c} : cut'[b] = cut[b] /\ handled'[b] = handled[b]
  BY <1>1, Zenon DEF StreamInv, StreamTypes
<1>8. ASSUME ~cleared[c]
      PROVE  /\ AtBoundary(frames[c], written[c], cut[c] + n)
             /\ LET due == {g \in frames[c] : g.at < cut[c] + n} IN
                /\ handled[c] \cup found = {Received(g) : g \in due}
                /\ \A g \in due : g.title < 256 => g \in handled[c] \cup found
  <2>1. PICK f \in frames[c] : FrameAt(c) = {f} /\ n = TotalLen(f) /\ f.at = cut[c]
    BY <1>8, FrameFound, Zenon
  <2>2. /\ End(f) = cut[c] + n /\ n >= 37
        /\ \A g \in frames[c] : g.at \in Nat
        /\ f.title < 256 => Received(f) = f
    BY <2>1, <1>3, FrameLengths, ZenonT(40) DEF Sent
  <2>3. AtBoundary(frames[c], written[c], cut[c] + n)
    BY <2>2, <1>3, Zenon DEF Contiguous, AtBoundary
  <2>4. found = {Received(f)}
    BY <2>1, Zenon
  <2>5. {g \in frames[c] : g.at < cut[c] + n} = {g \in frames[c] : g.at < cut[c]} \cup {f}
    <3>1. ASSUME NEW g \in frames[c], g.at < cut[c] + n, ~(g.at < cut[c])
          PROVE  g = f
      BY <3>1, <2>1, <2>2, <1>3, <1>4, SMTT(30) DEF Contiguous
    <3>2. \A g \in frames[c] : g.at < cut[c] => g.at < cut[c] + n
      BY <2>2, <1>3, <1>4
    <3>3. f.at < cut[c] + n
      BY <2>1, <2>2, <1>3, <1>4
    <3> QED BY <3>1, <3>2, <3>3, ZenonT(40)
  <2>6. LET due == {g \in frames[c] : g.at < cut[c]} IN
        /\ handled[c] = {Received(g) : g \in due}
        /\ \A g \in due : g.title < 256 => g \in handled[c]
    BY <1>8, Zenon DEF StreamInv, FramesIntact
  <2> HIDE DEF found
  <2> QED BY <2>2, <2>3, <2>4, <2>5, <2>6
<1> HIDE DEF found
<1>9. ASSUME NEW b \in Conns, ~cleared'[b]
      PROVE  AtBoundary(frames'[b], written'[b], cut'[b])
  <2>1. CASE b = c
    BY <2>1, <1>2, <1>7, <1>8, <1>9, Zenon
  <2>2. CASE b # c
    BY <2>2, <1>2, <1>7, <1>9, Zenon DEF StreamInv
  <2> QED BY <2>1, <2>2, Zenon
<1>10. FramesIntact'
  <2> SUFFICES ASSUME NEW b \in Conns, ~cleared[b]
               PROVE  LET due == {g \in frames[b] : g.at < cut'[b]} IN
                      /\ handled'[b] = {Received(g) : g \in due}
                      /\ \A g \in due : g.title < 256 => g \in handled'[b]
    BY <1>2, Zenon DEF FramesIntact
  <2>1. CASE b = c
    BY <2>1, <1>7, <1>8, ZenonT(40)
  <2>2. CASE b # c
    BY <2>2, <1>7, Zenon DEF StreamInv, FramesIntact
  <2> QED BY <2>1, <2>2, Zenon
<1>11. ClearedOnlyOversize'
  BY <1>2, Zenon DEF StreamInv, ClearedOnlyOversize
<1> QED BY <1>2, <1>6, <1>9, <1>10, <1>11, Zenon DEF StreamInv

(* The loop ends without a complete frame.  The bytes of an uncleared      *)
(* buffer over its bound belong to one frame, which is longer still.       *)
LEMMA AwaitBytesKeeps ==
  ASSUME StreamInv, NEW c \in Conns, AwaitBytes(c) PROVE StreamInv'
<1> DEFINE over == Buffered(c) > endpoint.max_buffer_size
<1>1. /\ cut' = IF over THEN [cut EXCEPT ![c] = recv[c]] ELSE cut
      /\ cleared' = [cleared EXCEPT ![c] = cleared[c] \/ over]
      /\ FrameAt(c) = {} \/ TryDeserialize(c) = {}
      /\ UNCHANGED <<endpoint, frames, written, recv, handled>>
  BY Zenon DEF AwaitBytes, server
<1>2. /\ frames[c] \subseteq Sent
      /\ written[c] \in Nat /\ recv[c] \in Nat /\ cut[c] \in Nat /\ recv[c] <= written[c]
      /\ endpoint.max_buffer_size \in Nat /\ endpoint.max_buffer_size >= 1024
  BY DEF StreamInv, StreamTypes, EndpointOK, EndpointConfig
<1>3. StreamTypes' /\ EndpointOK'
  BY <1>1 DEF StreamInv, StreamTypes, EndpointOK
<1>4. ASSUME NEW b \in Conns, ~cleared'[b]
      PROVE  cut'[b] = cut[b] /\ ~cleared[b]
  BY <1>1, <1>4, Zenon DEF StreamInv, StreamTypes
<1>5. ASSUME over, ~cleared[c]
      PROVE  \E f \in frames[c] : TotalLen(f) > endpoint.max_buffer_size
  <2>1. PICK f \in frames[c] : f.at = cut[c]
    BY <1>2, <1>5 DEF StreamInv, AtBoundary, Buffered
  <2>2. f \in FrameAt(c) /\ TryDeserialize(c) = {}
    BY <2>1, <1>1, ZenonT(40) DEF FrameAt
  <2>3. ~(TotalLen(f) <= Buffered(c))
    BY <2>2, <1>2, <1>5 DEF TryDeserialize, REX_LEN_SIZE, Buffered
  <2>4. TotalLen(f) \in Nat
    BY <1>2, FrameLengths
  <2> QED BY <2>3, <2>4, <1>2, <1>5 DEF Buffered
<1>6. ClearedOnlyOversize'
  <2> SUFFICES ASSUME NEW b \in Conns, cleared'[b]
               PROVE  \E f \in frames[b] : TotalLen(f) > endpoint.max_buffer_size
    BY <1>1, Zenon DEF ClearedOnlyOversize
  <2>1. CASE cleared[b]
    BY <2>1, Zenon DEF StreamInv, ClearedOnlyOversize
  <2>2. CASE ~cleared[b]
    <3>1. b = c /\ over
      BY <2>2, <1>1, ZenonT(40) DEF StreamInv, StreamTypes
    <3> QED BY <3>1, <2>2, <1>5, Zenon
  <2> QED BY <2>1, <2>2, Zenon
<1>7. FramesIntact'
  BY <1>1, <1>4 DEF StreamInv, FramesIntact
<1> QED BY <1>1, <1>3, <1>4, <1>6, <1>7, Zenon DEF StreamInv

LEMMA StreamStep == StreamInv /\ [Next]_vars => StreamInv'
<1> SUFFICES ASSUME StreamInv, [Next]_vars PROVE StreamInv'
  OBVIOUS
<1>1. UNCHANGED endpoint
  BY EndpointFixed, Zenon
<1>2. CASE UNCHANGED vars
  BY <1>2, StreamsAlone, Zenon DEF vars, streams
<1>3. CASE Loop \/ Signal \/ CloseEndpoint
  <2>1. UNCHANGED streams
    BY <1>3, Zenon DEF Loop, AcceptorStops, Accept, TcpAccept, WebSocketAccept, QuicAccept, Signal,
                CloseEndpoint
  <2> QED BY <2>1, <1>1, StreamsAlone, Zenon
<1>4. ASSUME NEW c \in Conns, Client(c) PROVE StreamInv'
  <2>1. CASE Connect(c) \/ Leave(c)
    BY <2>1, <1>1, StreamsAlone, Zenon DEF Connect, Leave
  <2>2. CASE SendAck(c)
    BY <2>2, SendKeeps, Zenon DEF SendAck
  <2>3. ASSUME NEW t \in TitleLens, NEW d \in DataLens, Send(c, t, d) PROVE StreamInv'
    BY <2>3, SendKeeps, LengthsAssumption, Zenon
  <2> QED BY <1>4, <2>1, <2>2, <2>3, Zenon DEF Client
<1>5. ASSUME NEW c \in Conns,
             \/ WebSocketHandshake(c) \/ QuicHandshake(c) \/ HandshakeFails(c)
             \/ Task(c) \/ Cancelled(c) \/ ReadEnds(c) \/ ShutdownReceived(c)
      PROVE  StreamInv'
  <2>1. UNCHANGED streams
    BY <1>5, Zenon DEF WebSocketHandshake, QuicHandshake, HandshakeFails, Task, Admit, TcpServe,
                WebSocketServe, QuicServe, AcceptStream, ServeEnds, QuicServeEnds, Cleanup,
                Cancelled, ReadEnds, ShutdownReceived
  <2> QED BY <2>1, <1>1, StreamsAlone, Zenon
<1> QED BY <1>2, <1>3, <1>4, <1>5, ReadKeeps, HandleFrameKeeps, AwaitBytesKeeps, ZenonT(40) DEF Next, Drive

LEMMA StreamInvariant == Spec => []StreamInv
<1>1. Init => StreamInv
  <2> SUFFICES ASSUME Init PROVE StreamInv
    OBVIOUS
  <2>1. StreamTypes
    BY Zenon DEF Init, StreamTypes
  <2>2. \A c \in Conns :
          /\ recv[c] <= written[c]
          /\ Contiguous(frames[c], written[c])
          /\ AtBoundary(frames[c], written[c], cut[c])
    BY DEF Init, Contiguous, AtBoundary
  <2>3. FramesIntact /\ ClearedOnlyOversize
    BY Zenon DEF Init, FramesIntact, ClearedOnlyOversize
  <2> QED BY <2>1, <2>2, <2>3, EndpointInit, Zenon DEF StreamInv
<1> QED BY <1>1, StreamStep, PTL DEF Spec

(* However the bytes of a stream arrive, a driver whose buffer was not     *)
(* cleared has handled exactly the frames before its position, as they     *)
(* were sent (parse_and_handle_buffer, RexData::try_deserialize).          *)
THEOREM FramesKept == Spec => []FramesIntact
<1>1. StreamInv => FramesIntact
  BY Zenon DEF StreamInv
<1> QED BY <1>1, StreamInvariant, PTL

(* The size check of parse_and_handle_buffer drops bytes only of a stream  *)
(* with a frame longer than max_buffer_size.                               *)
THEOREM OnlyOversizeCleared == Spec => []ClearedOnlyOversize
<1>1. StreamInv => ClearedOnlyOversize
  BY Zenon DEF StreamInv
<1> QED BY <1>1, StreamInvariant, PTL
=============================================================================
