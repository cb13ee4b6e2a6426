---------------------------- MODULE ClusterProofs ----------------------------
(***************************************************************************)
(* Proofs about Cluster, for every number of nodes, links, messages and    *)
(* faults: a stored sender leads to the node its key names, a forwarded    *)
(* message is under way at most once, and nodes that know the same nodes   *)
(* send a title to the same owner.                                         *)
(***************************************************************************)
EXTENDS Cluster, RouteTableProofs, FiniteSetTheorems

-----------------------------------------------------------------------------
(* The inductive invariant of EntryLeadsToPeer.  An accepting node stores  *)
(* a link under the id named by the Join it reads there, so a Join under   *)
(* way must name the node that dialled the link it is on.                  *)

EntryInv ==
  /\ ends \in [Links -> {None} \cup [from : Nodes, to : Nodes]]
  /\ DOMAIN conns = Nodes
  /\ \A n \in Nodes : \A k \in DOMAIN conns[n] :
       /\ conns[n][k] \in Links /\ ends[conns[n][k]] # None
       /\ {ends[conns[n][k]].from, ends[conns[n][k]].to} = {n, k[2]}

JoinNamesDialler ==
  \A l \in Links : \A i \in DOMAIN wire[<<l, "out">>] :
    wire[<<l, "out">>][i].type = "Join" =>
      ends[l] # None /\ wire[<<l, "out">>][i].of = ends[l].from

QueueTypes == wire \in [Wires -> Seq(Messages)] /\ inbox \in [Nodes -> Seq(Messages)]

JobFields == {"pc", "at", "to", "rest", "result"}

JobInv ==
  /\ DOMAIN job = Msgs
  /\ \A m \in Msgs : /\ DOMAIN job[m] = JobFields
                     /\ job[m].pc # "idle" => job[m].at \in Nodes

PeerInv == EntryInv /\ JoinNamesDialler /\ QueueTypes /\ JobInv /\ listening \subseteq Nodes

(* The free link l becomes one from n to m. *)
NewLink(n, m, l) ==
  /\ ends[l] = None /\ ends'[l] = [from |-> n, to |-> m]
  /\ \A x \in Links \ {l} : ends'[x] = ends[x]

(* Node dials m over the free link l and stores it under a key of m. *)
LEMMA OpenKeeps ==
  ASSUME EntryInv, listening \subseteq Nodes, NEW n \in Nodes, NEW m, NEW k, k[2] = m,
         NEW l \in FreeLinks, Open(n, m, k, l)
  PROVE  EntryInv' /\ NewLink(n, m, l)
<1>1. m \in Nodes /\ l \in Links /\ ends[l] = None
  BY Zenon DEF Open, FreeLinks
<1>2. /\ ends'[l] = [from |-> n, to |-> m] /\ \A x \in Links \ {l} : ends'[x] = ends[x]
      /\ ends' \in [Links -> {None} \cup [from : Nodes, to : Nodes]]
  BY <1>1, Zenon DEF Open, EntryInv
<1>3. ends'[l] # None
  BY <1>1, <1>2, ClusterAssumption
<1>4. DOMAIN conns' = Nodes
  BY Zenon DEF Open, EntryInv
<1>5. ASSUME NEW p \in Nodes, NEW q \in DOMAIN conns'[p]
      PROVE  /\ conns'[p][q] \in Links /\ ends'[conns'[p][q]] # None
             /\ {ends'[conns'[p][q]].from, ends'[conns'[p][q]].to} = {p, q[2]}
  <2>1. CASE p = n /\ q = k
    <3>1. conns'[p][q] = l
      BY <2>1, Zenon DEF Open, EntryInv, Insert
    <3>2. ends'[l].from = n /\ ends'[l].to = m
      BY <1>2
    <3> QED BY <3>1, <3>2, <2>1, <1>1, <1>3, Zenon
  <2>2. CASE ~(p = n /\ q = k)
    <3>1. q \in DOMAIN conns[p] /\ conns'[p][q] = conns[p][q]
      BY <2>2, Zenon DEF Open, EntryInv, Insert
    <3>2. conns[p][q] \in Links /\ conns[p][q] # l
      BY <3>1, <1>1, Zenon DEF EntryInv
    <3>3. ends'[conns[p][q]] = ends[conns[p][q]]
      BY <3>2, <1>2, Zenon
    <3>4. /\ ends[conns[p][q]] # None
          /\ {ends[conns[p][q]].from, ends[conns[p][q]].to} = {p, q[2]}
      BY <3>1, Zenon DEF EntryInv
    <3> QED BY <3>1, <3>2, <3>3, <3>4, Zenon
  <2> QED BY <2>1, <2>2, Zenon
<1> QED BY <1>1, <1>2, <1>4, <1>5, Zenon DEF EntryInv, NewLink

(* Joins only leave the wires, and links keep their ends. *)
LEMMA JoinsKept ==
  ASSUME JoinNamesDialler,
         \A l \in Links : ends[l] # None => ends'[l] = ends[l],
         \A l \in Links : \A i \in DOMAIN wire'[<<l, "out">>] :
           wire'[<<l, "out">>][i].type = "Join" =>
             \E j \in DOMAIN wire[<<l, "out">>] :
               wire[<<l, "out">>][j] = wire'[<<l, "out">>][i]
  PROVE  JoinNamesDialler'
<1> SUFFICES ASSUME NEW l \in Links, NEW i \in DOMAIN wire'[<<l, "out">>],
                    wire'[<<l, "out">>][i].type = "Join"
             PROVE  ends'[l] # None /\ wire'[<<l, "out">>][i].of = ends'[l].from
  BY Zenon DEF JoinNamesDialler
<1>1. PICK j \in DOMAIN wire[<<l, "out">>] : wire[<<l, "out">>][j] = wire'[<<l, "out">>][i]
  OBVIOUS
<1>2. ends[l] # None /\ wire[<<l, "out">>][j].of = ends[l].from
  BY <1>1 DEF JoinNamesDialler
<1> QED BY <1>1, <1>2, Zenon

(* A message other than a Join is handed to a writer. *)
LEMMA PutKeeps ==
  ASSUME QueueTypes, JoinNamesDialler, UNCHANGED ends, NEW n, NEW k,
         NEW msg \in Messages, msg.type # "Join", wire' = Put(n, k, msg)
  PROVE  wire' \in [Wires -> Seq(Messages)] /\ JoinNamesDialler'
<1> DEFINE w == WireOf(n, conns[n][k])
<1>1. \/ wire' = wire
      \/ w \in Wires /\ wire' = [wire EXCEPT ![w] = Append(wire[w], msg)]
  BY Zenon DEF Put, QueueTypes
<1> HIDE DEF w
<1>2. CASE wire' = wire
  BY <1>2, Zenon DEF QueueTypes, JoinNamesDialler
<1>3. CASE w \in Wires /\ wire' = [wire EXCEPT ![w] = Append(wire[w], msg)]
  <2>1. wire' \in [Wires -> Seq(Messages)]
    BY <1>3 DEF QueueTypes
  <2>2. ASSUME NEW l \in Links, NEW i \in DOMAIN wire'[<<l, "out">>],
               wire'[<<l, "out">>][i].type = "Join"
        PROVE  \E j \in DOMAIN wire[<<l, "out">>] :
                 wire[<<l, "out">>][j] = wire'[<<l, "out">>][i]
    <3>1. <<l, "out">> \in Wires
      BY Zenon DEF Wires
    <3>2. CASE w # <<l, "out">>
      BY <1>3, <3>1, <3>2, Zenon DEF QueueTypes
    <3>3. CASE w = <<l, "out">>
      <4>1. wire[w] \in Seq(Messages) /\ wire'[w] = Append(wire[w], msg)
        BY <1>3, Zenon DEF QueueTypes
      <4>2. i \in 1 .. Len(wire[w]) + 1 /\ i # Len(wire[w]) + 1
        BY <2>2, <3>3, <4>1
      <4>3. i \in DOMAIN wire[w] /\ wire'[w][i] = wire[w][i]
        BY <4>1, <4>2
      <4> QED BY <3>3, <4>3, Zenon
    <3> QED BY <3>2, <3>3, Zenon
  <2> QED BY <2>1, <2>2, JoinsKept, Zenon
<1> QED BY <1>1, <1>2, <1>3, Zenon

(* The first message of the wire w is read. *)
LEMMA TailKeeps ==
  ASSUME QueueTypes, JoinNamesDialler, UNCHANGED ends, NEW w \in Wires, wire[w] # << >>,
         wire' = [wire EXCEPT ![w] = Tail(wire[w])]
  PROVE  wire' \in [Wires -> Seq(Messages)] /\ JoinNamesDialler'
<1>1. wire[w] \in Seq(Messages)
  BY Zenon DEF QueueTypes
<1>2. wire' \in [Wires -> Seq(Messages)]
  BY <1>1 DEF QueueTypes
<1>3. ASSUME NEW l \in Links, NEW i \in DOMAIN wire'[<<l, "out">>]
      PROVE  \E j \in DOMAIN wire[<<l, "out">>] :
               wire[<<l, "out">>][j] = wire'[<<l, "out">>][i]
  <2>1. <<l, "out">> \in Wires
    BY Zenon DEF Wires
  <2>2. CASE w # <<l, "out">>
    BY <2>1, <2>2, Zenon DEF QueueTypes
  <2>3. CASE w = <<l, "out">>
    <3>1. wire'[w] = Tail(wire[w])
      BY Zenon DEF QueueTypes
    <3>2. i \in DOMAIN Tail(wire[w])
      BY <3>1, <2>3, Zenon
    <3>3. i + 1 \in DOMAIN wire[w] /\ Tail(wire[w])[i] = wire[w][i + 1]
      BY <1>1, <3>2
    <3> QED BY <2>3, <3>1, <3>3, Zenon
  <2> QED BY <2>2, <2>3, Zenon
<1> QED BY <1>2, <1>3, JoinsKept, Zenon

LEMMA Emptied ==
  ASSUME NEW f \in [Wires -> Seq(Messages)], NEW x, NEW g, g = [f EXCEPT ![x] = << >>]
  PROVE  g \in [Wires -> Seq(Messages)] /\ \A w \in Wires : g[w] = << >> \/ g[w] = f[w]
<1>1. << >> \in Seq(Messages)
  OBVIOUS
<1> QED BY <1>1, Zenon

(* Some wires are emptied. *)
LEMMA EmptyKeeps ==
  ASSUME QueueTypes, JoinNamesDialler, UNCHANGED ends,
         wire' \in [Wires -> Seq(Messages)],
         \A w \in Wires : wire'[w] = << >> \/ wire'[w] = wire[w]
  PROVE  JoinNamesDialler'
<1>1. \A l \in Links : <<l, "out">> \in Wires
  BY Zenon DEF Wires
<1>2. ASSUME NEW l \in Links, NEW i \in DOMAIN wire'[<<l, "out">>]
      PROVE  wire'[<<l, "out">>] = wire[<<l, "out">>]
  BY <1>1
<1> QED BY <1>2, JoinsKept, Zenon

(* What the messages are. *)
LEMMA MessageFacts ==
  /\ \A n \in Nodes : Join(n) \in Messages /\ Join(n).type = "Join" /\ Join(n).of = n
  /\ \A n \in Nodes : NodeList(n) \in Messages /\ NodeList(n).type # "Join"
  /\ \A m \in Msgs : Forward(m) \in Messages /\ Forward(m).type # "Join"
  /\ \A msg \in Messages : msg.type \in {"Join", "NodeList"} => msg.of \in Nodes
<1>1. \A n \in Nodes : Join(n) \in Messages /\ NodeList(n) \in Messages
  BY Zenon DEF Messages
<1>2. \A m \in Msgs : Forward(m) \in Messages
  BY Zenon DEF Messages
<1>3. \A n : Join(n).type = "Join" /\ Join(n).of = n /\ NodeList(n).type # "Join"
             /\ NodeList(n).of = n /\ Forward(n).type \notin {"Join", "NodeList"}
  BY Zenon DEF Join, NodeList, Forward
<1>4. \A msg \in Messages : \/ \E n \in Nodes : msg = Join(n) \/ msg = NodeList(n)
                            \/ \E m \in Msgs : msg = Forward(m)
  BY Zenon DEF Messages
<1> QED BY <1>1, <1>2, <1>3, <1>4

LEMMA KeyFacts == \A m : Key(m)[2] = m /\ SeedKey(m)[2] = m
  BY Zenon DEF Key, SeedKey

LEMMA InitPeer == Init => PeerInv
<1> SUFFICES ASSUME Init PROVE PeerInv
  OBVIOUS
<1>1. EntryInv
  BY DEF Init, EntryInv
<1>2. QueueTypes /\ JoinNamesDialler
  <2>1. QueueTypes
    BY DEF Init, QueueTypes
  <2>2. \A l \in Links : wire[<<l, "out">>] = << >>
    BY Zenon DEF Init, Wires
  <2> QED BY <2>1, <2>2 DEF JoinNamesDialler
<1>3. JobInv
  BY Zenon DEF Init, JobInv, NoJob, JobFields
<1> QED BY <1>1, <1>2, <1>3, Zenon DEF Init, PeerInv

(* A dialled seed is sent our Join. *)
LEMMA DialSeedKeeps ==
  ASSUME PeerInv, NEW n \in Nodes, DialSeed(n) PROVE PeerInv'
<1>1. PICK l \in FreeLinks : /\ Open(n, Head(seedsLeft[n]), SeedKey(Head(seedsLeft[n])), l)
                             /\ wire' = [wire EXCEPT ![<<l, "out">>] = <<Join(n)>>]
  BY Zenon DEF DialSeed
<1> DEFINE m == Head(seedsLeft[n])
<1>2. l \in Links /\ <<l, "out">> \in Wires
  BY Zenon DEF FreeLinks, Wires
<1>3. EntryInv' /\ NewLink(n, m, l)
  <2>1. EntryInv /\ listening \subseteq Nodes
    BY Zenon DEF PeerInv
  <2> QED BY <1>1, <2>1, OpenKeeps, KeyFacts, Zenon
<1> HIDE DEF m
<1>4. QueueTypes'
  <2>1. <<Join(n)>> \in Seq(Messages)
    BY MessageFacts
  <2> QED BY <1>1, <1>2, <2>1, Zenon DEF PeerInv, QueueTypes, DialSeed
<1>5. JoinNamesDialler'
  <2> SUFFICES ASSUME NEW x \in Links, NEW i \in DOMAIN wire'[<<x, "out">>],
                      wire'[<<x, "out">>][i].type = "Join"
               PROVE  ends'[x] # None /\ wire'[<<x, "out">>][i].of = ends'[x].from
    BY Zenon DEF JoinNamesDialler
  <2>1. CASE x = l
    <3>1. wire'[<<x, "out">>] = <<Join(n)>>
      BY <2>1, <1>1, <1>2, Zenon DEF PeerInv, QueueTypes
    <3>2. wire'[<<x, "out">>][i].of = n
      BY <3>1, MessageFacts
    <3>3. m \in Nodes
      BY <1>1, Zenon DEF Open, PeerInv, m
    <3>4. ends'[x] # None /\ ends'[x].from = n
      BY <2>1, <1>3, <3>3, ClusterAssumption DEF NewLink
    <3> QED BY <3>2, <3>4, Zenon
  <2>2. CASE x # l
    <3>1. wire'[<<x, "out">>] = wire[<<x, "out">>]
      <4>1. <<x, "out">> \in Wires /\ <<x, "out">> # <<l, "out">>
        BY <2>2, Zenon DEF Wires
      <4> QED BY <4>1, <1>1, Zenon DEF PeerInv, QueueTypes
    <3>2. ends[x] # None /\ wire[<<x, "out">>][i].of = ends[x].from
      BY <3>1, Zenon DEF PeerInv, JoinNamesDialler
    <3> QED BY <3>1, <3>2, <2>2, <1>3, Zenon DEF NewLink
  <2> QED BY <2>1, <2>2, Zenon
<1> QED BY <1>3, <1>4, <1>5, Zenon DEF PeerInv, DialSeed, JobInv

(* What a step leaves alone. *)
LEMMA EntryStays == ASSUME EntryInv, UNCHANGED <<ends, conns>> PROVE EntryInv'
<1>1. ends' = ends /\ conns' = conns
  OBVIOUS
<1>2. ASSUME NEW n \in Nodes, NEW k \in DOMAIN conns'[n]
      PROVE  /\ conns'[n][k] \in Links /\ ends'[conns'[n][k]] # None
             /\ {ends'[conns'[n][k]].from, ends'[conns'[n][k]].to} = {n, k[2]}
  <2>1. k \in DOMAIN conns[n]
    BY <1>1, Zenon
  <2>2. /\ conns[n][k] \in Links /\ ends[conns[n][k]] # None
        /\ {ends[conns[n][k]].from, ends[conns[n][k]].to} = {n, k[2]}
    BY <2>1, ZenonT(40) DEF EntryInv
  <2> QED BY <1>1, <2>2
<1> QED BY <1>1, <1>2, Zenon DEF EntryInv

LEMMA JobStays == ASSUME JobInv, UNCHANGED job PROVE JobInv'
  BY Zenon DEF JobInv

LEMMA WireStays ==
  ASSUME JoinNamesDialler, UNCHANGED <<ends, wire>> PROVE JoinNamesDialler'
  BY Zenon DEF JoinNamesDialler

(* Stored under the id its Join names: the id of the dialler. *)
LEMMA HandleIncomingKeeps ==
  ASSUME PeerInv, NEW l \in Links, HandleIncoming(l) PROVE PeerInv'
<1> DEFINE w == <<l, "out">>
           n == ends[l].to
           msg == Head(wire[w])
<1>1. w \in Wires /\ ends[l] # None /\ wire[w] # << >> /\ wire[w] \in Seq(Messages)
  BY Zenon DEF Wires, HandleIncoming, PeerInv, QueueTypes
<1>2. ends[l] \in [from : Nodes, to : Nodes] /\ n \in Nodes
  BY <1>1, Zenon DEF PeerInv, EntryInv
<1>3. msg \in Messages /\ 1 \in DOMAIN wire[w] /\ msg = wire[w][1]
  BY <1>1
<1>4. wire' \in [Wires -> Seq(Messages)] /\ JoinNamesDialler'
  <2>1. wire' = [wire EXCEPT ![w] = Tail(wire[w])] /\ UNCHANGED ends
    BY Zenon DEF HandleIncoming
  <2> QED BY <2>1, <1>1, TailKeeps, Zenon DEF PeerInv
<1>5. inbox' \in [Nodes -> Seq(Messages)]
  BY <1>2, <1>3 DEF HandleIncoming, PeerInv, QueueTypes
<1>6. EntryInv'
  <2>1. CASE msg.type # "Join"
    <3>1. UNCHANGED <<ends, conns>>
      BY <2>1, Zenon DEF HandleIncoming
    <3> QED BY <3>1, EntryStays, Zenon DEF PeerInv
  <2>2. CASE msg.type = "Join"
    <3>1. msg.of = ends[l].from
      BY <2>2, <1>3, Zenon DEF PeerInv, JoinNamesDialler
    <3>2. conns' = [conns EXCEPT ![n] = Insert(conns[n], Key(msg.of), l)] /\ UNCHANGED ends
      BY <2>2, Zenon DEF HandleIncoming
    <3> HIDE DEF n, msg
    <3>3. ASSUME NEW p \in Nodes, NEW q \in DOMAIN conns'[p]
          PROVE  /\ conns'[p][q] \in Links /\ ends'[conns'[p][q]] # None
                 /\ {ends'[conns'[p][q]].from, ends'[conns'[p][q]].to} = {p, q[2]}
      <4>1. CASE p = n /\ q = Key(msg.of)
        <5>1. conns'[p][q] = l
          BY <4>1, <3>2, Zenon DEF PeerInv, EntryInv, Insert
        <5>2. q[2] = ends[l].from /\ p = ends[l].to
          BY <4>1, <3>1, KeyFacts, Zenon DEF n
        <5> QED BY <5>1, <5>2, <1>1, <3>2, Zenon
      <4>2. CASE ~(p = n /\ q = Key(msg.of))
        <5>1. q \in DOMAIN conns[p] /\ conns'[p][q] = conns[p][q]
          BY <4>2, <3>2, Zenon DEF PeerInv, EntryInv, Insert
        <5>2. /\ conns[p][q] \in Links /\ ends[conns[p][q]] # None
              /\ {ends[conns[p][q]].from, ends[conns[p][q]].to} = {p, q[2]}
          BY <5>1, Zenon DEF PeerInv, EntryInv
        <5> QED BY <5>1, <5>2, <3>2, Zenon
      <4> QED BY <4>1, <4>2, Zenon
    <3>4. DOMAIN conns' = Nodes
      BY <3>2, Zenon DEF PeerInv, EntryInv
    <3>5. ends' \in [Links -> {None} \cup [from : Nodes, to : Nodes]]
      BY <3>2, Zenon DEF PeerInv, EntryInv
    <3> QED BY <3>3, <3>4, <3>5, Zenon DEF EntryInv
  <2> QED BY <2>1, <2>2, Zenon
<1> QED BY <1>4, <1>5, <1>6, JobStays, Zenon DEF PeerInv, QueueTypes, HandleIncoming

LEMMA ReadLoopKeeps ==
  ASSUME PeerInv, NEW l \in Links, ReadLoop(l) PROVE PeerInv'
<1> DEFINE w == <<l, "back">>
           n == ends[l].from
<1>1. w \in Wires /\ ends[l] # None /\ wire[w] # << >> /\ wire[w] \in Seq(Messages)
  BY Zenon DEF Wires, ReadLoop, PeerInv, QueueTypes
<1>2. n \in Nodes /\ Head(wire[w]) \in Messages
  BY <1>1 DEF PeerInv, EntryInv
<1>3. wire' \in [Wires -> Seq(Messages)] /\ JoinNamesDialler'
  <2>1. wire' = [wire EXCEPT ![w] = Tail(wire[w])] /\ UNCHANGED ends
    BY Zenon DEF ReadLoop
  <2> QED BY <2>1, <1>1, TailKeeps, Zenon DEF PeerInv
<1>4. inbox' \in [Nodes -> Seq(Messages)]
  BY <1>2 DEF ReadLoop, PeerInv, QueueTypes
<1> QED BY <1>3, <1>4, EntryStays, JobStays, Zenon DEF PeerInv, QueueTypes, ReadLoop

(* The message a handler takes. *)
LEMMA ConsumeKeeps ==
  ASSUME QueueTypes, NEW n \in Nodes, NEW type, Next1(n, type), Consume(n)
  PROVE  /\ inbox' \in [Nodes -> Seq(Messages)]
         /\ Head(inbox[n]) \in Messages /\ Head(inbox[n]).type = type
<1>1. inbox[n] \in Seq(Messages) /\ inbox[n] # << >>
  BY Zenon DEF QueueTypes, Next1
<1> QED BY <1>1 DEF QueueTypes, Next1, Consume

LEMMA HandleKeeps ==
  ASSUME PeerInv, NEW n \in Nodes, Handle(n) PROVE PeerInv'
<1>1. CASE HandleJoin(n)
  <2>1. inbox' \in [Nodes -> Seq(Messages)]
    BY <1>1, ConsumeKeeps, Zenon DEF HandleJoin, PeerInv
  <2>2. wire' \in [Wires -> Seq(Messages)] /\ JoinNamesDialler'
    <3>1. CASE wire' = wire
      BY <1>1, <3>1, Zenon DEF HandleJoin, PeerInv, QueueTypes, JoinNamesDialler
    <3>2. CASE wire' = Put(n, Key(Head(inbox[n]).of), NodeList(n))
      BY <1>1, <3>2, PutKeeps, MessageFacts, Zenon DEF HandleJoin, PeerInv
    <3> QED BY <1>1, <3>1, <3>2, Zenon DEF HandleJoin
  <2> QED BY <1>1, <2>1, <2>2, EntryStays, JobStays, Zenon DEF HandleJoin, PeerInv, QueueTypes
<1>2. CASE HandleNodeList(n)
  <2>1. inbox' \in [Nodes -> Seq(Messages)]
    BY <1>2, ConsumeKeeps, Zenon DEF HandleNodeList, PeerInv
  <2> QED BY <1>2, <2>1, EntryStays, JobStays, WireStays, Zenon
          DEF HandleNodeList, network, PeerInv, QueueTypes
<1>3. CASE HandleForward(n)
  <2>1. inbox' \in [Nodes -> Seq(Messages)]
    BY <1>3, ConsumeKeeps, Zenon DEF HandleForward, PeerInv
  <2> QED BY <1>3, <2>1, EntryStays, JobStays, WireStays, Zenon
          DEF HandleForward, network, PeerInv, QueueTypes
<1> QED BY <1>1, <1>2, <1>3, Zenon DEF Handle

LEMMA StartUpKeeps ==
  ASSUME PeerInv, NEW n \in Nodes, StartUp(n) PROVE PeerInv'
<1>1. CASE DialSeed(n)
  BY <1>1, DialSeedKeeps, Zenon
<1>2. CASE Listen(n)
  BY <1>2, EntryStays, JobStays, WireStays, Zenon DEF Listen, network, PeerInv, QueueTypes
<1>3. CASE Start(n) \/ SeedFails(n) \/ Started(n) \/ SetServices(n)
  BY <1>3, EntryStays, JobStays, WireStays, Zenon
     DEF Start, SeedFails, Started, SetServices, network, PeerInv, QueueTypes
<1> QED BY <1>1, <1>2, <1>3, Zenon DEF StartUp

(* A new link carries no Join before its dialler sends one. *)
LEMMA OpenKeepsPeer ==
  ASSUME PeerInv, NEW n \in Nodes, NEW m, NEW l \in FreeLinks, Open(n, m, Key(m), l),
         UNCHANGED <<wire, inbox, listening>>, JobInv'
  PROVE  PeerInv'
<1>1. EntryInv' /\ NewLink(n, m, l)
  <2>1. EntryInv /\ listening \subseteq Nodes
    BY Zenon DEF PeerInv
  <2> QED BY <2>1, OpenKeeps, KeyFacts, Zenon
<1>2. \A x \in Links : ends[x] # None => ends'[x] = ends[x]
  BY <1>1, Zenon DEF NewLink
<1>3. JoinNamesDialler'
  BY <1>2, JoinsKept, Zenon DEF PeerInv
<1> QED BY <1>1, <1>3, Zenon DEF PeerInv, QueueTypes

LEMMA SpawnedKeeps ==
  ASSUME PeerInv, NEW n \in Nodes, Spawned(n) PROVE PeerInv'
<1>1. PICK a \in Nodes : DialNode(n, a) \/ DialNodeFails(n, a)
  BY Zenon DEF Spawned
<1>2. CASE \E l \in FreeLinks : DialNode(n, a) /\ Open(n, a, Key(a), l)
  <2>1. PICK l \in FreeLinks : DialNode(n, a) /\ Open(n, a, Key(a), l)
    BY <1>2, Zenon
  <2>2. UNCHANGED <<wire, inbox, listening>> /\ JobInv'
    BY <2>1, JobStays, Zenon DEF DialNode, PeerInv
  <2> QED BY <2>1, <2>2, OpenKeepsPeer, Zenon
<1>3. CASE DialNode(n, a) /\ UNCHANGED <<conns, handles, ends, up, writers>>
  BY <1>3, EntryStays, JobStays, WireStays, Zenon DEF DialNode, PeerInv, QueueTypes
<1>4. CASE DialNodeFails(n, a)
  BY <1>4, EntryStays, JobStays, WireStays, Zenon DEF DialNodeFails, network, PeerInv, QueueTypes
<1> QED BY <1>1, <1>2, <1>3, <1>4, Zenon DEF DialNode

(* A forward() call keeps the node it runs at. *)
LEMMA JobMoves ==
  ASSUME JobInv, NEW m \in Msgs, job[m].pc # "idle",
         NEW j, DOMAIN j = JobFields, j.at = job[m].at, job' = [job EXCEPT ![m] = j]
  PROVE  JobInv'
<1>1. DOMAIN job' = Msgs /\ \A x \in Msgs \ {m} : job'[x] = job[x]
  BY Zenon DEF JobInv
<1>2. job'[m] = j
  BY Zenon DEF JobInv
<1>3. job[m].at \in Nodes
  BY Zenon DEF JobInv
<1> QED BY <1>1, <1>2, <1>3, Zenon DEF JobInv

LEMMA ForwardingKeeps ==
  ASSUME PeerInv, NEW m \in Msgs, Forwarding(m) PROVE PeerInv'
<1> DEFINE n == job[m].at
           k == Key(job[m].to)
<1>1. job[m].pc # "idle" /\ n \in Nodes /\ DOMAIN job[m] = JobFields
  BY Zenon DEF Forwarding, TrySend, RemoveConnection, Reconnect, Resend, Walk, PeerInv, JobInv
<1>2. JobInv'
  <2>1. CASE \E pc : job' = [job EXCEPT ![m].pc = pc]
    <3>0. PICK pc : job' = [job EXCEPT ![m].pc = pc]
      BY <2>1, Zenon
    <3> DEFINE j == [job[m] EXCEPT !.pc = pc]
    <3>1. job' = [job EXCEPT ![m] = j]
      BY <3>0, Zenon
    <3>2. DOMAIN j = JobFields /\ j.at = job[m].at
      BY <1>1, Zenon DEF JobFields
    <3> QED BY <1>1, <3>1, <3>2, JobMoves, Zenon DEF PeerInv
  <2>2. CASE GiveUp(m)
    <3> DEFINE j == [job[m] EXCEPT !.pc = "walk", !.rest = IF @ = None THEN Peers(job[m].at, job[m].to) ELSE @]
    <3>1. job' = [job EXCEPT ![m] = j]
      BY <2>2, Zenon DEF GiveUp
    <3>2. DOMAIN j = JobFields /\ j.at = job[m].at
      BY <1>1, Zenon DEF JobFields
    <3> QED BY <1>1, <3>1, <3>2, JobMoves, Zenon DEF PeerInv
  <2>3. CASE Succeed(m)
    <3> DEFINE j == [job[m] EXCEPT !.pc = "done", !.result = "Delivered"]
    <3>1. job' = [job EXCEPT ![m] = j]
      BY <2>3, Zenon DEF Succeed
    <3>2. DOMAIN j = JobFields /\ j.at = job[m].at
      BY <1>1, Zenon DEF JobFields
    <3> QED BY <1>1, <3>1, <3>2, JobMoves, Zenon DEF PeerInv
  <2>4. CASE Walk(m)
    <3>1. PICK p, r, c, t : \/ job' = [job EXCEPT ![m].pc = c, ![m].to = p, ![m].rest = r]
                           \/ job' = [job EXCEPT ![m].pc = c, ![m].result = t]
      BY <2>4, Zenon DEF Walk
    <3>2. CASE job' = [job EXCEPT ![m].pc = c, ![m].to = p, ![m].rest = r]
      <4> DEFINE j == [job[m] EXCEPT !.pc = c, !.to = p, !.rest = r]
      <4>1. job' = [job EXCEPT ![m] = j]
        BY <3>2, Zenon
      <4>2. DOMAIN j = JobFields /\ j.at = job[m].at
        BY <1>1, Zenon DEF JobFields
      <4> QED BY <1>1, <4>1, <4>2, JobMoves, Zenon DEF PeerInv
    <3>3. CASE job' = [job EXCEPT ![m].pc = c, ![m].result = t]
      <4> DEFINE j == [job[m] EXCEPT !.pc = c, !.result = t]
      <4>1. job' = [job EXCEPT ![m] = j]
        BY <3>3, Zenon
      <4>2. DOMAIN j = JobFields /\ j.at = job[m].at
        BY <1>1, Zenon DEF JobFields
      <4> QED BY <1>1, <4>1, <4>2, JobMoves, Zenon DEF PeerInv
    <3> QED BY <3>1, <3>2, <3>3, Zenon
  <2> QED BY <2>1, <2>2, <2>3, <2>4, Zenon
          DEF Forwarding, TrySend, RemoveConnection, Reconnect, Resend
<1>3. CASE Succeed(m) /\ UNCHANGED <<inbox, conns, listening, ends>>
  <2>1. wire' \in [Wires -> Seq(Messages)] /\ JoinNamesDialler'
    BY <1>3, PutKeeps, MessageFacts, Zenon DEF Succeed, PeerInv
  <2> QED BY <1>2, <1>3, <2>1, EntryStays, Zenon DEF PeerInv, QueueTypes
<1>4. CASE UNCHANGED <<wire, inbox, conns, listening, ends>>
  BY <1>2, <1>4, EntryStays, WireStays, Zenon DEF PeerInv, QueueTypes
<1>5. CASE TrySend(m) \/ Resend(m) \/ Walk(m)
  BY <1>3, <1>4, <1>5, Zenon DEF TrySend, Resend, Walk, node, network
<1>6. CASE RemoveConnection(m)
  <2>1. wire' \in [Wires -> Seq(Messages)] /\ \A w \in Wires : wire'[w] = << >> \/ wire'[w] = wire[w]
    BY <1>6 DEF RemoveConnection, PeerInv, QueueTypes
  <2>2. JoinNamesDialler'
    BY <1>6, <2>1, EmptyKeeps, Zenon DEF RemoveConnection, PeerInv
  <2>3. EntryInv'
    <3>1. UNCHANGED ends /\ DOMAIN conns' = Nodes
      BY <1>6, Zenon DEF RemoveConnection, PeerInv, EntryInv
    <3>2. ASSUME NEW p \in Nodes, NEW q \in DOMAIN conns'[p]
          PROVE  q \in DOMAIN conns[p] /\ conns'[p][q] = conns[p][q]
      BY <1>6, <1>1, Zenon DEF RemoveConnection, PeerInv, EntryInv
    <3>3. ASSUME NEW p \in Nodes, NEW q \in DOMAIN conns'[p]
          PROVE  /\ conns'[p][q] \in Links /\ ends'[conns'[p][q]] # None
                 /\ {ends'[conns'[p][q]].from, ends'[conns'[p][q]].to} = {p, q[2]}
      <4>1. /\ conns[p][q] \in Links /\ ends[conns[p][q]] # None
            /\ {ends[conns[p][q]].from, ends[conns[p][q]].to} = {p, q[2]}
        BY <3>2, ZenonT(40) DEF PeerInv, EntryInv
      <4> QED BY <3>1, <3>2, <4>1, Zenon
    <3>4. ends' \in [Links -> {None} \cup [from : Nodes, to : Nodes]]
      BY <3>1, Zenon DEF PeerInv, EntryInv
    <3> QED BY <3>1, <3>3, <3>4, Zenon DEF EntryInv
  <2> QED BY <1>6, <1>2, <2>1, <2>2, <2>3, ZenonT(40) DEF RemoveConnection, PeerInv, QueueTypes
<1>7. CASE Reconnect(m)
  <2>1. CASE \E l \in FreeLinks : Open(n, job[m].to, k, l)
    <3>1. PICK l \in FreeLinks : Open(n, job[m].to, Key(job[m].to), l)
      BY <2>1, Zenon
    <3>2. UNCHANGED <<wire, inbox, listening>>
      BY <1>7, Zenon DEF Reconnect
    <3> QED BY <1>1, <1>2, <3>1, <3>2, OpenKeepsPeer, Zenon
  <2>2. CASE UNCHANGED <<conns, handles, ends, up, writers>>
    BY <1>4, <1>7, <2>2, Zenon DEF Reconnect
  <2> QED BY <1>7, <2>1, <2>2, Zenon DEF Reconnect
<1> QED BY <1>5, <1>6, <1>7, Zenon DEF Forwarding

LEMMA CrashKeeps ==
  ASSUME PeerInv, NEW n \in Nodes, Crash(n) PROVE PeerInv'
<1>1. wire' \in [Wires -> Seq(Messages)] /\ \A w \in Wires : wire'[w] = << >> \/ wire'[w] = wire[w]
  <2>1. PICK lost : wire' = [w \in Wires |-> IF w[1] \in lost THEN << >> ELSE wire[w]]
    BY Zenon DEF Crash
  <2> QED BY <2>1 DEF PeerInv, QueueTypes
<1>2. JoinNamesDialler'
  BY <1>1, EmptyKeeps, Zenon DEF Crash, PeerInv
<1>3. inbox' \in [Nodes -> Seq(Messages)] /\ listening' \subseteq Nodes
  <2>1. inbox' = [inbox EXCEPT ![n] = << >>] /\ listening' = listening \ {n}
    BY Zenon DEF Crash
  <2> QED BY <2>1 DEF PeerInv, QueueTypes
<1>4. EntryInv'
  <2>1. UNCHANGED ends /\ DOMAIN conns' = Nodes /\ conns'[n] = << >>
        /\ \A p \in Nodes \ {n} : conns'[p] = conns[p]
    BY Zenon DEF Crash, PeerInv, EntryInv
  <2>2. \A p \in Nodes : \A q \in DOMAIN conns'[p] :
          q \in DOMAIN conns[p] /\ conns'[p][q] = conns[p][q]
    BY <2>1
  <2>3. ASSUME NEW p \in Nodes, NEW q \in DOMAIN conns'[p]
        PROVE  /\ conns'[p][q] \in Links /\ ends'[conns'[p][q]] # None
               /\ {ends'[conns'[p][q]].from, ends'[conns'[p][q]].to} = {p, q[2]}
    <3>1. /\ conns[p][q] \in Links /\ ends[conns[p][q]] # None
          /\ {ends[conns[p][q]].from, ends[conns[p][q]].to} = {p, q[2]}
      BY <2>2, ZenonT(40) DEF PeerInv, EntryInv
    <3> QED BY <2>1, <2>2, <3>1, Zenon
  <2>4. ends' \in [Links -> {None} \cup [from : Nodes, to : Nodes]]
    BY <2>1, Zenon DEF PeerInv, EntryInv
  <2> QED BY <2>1, <2>3, <2>4, Zenon DEF EntryInv
<1>5. JobInv'
  <2>1. DOMAIN job' = Msgs
    BY Zenon DEF Crash
  <2>2. ASSUME NEW m \in Msgs
        PROVE  DOMAIN job'[m] = JobFields /\ (job'[m].pc # "idle" => job'[m].at \in Nodes)
    <3>1. CASE job'[m] = job[m]
      BY <3>1, Zenon DEF PeerInv, JobInv
    <3>2. CASE job[m].at = n /\ job'[m] = [job[m] EXCEPT !.pc = "done", !.result = "Crashed"]
      <4>1. DOMAIN job[m] = JobFields
        BY Zenon DEF PeerInv, JobInv
      <4> QED BY <3>2, <4>1, Zenon DEF JobFields
    <3> QED BY <3>1, <3>2, Zenon DEF Crash
  <2> QED BY <2>1, <2>2, Zenon DEF JobInv
<1> QED BY <1>1, <1>2, <1>3, <1>4, <1>5, Zenon DEF PeerInv, QueueTypes

LEMMA PublishKeeps ==
  ASSUME PeerInv, NEW m \in Msgs, NEW n \in Nodes, Publish(m, n) PROVE PeerInv'
<1>1. PICK c, t, r : job' = [job EXCEPT ![m] = [pc |-> c, at |-> n, to |-> t, rest |-> None,
                                                result |-> r]]
  BY Zenon DEF Publish
<1>2. JobInv'
  BY <1>1, Zenon DEF PeerInv, JobInv, JobFields
<1> QED BY <1>2, EntryStays, WireStays, Zenon DEF Publish, node, network, PeerInv, QueueTypes

LEMMA StepPeer == PeerInv /\ [Next]_vars => PeerInv'
<1> SUFFICES ASSUME PeerInv, [Next]_vars PROVE PeerInv'
  OBVIOUS
<1>1. ASSUME NEW n \in Nodes, StartUp(n) \/ Handle(n) \/ Spawned(n) \/ Crash(n) PROVE PeerInv'
  BY <1>1, StartUpKeeps, HandleKeeps, SpawnedKeeps, CrashKeeps, Zenon
<1>2. ASSUME NEW l \in Links, HandleIncoming(l) \/ ReadLoop(l) PROVE PeerInv'
  BY <1>2, HandleIncomingKeeps, ReadLoopKeeps, Zenon
<1>3. ASSUME NEW l \in Links, Break(l) PROVE PeerInv'
  <2>1. wire' \in [Wires -> Seq(Messages)] /\ \A w \in Wires : wire'[w] = << >> \/ wire'[w] = wire[w]
    <3>1. wire' = [wire EXCEPT ![<<l, "out">>] = << >>, ![<<l, "back">>] = << >>]
      BY <1>3, Zenon DEF Break
    <3> DEFINE half == [wire EXCEPT ![<<l, "out">>] = << >>]
    <3>2. half \in [Wires -> Seq(Messages)] /\ \A w \in Wires : half[w] = << >> \/ half[w] = wire[w]
      BY Emptied, Zenon DEF PeerInv, QueueTypes
    <3>3. wire' = [half EXCEPT ![<<l, "back">>] = << >>]
      BY <3>1, Zenon
    <3> HIDE DEF half
    <3>4. wire' \in [Wires -> Seq(Messages)] /\ \A w \in Wires : wire'[w] = << >> \/ wire'[w] = half[w]
      BY <3>2, <3>3, Emptied, Zenon
    <3> QED BY <3>2, <3>4, Zenon
  <2>2. JoinNamesDialler'
    BY <1>3, <2>1, EmptyKeeps, Zenon DEF Break, PeerInv
  <2> QED BY <1>3, <2>1, <2>2, EntryStays, JobStays, Zenon DEF Break, node, PeerInv, QueueTypes
<1>4. ASSUME NEW w \in Wires, WriterEnds(w) PROVE PeerInv'
  BY <1>4, EntryStays, JobStays, WireStays, Zenon DEF WriterEnds, node, PeerInv, QueueTypes
<1>5. ASSUME NEW m \in Msgs, Forwarding(m) \/ \E n \in Nodes : Publish(m, n) PROVE PeerInv'
  BY <1>5, ForwardingKeeps, PublishKeeps, Zenon
<1>6. CASE UNCHANGED vars
  BY <1>6, EntryStays, JobStays, WireStays, Zenon DEF vars, node, network, PeerInv, QueueTypes
<1> QED BY <1>1, <1>2, <1>3, <1>4, <1>5, <1>6, Zenon DEF Next

(* A sender in the table of a node leads to the node its key names, for    *)
(* every number of nodes, links, messages and faults                       *)
(* (ClusterTransport::connections).                                        *)
THEOREM EntriesLeadToPeers == Spec => []EntryLeadsToPeer
<1>1. PeerInv => EntryLeadsToPeer
  BY Zenon DEF PeerInv, EntryInv, EntryLeadsToPeer
<1> QED BY <1>1, InitPeer, StepPeer, PTL DEF Spec

-----------------------------------------------------------------------------
(* Copies of a message.  A queue is the content of a wire or of an inbox.   *)

Holds(q, m) == \E i \in DOMAIN q : q[i] = Forward(m)

Once(q, m) == \A i, j \in DOMAIN q : q[i] = Forward(m) /\ q[j] = Forward(m) => i = j

(* No queue holds a message twice, no two queues hold it, and none does    *)
(* once it was handed out or unless its publisher was told Delivered.      *)
CopyInvOf(m) ==
  /\ \A w \in Wires : Once(wire[w], m)
  /\ \A n \in Nodes : Once(inbox[n], m)
  /\ \A v, w \in Wires : Holds(wire[v], m) /\ Holds(wire[w], m) => v = w
  /\ \A n, p \in Nodes : Holds(inbox[n], m) /\ Holds(inbox[p], m) => n = p
  /\ \A w \in Wires, n \in Nodes : ~(Holds(wire[w], m) /\ Holds(inbox[n], m))
  /\ \A w \in Wires : Holds(wire[w], m) => seen[m] = 0 /\ job[m].result = "Delivered"
  /\ \A n \in Nodes : Holds(inbox[n], m) => seen[m] = 0 /\ job[m].result = "Delivered"
  /\ seen[m] \in {0, 1} /\ (seen[m] = 1 => job[m].result = "Delivered")
  /\ job[m].result = "Delivered" => job[m].pc = "done"

CopyInv == DOMAIN seen = Msgs /\ \A m \in Msgs : CopyInvOf(m)

(* Of m, the queue r has at most what the queue q has. *)
Fades(q, r, m) == (Once(q, m) => Once(r, m)) /\ (Holds(r, m) => Holds(q, m))

LEMMA SameFades == \A q, m : Fades(q, q, m)
  BY Zenon DEF Fades

LEMMA EmptyFades == \A q, m : Fades(q, << >>, m)
<1>1. DOMAIN << >> = {}
  OBVIOUS
<1> QED BY <1>1, Zenon DEF Fades, Once, Holds

LEMMA QueueTail ==
  ASSUME NEW q \in Seq(Messages), q # << >>, NEW m
  PROVE  /\ Fades(q, Tail(q), m)
         /\ Head(q) = Forward(m) => Holds(q, m)
         /\ Head(q) = Forward(m) /\ Once(q, m) => ~Holds(Tail(q), m)
<1>1. \A i \in DOMAIN Tail(q) : i \in Nat /\ i + 1 \in DOMAIN q /\ Tail(q)[i] = q[i + 1] /\ i + 1 # 1
  OBVIOUS
<1>2. 1 \in DOMAIN q /\ Head(q) = q[1]
  OBVIOUS
<1>3. \A i, j \in DOMAIN Tail(q) : i + 1 = j + 1 => i = j
  BY <1>1
<1>4. Once(q, m) => Once(Tail(q), m)
  BY <1>1, <1>3, Zenon DEF Once
<1>5. Holds(Tail(q), m) => Holds(q, m)
  BY <1>1, Zenon DEF Holds
<1>6. Head(q) = Forward(m) => Holds(q, m)
  BY <1>2, Zenon DEF Holds
<1>7. Head(q) = Forward(m) /\ Once(q, m) => ~Holds(Tail(q), m)
  BY <1>1, <1>2, Zenon DEF Holds, Once
<1> QED BY <1>4, <1>5, <1>6, <1>7, Zenon DEF Fades

LEMMA QueueAppend ==
  ASSUME NEW q \in Seq(Messages), NEW x \in Messages, NEW m
  PROVE  /\ x # Forward(m) => Fades(q, Append(q, x), m)
         /\ ~Holds(q, m) => Once(Append(q, x), m)
<1> DEFINE r == Append(q, x)
           e == Len(q) + 1
<1>1. \A i \in DOMAIN r : i = e \/ (i \in DOMAIN q /\ r[i] = q[i])
  OBVIOUS
<1>2. r[e] = x
  OBVIOUS
<1> HIDE DEF r, e
<1>3. x # Forward(m) => Fades(q, r, m)
  BY <1>1, <1>2, Zenon DEF Fades, Once, Holds
<1>4. ~Holds(q, m) => Once(r, m)
  BY <1>1, <1>2, Zenon DEF Once, Holds
<1> QED BY <1>3, <1>4, Zenon DEF r

(* The message is where it was, or gone from there, and it is neither      *)
(* handed out nor reported.                                                *)
LEMMA CopiesFade ==
  ASSUME NEW m \in Msgs, CopyInvOf(m),
         \A w \in Wires : Fades(wire[w], wire'[w], m),
         \A n \in Nodes : Fades(inbox[n], inbox'[n], m),
         seen'[m] = seen[m],
         job'[m].result = "Delivered" <=> job[m].result = "Delivered",
         job[m].result = "Delivered" => job'[m].pc = "done"
  PROVE  CopyInvOf(m)'
<1>1. (\A w \in Wires : Once(wire'[w], m)) /\ \A n \in Nodes : Once(inbox'[n], m)
  BY Zenon DEF CopyInvOf, Fades
<1>2. /\ \A w \in Wires : Holds(wire'[w], m) => Holds(wire[w], m)
      /\ \A n \in Nodes : Holds(inbox'[n], m) => Holds(inbox[n], m)
  BY Zenon DEF Fades
<1>3. \A v, w \in Wires : Holds(wire'[v], m) /\ Holds(wire'[w], m) => v = w
  BY <1>2, Zenon DEF CopyInvOf
<1>4. \A n, p \in Nodes : Holds(inbox'[n], m) /\ Holds(inbox'[p], m) => n = p
  BY <1>2, Zenon DEF CopyInvOf
<1>5. \A w \in Wires, n \in Nodes : ~(Holds(wire'[w], m) /\ Holds(inbox'[n], m))
  BY <1>2, Zenon DEF CopyInvOf
<1>6. \A w \in Wires : Holds(wire'[w], m) => seen'[m] = 0 /\ job'[m].result = "Delivered"
  BY <1>2, Zenon DEF CopyInvOf
<1>7. \A n \in Nodes : Holds(inbox'[n], m) => seen'[m] = 0 /\ job'[m].result = "Delivered"
  BY <1>2, Zenon DEF CopyInvOf
<1>8. /\ seen'[m] \in {0, 1} /\ (seen'[m] = 1 => job'[m].result = "Delivered")
      /\ job'[m].result = "Delivered" => job'[m].pc = "done"
  BY Zenon DEF CopyInvOf
<1> QED BY <1>1, <1>3, <1>4, <1>5, <1>6, <1>7, <1>8, Zenon DEF CopyInvOf, Once, Holds, Forward

(* The first message of a wire is moved to an inbox. *)
LEMMA ReadMoves ==
  ASSUME QueueTypes, CopyInv, NEW w \in Wires, NEW n \in Nodes, wire[w] # << >>,
         wire' = [wire EXCEPT ![w] = Tail(wire[w])],
         inbox' = [inbox EXCEPT ![n] = Append(inbox[n], Head(wire[w]))],
         UNCHANGED <<seen, job>>
  PROVE  CopyInv'
<1> DEFINE x == Head(wire[w])
<1>1. wire[w] \in Seq(Messages) /\ inbox[n] \in Seq(Messages) /\ x \in Messages
  <2>1. wire[w] \in Seq(Messages) /\ inbox[n] \in Seq(Messages)
    BY Zenon DEF QueueTypes
  <2> QED BY <2>1
<1>2. /\ wire'[w] = Tail(wire[w]) /\ \A v \in Wires \ {w} : wire'[v] = wire[v]
      /\ inbox'[n] = Append(inbox[n], x) /\ \A p \in Nodes \ {n} : inbox'[p] = inbox[p]
  BY Zenon DEF QueueTypes
<1>3. seen' = seen /\ job' = job
  OBVIOUS
<1> HIDE DEF x
<1>4. ASSUME NEW m \in Msgs PROVE CopyInvOf(m)'
  <2>1. CopyInvOf(m)
    BY Zenon DEF CopyInv
  <2>2. \A v \in Wires : Fades(wire[v], wire'[v], m)
    BY <1>1, <1>2, SameFades, QueueTail, Zenon
  <2>3. CASE x # Forward(m)
    <3>1. \A p \in Nodes : Fades(inbox[p], inbox'[p], m)
      BY <1>1, <1>2, <2>3, SameFades, QueueAppend, Zenon
    <3> QED BY <1>3, <2>1, <2>2, <3>1, CopiesFade, ZenonT(40) DEF CopyInvOf
  <2>4. CASE x = Forward(m)
    <3>1. Holds(wire[w], m) /\ Once(wire[w], m) /\ ~Holds(Tail(wire[w]), m)
      BY <1>1, <2>1, <2>4, QueueTail, Zenon DEF x, CopyInvOf
    <3>2. /\ \A p \in Nodes : ~Holds(inbox[p], m)
          /\ \A v \in Wires \ {w} : ~Holds(wire[v], m)
      BY <2>1, <3>1, Zenon DEF CopyInvOf
    <3>3. ASSUME NEW v \in Wires PROVE ~Holds(wire'[v], m) /\ Once(wire'[v], m)
      <4>1. Once(wire[v], m) /\ Fades(wire[v], wire'[v], m)
        BY <2>1, <2>2, Zenon DEF CopyInvOf
      <4>2. CASE v = w
        BY <4>1, <4>2, <1>2, <3>1, Zenon DEF Fades
      <4>3. CASE v # w
        BY <4>1, <4>3, <3>2, Zenon DEF Fades
      <4> QED BY <4>2, <4>3, Zenon
    <3>4. \A p \in Nodes : Once(inbox'[p], m) /\ (Holds(inbox'[p], m) => p = n)
      BY <1>1, <1>2, <2>1, <3>2, QueueAppend, ZenonT(40) DEF CopyInvOf
    <3>5. /\ seen'[m] = 0 /\ job'[m].result = "Delivered" /\ job'[m].pc = "done"
      BY <1>3, <2>1, <3>1, Zenon DEF CopyInvOf
    <3> QED BY <3>3, <3>4, <3>5, Zenon DEF CopyInvOf, Once, Holds, Forward
  <2> QED BY <2>3, <2>4, Zenon
<1> QED BY <1>3, <1>4, Zenon DEF CopyInv

(* Every message is where it was, or gone from there. *)
LEMMA AllFade ==
  ASSUME CopyInv, \A m \in Msgs, w \in Wires : Fades(wire[w], wire'[w], m),
         \A m \in Msgs, n \in Nodes : Fades(inbox[n], inbox'[n], m), UNCHANGED seen,
         \A m \in Msgs : /\ job'[m].result = "Delivered" <=> job[m].result = "Delivered"
                         /\ job[m].result = "Delivered" => job'[m].pc = "done"
  PROVE  CopyInv'
<1>1. DOMAIN seen' = Msgs /\ \A m \in Msgs : seen'[m] = seen[m]
  BY Zenon DEF CopyInv
<1>2. ASSUME NEW m \in Msgs PROVE CopyInvOf(m)'
  <2>1. CopyInvOf(m)
    BY Zenon DEF CopyInv
  <2> QED BY <1>1, <2>1, CopiesFade, Zenon
<1> QED BY <1>1, <1>2, Zenon DEF CopyInv

(* The same, when no forward() call moves. *)
LEMMA QueuesFade ==
  ASSUME CopyInv, \A m \in Msgs, w \in Wires : Fades(wire[w], wire'[w], m),
         \A m \in Msgs, n \in Nodes : Fades(inbox[n], inbox'[n], m), UNCHANGED <<seen, job>>
  PROVE  CopyInv'
<1>1. \A m \in Msgs : job[m].result = "Delivered" => job[m].pc = "done"
  BY Zenon DEF CopyInv, CopyInvOf
<1> QED BY <1>1, AllFade, Zenon

(* A message other than a Forward is handed to a writer. *)
LEMMA PutFades ==
  ASSUME QueueTypes, NEW n, NEW k, NEW x \in Messages, NEW m, x # Forward(m),
         wire' = Put(n, k, x)
  PROVE  \A w \in Wires : Fades(wire[w], wire'[w], m)
<1> DEFINE v == WireOf(n, conns[n][k])
<1>1. \/ wire' = wire
      \/ v \in Wires /\ wire' = [wire EXCEPT ![v] = Append(wire[v], x)]
  BY Zenon DEF Put, QueueTypes
<1> HIDE DEF v
<1>2. CASE wire' = wire
  BY <1>2, SameFades, Zenon
<1>3. CASE v \in Wires /\ wire' = [wire EXCEPT ![v] = Append(wire[v], x)]
  <2>1. wire[v] \in Seq(Messages) /\ wire'[v] = Append(wire[v], x)
        /\ \A w \in Wires \ {v} : wire'[w] = wire[w]
    BY <1>3, Zenon DEF QueueTypes
  <2> QED BY <2>1, SameFades, QueueAppend, Zenon
<1> QED BY <1>1, <1>2, <1>3, Zenon

(* The message a handler takes leaves the inbox. *)
LEMMA ConsumeFades ==
  ASSUME QueueTypes, NEW n \in Nodes, NEW type, Next1(n, type), Consume(n)
  PROVE  \A m, p : p \in Nodes => Fades(inbox[p], inbox'[p], m)
<1>1. inbox[n] \in Seq(Messages) /\ inbox[n] # << >>
  BY Zenon DEF QueueTypes, Next1
<1>2. inbox'[n] = Tail(inbox[n]) /\ \A p \in Nodes \ {n} : inbox'[p] = inbox[p]
  BY Zenon DEF QueueTypes, Consume
<1> QED BY <1>1, <1>2, SameFades, QueueTail, ZenonT(40)

LEMMA ForwardFacts ==
  /\ \A x \in Messages : x.type = "Forward" => x.of \in Msgs /\ x = Forward(x.of)
  /\ \A n, m : Join(n) # Forward(m) /\ NodeList(n) # Forward(m)
  /\ \A m, p : Forward(m) = Forward(p) => m = p
<1>1. \A n, m : Join(n) # Forward(m) /\ NodeList(n) # Forward(m)
  BY DEF Join, NodeList, Forward
<1>2. \A m, p : Forward(m) = Forward(p) => m = p
  BY DEF Forward
<1>3. \A m : Forward(m).of = m /\ Join(m).type # "Forward" /\ NodeList(m).type # "Forward"
  BY DEF Join, NodeList, Forward
<1>4. \A msg \in Messages : \/ \E n \in Nodes : msg = Join(n) \/ msg = NodeList(n)
                            \/ \E m \in Msgs : msg = Forward(m)
  BY Zenon DEF Messages
<1>5. \A x \in Messages : x.type = "Forward" => \E m \in Msgs : x = Forward(m)
  BY <1>3, <1>4
<1>6. \A x \in Messages : x.type = "Forward" => x.of \in Msgs /\ x = Forward(x.of)
  BY <1>3, <1>5
<1> QED BY <1>1, <1>2, <1>6

(* deliver() hands the message out, and then it is nowhere else, or drops  *)
(* it.                                                                     *)
LEMMA HandleForwardCopies ==
  ASSUME QueueTypes, CopyInv, NEW n \in Nodes, HandleForward(n) PROVE CopyInv'
<1>1. /\ inbox[n] \in Seq(Messages) /\ inbox[n] # << >> /\ Next1(n, "Forward") /\ Consume(n)
      /\ wire' = wire /\ job' = job
      /\ \/ seen' = seen
         \/ seen' = [seen EXCEPT ![Head(inbox[n]).of] = seen[Head(inbox[n]).of] + 1]
  BY Zenon DEF HandleForward, Deliver, QueueTypes, Next1, network
<1>2. PICK x \in Msgs : Head(inbox[n]) = Forward(x) /\ Head(inbox[n]).of = x
  BY <1>1, ConsumeKeeps, ForwardFacts, Zenon
<1>3. \A m \in Msgs, p \in Nodes : Fades(inbox[p], inbox'[p], m)
  BY <1>1, ConsumeFades, Zenon
<1>4. \A m \in Msgs, w \in Wires : Fades(wire[w], wire'[w], m)
  BY <1>1, SameFades, Zenon
<1>5. CASE seen' = seen
  BY <1>1, <1>3, <1>4, <1>5, QueuesFade, ZenonT(40)
<1>6. CASE seen' = [seen EXCEPT ![x] = seen[x] + 1]
  <2>1. DOMAIN seen' = Msgs /\ seen'[x] = seen[x] + 1 /\ \A m \in Msgs \ {x} : seen'[m] = seen[m]
    BY <1>2, <1>6, Zenon DEF CopyInv
  <2>2. ASSUME NEW m \in Msgs \ {x} PROVE CopyInvOf(m)'
    <3>1. CopyInvOf(m) /\ seen'[m] = seen[m]
      BY <2>1, Zenon DEF CopyInv
    <3> QED BY <1>1, <1>3, <1>4, <3>1, CopiesFade, Zenon DEF CopyInvOf
  <2>3. CopyInvOf(x)'
    <3>1. CopyInvOf(x)
      BY <1>2, Zenon DEF CopyInv
    <3>2. Holds(inbox[n], x) /\ ~Holds(Tail(inbox[n]), x) /\ inbox'[n] = Tail(inbox[n])
      <4>1. Once(inbox[n], x) /\ inbox'[n] = Tail(inbox[n])
        BY <1>1, <3>1, Zenon DEF CopyInvOf, Consume, QueueTypes
      <4> QED BY <1>1, <1>2, <4>1, QueueTail, Zenon
    <3>3. \A w \in Wires : Once(wire'[w], x) /\ ~Holds(wire'[w], x)
      BY <1>1, <3>1, <3>2, Zenon DEF CopyInvOf
    <3>4. ASSUME NEW p \in Nodes PROVE Once(inbox'[p], x) /\ ~Holds(inbox'[p], x)
      <4>1. Once(inbox[p], x) /\ Fades(inbox[p], inbox'[p], x)
        BY <1>2, <1>3, <3>1, Zenon DEF CopyInvOf
      <4>2. CASE p = n
        BY <4>1, <4>2, <3>2, Zenon DEF Fades
      <4>3. CASE p # n
        BY <4>1, <4>3, <3>1, <3>2, Zenon DEF Fades, CopyInvOf
      <4> QED BY <4>2, <4>3, Zenon
    <3>5. seen[x] = 0 /\ job'[x].result = "Delivered" /\ job'[x].pc = "done"
      BY <1>1, <3>1, <3>2, Zenon DEF CopyInvOf
    <3>6. seen'[x] = 1
      BY <2>1, <3>5
    <3> QED BY <3>3, <3>4, <3>5, <3>6, Zenon DEF CopyInvOf, Once, Holds, Forward
  <2> QED BY <2>1, <2>2, <2>3, Zenon DEF CopyInv
<1> QED BY <1>1, <1>2, <1>5, <1>6, Zenon

(* A message is queued on a writer, and its publisher told so. *)
LEMMA SucceedCopies ==
  ASSUME QueueTypes, JobInv, CopyInv, NEW m \in Msgs, job[m].pc # "done", Succeed(m),
         UNCHANGED <<inbox, seen>>
  PROVE  CopyInv'
<1> DEFINE v == WireOf(job[m].at, conns[job[m].at][Key(job[m].to)])
<1>1. /\ job' = [job EXCEPT ![m].pc = "done", ![m].result = "Delivered"]
      /\ wire' = Put(job[m].at, Key(job[m].to), Forward(m)) /\ inbox' = inbox /\ seen' = seen
  BY Zenon DEF Succeed
<1>2. /\ job'[m].pc = "done" /\ job'[m].result = "Delivered"
      /\ \A x \in Msgs \ {m} : job'[x] = job[x]
  BY <1>1, Zenon DEF JobInv, JobFields
<1>3. Forward(m) \in Messages /\ \A x \in Msgs \ {m} : Forward(m) # Forward(x)
  BY MessageFacts, ForwardFacts, Zenon
<1>4. ASSUME NEW x \in Msgs \ {m} PROVE CopyInvOf(x)'
  <2>1. CopyInvOf(x) /\ seen'[x] = seen[x] /\ job'[x] = job[x]
    BY <1>1, <1>2, Zenon DEF CopyInv
  <2>2. \A w \in Wires : Fades(wire[w], wire'[w], x)
    BY <1>1, <1>3, PutFades, Zenon
  <2>3. \A n \in Nodes : Fades(inbox[n], inbox'[n], x)
    BY <1>1, SameFades, Zenon
  <2> QED BY <2>1, <2>2, <2>3, CopiesFade, Zenon DEF CopyInvOf
<1>5. CopyInvOf(m)'
  <2>1. CopyInvOf(m)
    BY Zenon DEF CopyInv
  <2>2. /\ \A w \in Wires : ~Holds(wire[w], m) /\ Once(wire[w], m)
        /\ \A n \in Nodes : ~Holds(inbox'[n], m) /\ Once(inbox'[n], m)
        /\ seen'[m] = 0
    BY <1>1, <2>1, Zenon DEF CopyInvOf
  <2>3. \/ wire' = wire
        \/ v \in Wires /\ wire' = [wire EXCEPT ![v] = Append(wire[v], Forward(m))]
    BY <1>1, Zenon DEF Put, QueueTypes
  <2>4. PICK u : \A w \in Wires : Once(wire'[w], m) /\ (Holds(wire'[w], m) => w = u)
    <3> HIDE DEF v
    <3>1. CASE wire' = wire
      BY <3>1, <2>2, Zenon
    <3>2. CASE v \in Wires /\ wire' = [wire EXCEPT ![v] = Append(wire[v], Forward(m))]
      <4>1. wire[v] \in Seq(Messages) /\ wire'[v] = Append(wire[v], Forward(m))
            /\ \A w \in Wires \ {v} : wire'[w] = wire[w]
        BY <3>2, Zenon DEF QueueTypes
      <4>2. Once(wire'[v], m)
        BY <4>1, <3>2, <1>3, <2>2, QueueAppend, Zenon
      <4>3. \A w \in Wires : Once(wire'[w], m) /\ (Holds(wire'[w], m) => w = v)
        BY <4>1, <4>2, <2>2, Zenon
      <4> QED BY <4>3, Zenon
    <3> QED BY <2>3, <3>1, <3>2, Zenon
  <2> QED BY <1>2, <2>2, <2>4, Zenon DEF CopyInvOf, Once, Holds, Forward
<1>6. DOMAIN seen' = Msgs
  BY <1>1, Zenon DEF CopyInv
<1> QED BY <1>4, <1>5, <1>6, Zenon DEF CopyInv

(* No publisher is told Delivered. *)
ReportsStay ==
  \A m \in Msgs : /\ job'[m].result = "Delivered" <=> job[m].result = "Delivered"
                  /\ job[m].result = "Delivered" => job'[m].pc = "done"

LEMMA CallMoves ==
  ASSUME JobInv, CopyInv, NEW m \in Msgs, job[m].pc # "done",
         NEW j, j.result = job[m].result \/ j.result # "Delivered", job' = [job EXCEPT ![m] = j]
  PROVE  ReportsStay
<1>1. \A x \in Msgs : job[x].result = "Delivered" => job[x].pc = "done"
  BY Zenon DEF CopyInv, CopyInvOf
<1>2. job'[m] = j /\ \A x \in Msgs \ {m} : job'[x] = job[x]
  BY Zenon DEF JobInv
<1>3. j.result # "Delivered"
  BY <1>1, Zenon
<1> QED BY <1>1, <1>2, <1>3, Zenon DEF ReportsStay

(* Some queues are emptied, and no forward() call succeeds. *)
LEMMA EmptyCopies ==
  ASSUME CopyInv, ReportsStay, UNCHANGED seen,
         \A w \in Wires : wire'[w] = << >> \/ wire'[w] = wire[w],
         \A n \in Nodes : inbox'[n] = << >> \/ inbox'[n] = inbox[n]
  PROVE  CopyInv'
<1>1. \A m \in Msgs, w \in Wires : Fades(wire[w], wire'[w], m)
  BY EmptyFades, SameFades, Zenon
<1>2. \A m \in Msgs, n \in Nodes : Fades(inbox[n], inbox'[n], m)
  BY EmptyFades, SameFades, Zenon
<1> QED BY <1>1, <1>2, AllFade, Zenon DEF ReportsStay

LEMMA ForwardingCopies ==
  ASSUME PeerInv, CopyInv, NEW m \in Msgs, Forwarding(m) PROVE CopyInv'
<1>1. job[m].pc # "done" /\ JobInv /\ QueueTypes /\ DOMAIN job[m] = JobFields
  BY Zenon DEF Forwarding, TrySend, RemoveConnection, Reconnect, Resend, Walk, PeerInv, JobInv
<1>2. UNCHANGED <<inbox, seen>>
  BY Zenon DEF Forwarding, TrySend, RemoveConnection, Reconnect, Resend, Walk, node
<1>3. ASSUME NEW pc, job' = [job EXCEPT ![m].pc = pc] PROVE ReportsStay
  <2> DEFINE j == [job[m] EXCEPT !.pc = pc]
  <2>1. job' = [job EXCEPT ![m] = j] /\ j.result = job[m].result
    BY <1>1, <1>3, Zenon DEF JobFields
  <2> QED BY <1>1, <2>1, CallMoves, Zenon
<1>4. ASSUME GiveUp(m) PROVE ReportsStay
  <2> DEFINE j == [job[m] EXCEPT !.pc = "walk", !.rest = IF @ = None THEN Peers(job[m].at, job[m].to) ELSE @]
  <2>1. job' = [job EXCEPT ![m] = j] /\ j.result = job[m].result
    BY <1>1, <1>4, Zenon DEF JobFields, GiveUp
  <2> QED BY <1>1, <2>1, CallMoves, Zenon
<1>5. ASSUME Walk(m) PROVE ReportsStay
  <2>1. PICK p, r : \/ job' = [job EXCEPT ![m].pc = "send", ![m].to = p, ![m].rest = r]
                    \/ job' = [job EXCEPT ![m].pc = "done", ![m].result = "PeerUnreachable"]
    BY <1>5, Zenon DEF Walk
  <2>2. CASE job' = [job EXCEPT ![m].pc = "send", ![m].to = p, ![m].rest = r]
    <3> DEFINE j == [job[m] EXCEPT !.pc = "send", !.to = p, !.rest = r]
    <3>1. job' = [job EXCEPT ![m] = j] /\ j.result = job[m].result
      BY <1>1, <2>2, Zenon DEF JobFields
    <3> QED BY <1>1, <3>1, CallMoves, Zenon
  <2>3. CASE job' = [job EXCEPT ![m].pc = "done", ![m].result = "PeerUnreachable"]
    <3> DEFINE j == [job[m] EXCEPT !.pc = "done", !.result = "PeerUnreachable"]
    <3>1. job' = [job EXCEPT ![m] = j] /\ j.result # "Delivered"
      BY <1>1, <2>3, Zenon DEF JobFields
    <3> QED BY <1>1, <3>1, CallMoves, Zenon
  <2> QED BY <2>1, <2>2, <2>3, Zenon
<1>6. CASE Succeed(m)
  BY <1>1, <1>2, <1>6, SucceedCopies, Zenon
<1>7. CASE ReportsStay /\ UNCHANGED wire
  BY <1>2, <1>7, EmptyCopies, Zenon
<1>8. CASE TrySend(m)
  BY <1>3, <1>4, <1>6, <1>7, <1>8, ZenonT(40) DEF TrySend
<1>9. CASE Resend(m)
  BY <1>4, <1>6, <1>7, <1>9, Zenon DEF Resend
<1>10. CASE Walk(m)
  BY <1>5, <1>7, <1>10, Zenon DEF Walk, network
<1>11. CASE Reconnect(m)
  BY <1>3, <1>4, <1>7, <1>11, Zenon DEF Reconnect
<1>12. CASE RemoveConnection(m)
  <2>1. \A w \in Wires : wire'[w] = << >> \/ wire'[w] = wire[w]
    BY <1>12, Zenon DEF RemoveConnection
  <2>2. ReportsStay
    BY <1>3, <1>12, Zenon DEF RemoveConnection
  <2> QED BY <1>2, <2>1, <2>2, EmptyCopies, Zenon
<1> QED BY <1>8, <1>9, <1>10, <1>11, <1>12, Zenon DEF Forwarding

LEMMA CrashCopies ==
  ASSUME PeerInv, CopyInv, NEW n \in Nodes, Crash(n) PROVE CopyInv'
<1>1. \A w \in Wires : wire'[w] = << >> \/ wire'[w] = wire[w]
  BY Zenon DEF Crash
<1>2. \A p \in Nodes : inbox'[p] = << >> \/ inbox'[p] = inbox[p]
  BY Zenon DEF Crash, PeerInv, QueueTypes
<1>3. ASSUME NEW m \in Msgs
      PROVE  /\ job'[m].result = "Delivered" <=> job[m].result = "Delivered"
             /\ job[m].result = "Delivered" => job'[m].pc = "done"
  <2>1. job[m].result = "Delivered" => job[m].pc = "done"
    BY Zenon DEF CopyInv, CopyInvOf
  <2>2. CASE job[m].at = n /\ job[m].pc # "done"
    <3>1. job'[m] = [job[m] EXCEPT !.pc = "done", !.result = "Crashed"] /\ DOMAIN job[m] = JobFields
      BY <2>2, Zenon DEF Crash, PeerInv, JobInv
    <3>2. job'[m].result = "Crashed"
      BY <3>1, Zenon DEF JobFields
    <3> QED BY <2>1, <2>2, <3>2, Zenon
  <2>3. CASE ~(job[m].at = n /\ job[m].pc # "done")
    <3>1. job'[m] = job[m]
      BY <2>3, Zenon DEF Crash
    <3> QED BY <2>1, <3>1, Zenon
  <2> QED BY <2>2, <2>3, Zenon
<1>4. ReportsStay /\ UNCHANGED seen
  BY <1>3, Zenon DEF ReportsStay, Crash
<1> QED BY <1>1, <1>2, <1>4, EmptyCopies, Zenon

(* A step that moves no message and no forward() call. *)
LEMMA StillCopies ==
  ASSUME CopyInv, UNCHANGED <<wire, inbox, seen, job>> PROVE CopyInv'
  BY QueuesFade, SameFades, Zenon

LEMMA StartUpCopies ==
  ASSUME QueueTypes, CopyInv, NEW n \in Nodes, StartUp(n) PROVE CopyInv'
<1>1. CASE DialSeed(n)
  <2>1. PICK l \in FreeLinks : wire' = [wire EXCEPT ![<<l, "out">>] = <<Join(n)>>]
    BY <1>1, Zenon DEF DialSeed
  <2>2. \A w \in Wires : wire'[w] = wire[w] \/ wire'[w] = <<Join(n)>>
    BY <2>1, Zenon DEF QueueTypes
  <2>3. \A q, m : Fades(q, <<Join(n)>>, m)
    <3>1. \A i \in DOMAIN <<Join(n)>> : i = 1 /\ <<Join(n)>>[i] = Join(n)
      OBVIOUS
    <3> QED BY <3>1, ForwardFacts, Zenon DEF Fades, Once, Holds
  <2>4. \A m \in Msgs, w \in Wires : Fades(wire[w], wire'[w], m)
    BY <2>2, <2>3, SameFades, Zenon
  <2>5. \A m \in Msgs, p \in Nodes : Fades(inbox[p], inbox'[p], m)
    BY <1>1, SameFades, Zenon DEF DialSeed
  <2> QED BY <1>1, <2>4, <2>5, QueuesFade, Zenon DEF DialSeed
<1>2. CASE Start(n) \/ Listen(n) \/ SeedFails(n) \/ Started(n) \/ SetServices(n)
  BY <1>2, StillCopies, Zenon DEF Start, Listen, SeedFails, Started, SetServices, network
<1> QED BY <1>1, <1>2, Zenon DEF StartUp

LEMMA HandleCopies ==
  ASSUME QueueTypes, CopyInv, NEW n \in Nodes, Handle(n) PROVE CopyInv'
<1>1. CASE HandleJoin(n)
  <2>1. \A m \in Msgs, p \in Nodes : Fades(inbox[p], inbox'[p], m)
    BY <1>1, ConsumeFades, Zenon DEF HandleJoin
  <2>2. \A m \in Msgs, w \in Wires : Fades(wire[w], wire'[w], m)
    <3>1. CASE wire' = wire
      BY <3>1, SameFades, Zenon
    <3>2. CASE wire' = Put(n, Key(Head(inbox[n]).of), NodeList(n))
      BY <3>2, PutFades, MessageFacts, ForwardFacts, ZenonT(40)
    <3> QED BY <1>1, <3>1, <3>2, Zenon DEF HandleJoin
  <2> QED BY <1>1, <2>1, <2>2, QueuesFade, Zenon DEF HandleJoin
<1>2. CASE HandleNodeList(n)
  <2>1. \A m \in Msgs, p \in Nodes : Fades(inbox[p], inbox'[p], m)
    BY <1>2, ConsumeFades, Zenon DEF HandleNodeList
  <2> QED BY <1>2, <2>1, SameFades, QueuesFade, Zenon DEF HandleNodeList, network
<1>3. CASE HandleForward(n)
  BY <1>3, HandleForwardCopies, Zenon
<1> QED BY <1>1, <1>2, <1>3, Zenon DEF Handle

(* A link, with its ends, is read. *)
LEMMA LinkCopies ==
  ASSUME PeerInv, CopyInv, NEW l \in Links, HandleIncoming(l) \/ ReadLoop(l) \/ Break(l)
  PROVE  CopyInv'
<1>1. QueueTypes /\ <<l, "out">> \in Wires /\ <<l, "back">> \in Wires
      /\ (ends[l] # None => ends[l].to \in Nodes /\ ends[l].from \in Nodes)
  <2>1. ends[l] # None => ends[l] \in [from : Nodes, to : Nodes]
    BY Zenon DEF PeerInv, EntryInv
  <2> QED BY <2>1, Zenon DEF PeerInv, Wires
<1>2. CASE HandleIncoming(l)
  BY <1>1, <1>2, ReadMoves, Zenon DEF HandleIncoming
<1>3. CASE ReadLoop(l)
  BY <1>1, <1>3, ReadMoves, Zenon DEF ReadLoop
<1>4. CASE Break(l)
  <2>1. \A w \in Wires : wire'[w] = << >> \/ wire'[w] = wire[w]
    BY <1>4, Zenon DEF Break, PeerInv, QueueTypes
  <2>2. \A m \in Msgs, w \in Wires : Fades(wire[w], wire'[w], m)
    BY <2>1, EmptyFades, SameFades, Zenon
  <2> QED BY <1>4, <2>2, SameFades, QueuesFade, Zenon DEF Break, node
<1> QED BY <1>2, <1>3, <1>4, Zenon

LEMMA PublishCopies ==
  ASSUME PeerInv, CopyInv, NEW m \in Msgs, NEW n \in Nodes, Publish(m, n) PROVE CopyInv'
<1>1. PICK c, t, r : /\ job' = [job EXCEPT ![m] = [pc |-> c, at |-> n, to |-> t, rest |-> None,
                                                   result |-> r]]
                     /\ r = None \/ r = "PeerUnreachable"
  BY Zenon DEF Publish
<1>2. ReportsStay
  BY <1>1, CallMoves, ClusterAssumption, Zenon DEF Publish, PeerInv
<1> QED BY <1>2, EmptyCopies, Zenon DEF Publish, node, network

LEMMA InitCopies == Init => CopyInv
<1> SUFFICES ASSUME Init, NEW m \in Msgs PROVE DOMAIN seen = Msgs /\ CopyInvOf(m)
  BY Zenon DEF Init, CopyInv
<1>1. DOMAIN << >> = {}
  OBVIOUS
<1>2. /\ \A w \in Wires : ~Holds(wire[w], m) /\ Once(wire[w], m)
      /\ \A n \in Nodes : ~Holds(inbox[n], m) /\ Once(inbox[n], m)
  BY <1>1, Zenon DEF Init, Holds, Once
<1>3. seen[m] = 0 /\ job[m].result # "Delivered" /\ DOMAIN seen = Msgs
  BY ClusterAssumption, Zenon DEF Init, NoJob
<1>4. seen[m] \in {0, 1} /\ seen[m] # 1
  BY <1>3
<1> QED BY <1>2, <1>3, <1>4, Zenon DEF CopyInvOf

LEMMA StepCopies == PeerInv /\ CopyInv /\ [Next]_vars => CopyInv'
<1> SUFFICES ASSUME PeerInv, CopyInv, [Next]_vars PROVE CopyInv'
  OBVIOUS
<1>1. ASSUME NEW n \in Nodes, StartUp(n) \/ Handle(n) \/ Crash(n) PROVE CopyInv'
  BY <1>1, StartUpCopies, HandleCopies, CrashCopies, Zenon DEF PeerInv
<1>2. ASSUME NEW n \in Nodes, Spawned(n) PROVE CopyInv'
  BY <1>2, StillCopies, Zenon DEF Spawned, DialNode, DialNodeFails, network
<1>3. ASSUME NEW l \in Links, HandleIncoming(l) \/ ReadLoop(l) \/ Break(l) PROVE CopyInv'
  BY <1>3, LinkCopies, Zenon
<1>4. ASSUME NEW w \in Wires, WriterEnds(w) PROVE CopyInv'
  BY <1>4, StillCopies, Zenon DEF WriterEnds, node
<1>5. ASSUME NEW m \in Msgs, Forwarding(m) \/ \E n \in Nodes : Publish(m, n) PROVE CopyInv'
  BY <1>5, ForwardingCopies, PublishCopies, Zenon
<1>6. CASE UNCHANGED vars
  BY <1>6, StillCopies, Zenon DEF vars, node, network
<1> QED BY <1>1, <1>2, <1>3, <1>4, <1>5, <1>6, Zenon DEF Next

(* What the queues say of the places of a message. *)
LEMMA CopiesCounted ==
  ASSUME NEW m \in Msgs, CopyInvOf(m)
  PROVE  Cardinality(Copies(m)) + seen[m] <= IF job[m].result = "Delivered" THEN 1 ELSE 0
<1>1. ASSUME NEW c \in Copies(m)
      PROVE  \/ \E w \in Wires : \E i \in Found(wire[w], m) : c = <<<<"wire", w>>, i>>
             \/ \E n \in Nodes : \E i \in Found(inbox[n], m) : c = <<<<"inbox", n>>, i>>
  <2>1. \/ \E w \in Wires : c \in {<<"wire", w>>} \X Found(wire[w], m)
        \/ \E n \in Nodes : c \in {<<"inbox", n>>} \X Found(inbox[n], m)
    BY <1>1, Zenon DEF Copies
  <2>2. ASSUME NEW t, NEW S, c \in {t} \X S PROVE \E i \in S : c = <<t, i>>
    BY <2>2
  <2> QED BY <2>1, <2>2, Zenon
<1>2. \A q : \A i \in Found(q, m) : Holds(q, m) /\ (Once(q, m) => \A j \in Found(q, m) : i = j)
  BY Zenon DEF Found, Holds, Once
<1>3. \A v, w \in Wires : \A i \in Found(wire[v], m), j \in Found(wire[w], m) : v = w /\ i = j
  BY <1>2, Zenon DEF CopyInvOf
<1>4. \A n, p \in Nodes : \A i \in Found(inbox[n], m), j \in Found(inbox[p], m) : n = p /\ i = j
  BY <1>2, Zenon DEF CopyInvOf
<1>5. \A w \in Wires, n \in Nodes : Found(wire[w], m) = {} \/ Found(inbox[n], m) = {}
  BY <1>2, Zenon DEF CopyInvOf
<1>6. \A c \in Copies(m) : seen[m] = 0 /\ job[m].result = "Delivered"
  BY <1>1, <1>2, Zenon DEF CopyInvOf
<1>7. ASSUME NEW c \in Copies(m), NEW d \in Copies(m) PROVE c = d
  <2>1. /\ \/ \E w \in Wires : \E i \in Found(wire[w], m) : c = <<<<"wire", w>>, i>>
           \/ \E n \in Nodes : \E i \in Found(inbox[n], m) : c = <<<<"inbox", n>>, i>>
        /\ \/ \E w \in Wires : \E i \in Found(wire[w], m) : d = <<<<"wire", w>>, i>>
           \/ \E n \in Nodes : \E i \in Found(inbox[n], m) : d = <<<<"inbox", n>>, i>>
    BY <1>1, Zenon
  <2> QED BY <2>1, <1>3, <1>4, <1>5, Zenon
<1>8. CASE Copies(m) = {}
  <2>1. Cardinality(Copies(m)) = 0
    BY <1>8, FS_EmptySet, Zenon
  <2>2. seen[m] \in {0, 1} /\ (seen[m] = 1 => job[m].result = "Delivered")
    BY Zenon DEF CopyInvOf
  <2> QED BY <2>1, <2>2
<1>9. CASE Copies(m) # {}
  <2>1. PICK c \in Copies(m) : TRUE
    BY <1>9, Zenon
  <2>2. Copies(m) = {c}
    BY <1>7, Zenon
  <2>3. Cardinality(Copies(m)) = 1
    BY <2>2, FS_Singleton, Zenon
  <2>4. seen[m] = 0 /\ job[m].result = "Delivered"
    BY <1>6, <2>1, Zenon
  <2> QED BY <2>3, <2>4
<1> QED BY <1>8, <1>9, Zenon

(* However often a forward() call retries, reconnects and falls back to    *)
(* other peers, with connections breaking and nodes crashing: at most one  *)
(* copy of a message is ever under way or handed out, and none if the      *)
(* publisher was not told Delivered (NetworkForwarder::forward).           *)
THEOREM ForwardsHonest == Spec => []ForwardHonest
<1>1. CopyInv => ForwardHonest
  BY CopiesCounted, Zenon DEF CopyInv, ForwardHonest
<1> QED BY <1>1, InitPeer, StepPeer, InitCopies, StepCopies, PTL DEF Spec

-----------------------------------------------------------------------------
(* The rings.                                                              *)

RingInv == DOMAIN ring = Nodes /\ \A n \in Nodes : RingOK(ring[n])

LEMMA EmptyRingOK == RingOK(EmptyRing)
  BY DEF RingOK, EmptyRing, Members

LEMMA RingAdds ==
  ASSUME RingInv, NEW n \in Nodes, NEW b \in Nodes,
         ring' = [ring EXCEPT ![n] = AddNode(ring[n], b)]
  PROVE  RingInv'
<1>1. RingOK(AddNode(ring[n], b))
  BY AddNodeOK, Zenon DEF RingInv
<1>2. ring'[n] = AddNode(ring[n], b) /\ DOMAIN ring' = Nodes
      /\ \A p \in Nodes \ {n} : ring'[p] = ring[p]
  BY Zenon DEF RingInv
<1>3. ASSUME NEW p \in Nodes PROVE RingOK(ring'[p])
  BY <1>1, <1>2, Zenon DEF RingInv
<1>4. \A p \in Nodes : RingOK(ring'[p])
  BY <1>3, Zenon
<1> QED BY <1>2, <1>4, Zenon DEF RingInv, RingOK, Members

(* What a step does to the rings. *)
RingStep ==
  \/ UNCHANGED ring
  \/ \E n, b \in Nodes : ring' = [ring EXCEPT ![n] = AddNode(ring[n], b)]
  \/ \E n \in Nodes : ring' = [ring EXCEPT ![n] = EmptyRing]

LEMMA StepsRing == PeerInv /\ [Next]_vars => RingStep
<1> SUFFICES ASSUME PeerInv, [Next]_vars PROVE RingStep
  OBVIOUS
<1>1. ASSUME NEW n \in Nodes, Start(n) PROVE RingStep
  BY <1>1, Zenon DEF Start, RingStep
<1>2. ASSUME NEW n \in Nodes, NEW type \in {"Join", "NodeList"}, Next1(n, type), Consume(n),
             \/ UNCHANGED ring
             \/ ring' = [ring EXCEPT ![n] = AddNode(ring[n], Head(inbox[n]).of)]
      PROVE  RingStep
  <2>1. Head(inbox[n]) \in Messages /\ Head(inbox[n]).type = type
    BY <1>2, ConsumeKeeps, Zenon DEF PeerInv
  <2>2. Head(inbox[n]).of \in Nodes
    BY <2>1, MessageFacts, Zenon
  <2> QED BY <1>2, <2>2, Zenon DEF RingStep
<1>3. ASSUME NEW n \in Nodes, HandleJoin(n) PROVE RingStep
  BY <1>3, <1>2, Zenon DEF HandleJoin
<1>4. ASSUME NEW n \in Nodes, HandleNodeList(n) PROVE RingStep
  BY <1>4, <1>2, Zenon DEF HandleNodeList
<1>5. ASSUME NEW n \in Nodes, Crash(n) PROVE RingStep
  BY <1>5, Zenon DEF Crash, RingStep
<1>6. CASE UNCHANGED ring
  BY <1>6, Zenon DEF RingStep
<1>7. ASSUME NEW n \in Nodes, StartUp(n) \/ Handle(n) \/ Spawned(n) \/ Crash(n) PROVE RingStep
  <2>1. CASE StartUp(n)
    BY <2>1, <1>1, <1>6, Zenon DEF StartUp, Listen, DialSeed, SeedFails, Started, SetServices
  <2>2. CASE Handle(n)
    BY <2>2, <1>3, <1>4, <1>6, Zenon DEF Handle, HandleForward
  <2>3. CASE Spawned(n)
    BY <2>3, <1>6, Zenon DEF Spawned, DialNode, DialNodeFails
  <2> QED BY <1>7, <2>1, <2>2, <2>3, <1>5, ZenonT(40)
<1>8. ASSUME NEW m \in Msgs, Forwarding(m) \/ \E n \in Nodes : Publish(m, n) PROVE RingStep
  BY <1>8, <1>6, Zenon
     DEF Forwarding, TrySend, RemoveConnection, Reconnect, Resend, Walk, Publish, node
<1> QED BY <1>6, <1>7, <1>8, Zenon
        DEF Next, vars, node, HandleIncoming, ReadLoop, Break, WriterEnds

LEMMA InitRing == Init => RingInv
  BY EmptyRingOK, Zenon DEF Init, RingInv

LEMMA StepRing == RingInv /\ RingStep => RingInv'
<1> SUFFICES ASSUME RingInv, RingStep PROVE RingInv'
  OBVIOUS
<1>1. CASE UNCHANGED ring
  BY <1>1, Zenon DEF RingInv
<1>2. CASE \E n, b \in Nodes : ring' = [ring EXCEPT ![n] = AddNode(ring[n], b)]
  BY <1>2, RingAdds, Zenon
<1>3. CASE \E n \in Nodes : ring' = [ring EXCEPT ![n] = EmptyRing]
  <2>1. PICK n \in Nodes : ring' = [ring EXCEPT ![n] = EmptyRing]
    BY <1>3, Zenon
  <2>2. DOMAIN ring' = Nodes /\ \A p \in Nodes : ring'[p] = EmptyRing \/ ring'[p] = ring[p]
    BY <2>1, Zenon DEF RingInv
  <2>3. \A p \in Nodes : RingOK(ring'[p])
    BY <2>2, EmptyRingOK, Zenon DEF RingInv
  <2> QED BY <2>2, <2>3, Zenon DEF RingInv
<1> QED BY <1>1, <1>2, <1>3, Zenon DEF RingStep

(* Nodes that know the same nodes name the same owner for every title. *)
SameMembersSameOwner ==
  \A a, b \in Nodes : Members(ring[a]) = Members(ring[b]) =>
    \A key \in Nat : GetByHash(ring[a], key) = GetByHash(ring[b], key)

(* In whatever order two nodes learned of the others, through Joins, node  *)
(* lists and restarts: if they know the same nodes they send every title   *)
(* to the same owner, unless virtual nodes of different nodes have the     *)
(* same hash (HashRing::add_node, get).                                    *)
THEOREM TitleOwnersAgree == ASSUME DistinctPositions PROVE Spec => []SameMembersSameOwner
<1>2. RingInv => SameMembersSameOwner
  BY SameOwner, Zenon DEF RingInv, SameMembersSameOwner
<1> QED BY <1>2, InitPeer, StepPeer, InitRing, StepsRing, StepRing, PTL DEF Spec

(* On every ring, every title has the owner it has on every ring imported  *)
(* from the same nodes, and get_n names its owners in turn.                *)
EveryTitleAgrees == \A n \in Nodes : \A key \in Nat : Agrees(ring[n], key)

(* At every moment, for every title and not only at the positions of the   *)
(* ring: a node that imports the table of another routes as that one does, *)
(* and the replicas get_n names are the owners get names as they are       *)
(* removed one by one (HashRing::get, get_n, remove_node, import_state).   *)
THEOREM TitlesAgree == ASSUME DistinctPositions PROVE Spec => []EveryTitleAgrees
<1>1. RingInv => EveryTitleAgrees
  BY RingAgrees, Zenon DEF RingInv, EveryTitleAgrees
<1> QED BY <1>1, InitPeer, StepPeer, InitRing, StepsRing, StepRing, PTL DEF Spec

(* Whenever a ring changes, the new one agrees with its imported copies    *)
(* and with get_n on the owners of the titles.                             *)
THEOREM RingsAgree == ASSUME DistinctPositions PROVE Spec => RingAgreement
<1>1. TitleHashes \in SUBSET Nat
  <2> SUFFICES ASSUME NEW key \in TitleHashes PROVE key \in Nat
    BY Zenon
  <2>1. PICK n \in Nodes : key \in UNION {{Positions[n][i], Positions[n][i] + 1} : i \in DOMAIN Positions[n]}
    BY Zenon DEF TitleHashes
  <2>2. PICK i \in DOMAIN Positions[n] : key \in {Positions[n][i], Positions[n][i] + 1}
    BY <2>1, Zenon
  <2>3. Positions[n] \in Seq(Nat)
    BY PositionsAssumption, Zenon
  <2> QED BY <2>2, <2>3
<1>2. EveryTitleAgrees' =>
        \A n \in Nodes : ring'[n] = ring[n] \/ \A key \in TitleHashes : Agrees(ring'[n], key)
  BY <1>1, Zenon DEF EveryTitleAgrees
<1>3. Spec => []EveryTitleAgrees
  BY TitlesAgree
<1> QED BY <1>2, <1>3, PTL DEF RingAgreement

(* A title changes its owner on a node only to a node that was not known   *)
(* there before, as long as the node does not crash: titles do not move    *)
(* between the nodes that were there (HashRing::add_node against get).     *)
MovesToNewcomer ==
  [][\A n \in Nodes : \/ ring'[n] = EmptyRing
                      \/ \A key \in Nat :
                           \/ GetByHash(ring'[n], key) = GetByHash(ring[n], key)
                           \/ \E b \in Members(ring'[n]) \ Members(ring[n]) :
                                GetByHash(ring'[n], key) = {b}]_vars

(* Joins and node lists move titles to the newcomer only, in whatever      *)
(* order the nodes learn of each other.                                    *)
THEOREM JoinsMoveToNewcomer == ASSUME DistinctPositions PROVE Spec => MovesToNewcomer
<1> DEFINE Moved(n) == \/ ring'[n] = EmptyRing
                       \/ \A key \in Nat :
                            \/ GetByHash(ring'[n], key) = GetByHash(ring[n], key)
                            \/ \E b \in Members(ring'[n]) \ Members(ring[n]) :
                                 GetByHash(ring'[n], key) = {b}
<1>1. RingInv /\ RingStep => \A n \in Nodes : Moved(n)
  <2> SUFFICES ASSUME RingInv, RingStep, NEW n \in Nodes PROVE Moved(n)
    BY Zenon
  <2>1. CASE ring'[n] = ring[n]
    BY <2>1, Zenon
  <2>2. CASE ring'[n] # ring[n]
    <3>1. CASE \E p, b \in Nodes : ring' = [ring EXCEPT ![p] = AddNode(ring[p], b)]
      <4>1. PICK p \in Nodes, b \in Nodes : ring' = [ring EXCEPT ![p] = AddNode(ring[p], b)]
        BY <3>1, Zenon
      <4>2. p = n /\ ring'[n] = AddNode(ring[n], b) /\ RingOK(ring[n])
        BY <2>2, <4>1, Zenon DEF RingInv
      <4>3. ASSUME NEW key \in Nat
            PROVE  \/ GetByHash(ring'[n], key) = GetByHash(ring[n], key)
                   \/ \E x \in Members(ring'[n]) \ Members(ring[n]) :
                        GetByHash(ring'[n], key) = {x}
        <5>1. \/ GetByHash(AddNode(ring[n], b), key) = GetByHash(ring[n], key)
              \/ /\ b \in Members(AddNode(ring[n], b)) \ Members(ring[n])
                 /\ GetByHash(AddNode(ring[n], b), key) = {b}
          BY <4>2, JoinMoves, Zenon
        <5> QED BY <4>2, <5>1, Zenon
      <4> QED BY <4>3, Zenon
    <3>2. CASE \E p \in Nodes : ring' = [ring EXCEPT ![p] = EmptyRing]
      BY <2>2, <3>2, Zenon DEF RingInv
    <3>3. ~(UNCHANGED ring)
      BY <2>2, Zenon
    <3> QED BY <3>1, <3>2, <3>3, Zenon DEF RingStep
  <2> QED BY <2>1, <2>2, Zenon
<1> QED BY <1>1, InitPeer, StepPeer, InitRing, StepsRing, StepRing, PTL DEF Spec, MovesToNewcomer
=============================================================================
