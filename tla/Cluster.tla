------------------------------- MODULE Cluster -------------------------------
(***************************************************************************)
(* The cluster layer: TCP connections between the nodes and the table of   *)
(* their senders (crates/rex-cluster/src/transport.rs), start-up and seeds *)
(* (node.rs), membership (ServerClusterManager in crates/rex-server), and  *)
(* the forwarding of a published message to another node                   *)
(* (NetworkForwarder), under broken connections and node restarts.         *)
(*                                                                         *)
(* A link is one TCP connection.  Its dialler writes to `out` and its      *)
(* acceptor to `back`; a wire is the writer's mpsc channel together with   *)
(* the bytes under way, as a sequence of whole messages.  The length       *)
(* prefix and bincode are left out.  Heartbeats carry no state: their one  *)
(* effect, that the writer of a broken link finds out, is WriterEnds.      *)
(*                                                                         *)
(* The address of a node stands for the node; the key <<"seed", m>> is     *)
(* "seed-<addr>", the key <<"node", m>> is the id of m.                    *)
(***************************************************************************)
EXTENDS RouteTable

CONSTANTS None,         \* no link, no node, no answer
          Seeds,        \* Seeds[n]: the seed_nodes of n, in order
          Links,        \* TCP connections that may be made
          Msgs,         \* messages published at nodes without a subscriber
          KeyOf,        \* KeyOf[m]: hash of the title of m
          Subscribers,  \* nodes with a local subscriber of the titles
          MaxFaults     \* bound: links broken and nodes crashed

ASSUME ClusterAssumption ==
  /\ Seeds \in [Nodes -> Seq(Nodes)] /\ KeyOf \in [Msgs -> Nat]
  /\ \A n \in Nodes : \A i, j \in DOMAIN Seeds[n] : Seeds[n][i] = Seeds[n][j] => i = j
  /\ Subscribers \subseteq Nodes /\ MaxFaults \in Nat
  /\ None \notin Nodes /\ None \notin [from : Nodes, to : Nodes]
  /\ None # "Delivered"

VARIABLES phase,       \* life of each node
          listening,   \* nodes whose listener is bound
          seedsLeft,   \* seeds still to be dialled
          conns,       \* per node: key -> link whose sender is stored
          handles,     \* per node: key -> dialled link whose writer task is stored
          ring,        \* per node: the hash ring of its route table
          dialling,    \* per node: nodes a spawned connect() is dialling
          inbox,       \* per node: messages on their way to handle_messages
          ends,        \* per link: its dialler and acceptor
          up,          \* links whose socket is intact
          writers,     \* <<link, wire>>: the writer still takes messages
          wire,        \* per link and direction
          job,         \* per message: the forward() call
          seen,        \* per message: how often deliver() handed it out
          missed,      \* <<a, b>>: a could not answer the Join of b, or
                       \* a could not dial b from a NodeList; m: a Forward
                       \* of m found no services or no subscriber
          faults

node    == <<phase, listening, seedsLeft, conns, handles, ring, dialling, inbox>>
network == <<ends, up, writers, wire>>
vars    == <<node, network, job, seen, missed, faults>>

-----------------------------------------------------------------------------
Key(m)     == <<"node", m>>
SeedKey(m) == <<"seed", m>>
Keys       == {Key(m) : m \in Nodes} \cup {SeedKey(m) : m \in Nodes}

Join(n)     == [type |-> "Join", of |-> n]
NodeList(n) == [type |-> "NodeList", of |-> n]
Forward(m)  == [type |-> "Forward", of |-> m]
Messages    == {Join(n) : n \in Nodes} \cup {NodeList(n) : n \in Nodes}
                 \cup {Forward(m) : m \in Msgs}

(* The wire on which n writes to the link l. *)
WireOf(n, l) == <<l, IF ends[l].from = n THEN "out" ELSE "back">>

Reader(w) == IF w[2] = "out" THEN ends[w[1]].to ELSE ends[w[1]].from

Wires == Links \X {"out", "back"}

Connected(n, k) == k \in DOMAIN conns[n]

(* send_to succeeds when the key is known and its writer takes messages. *)
CanSend(n, k) == Connected(n, k) /\ WireOf(n, conns[n][k]) \in writers

(* What a message handed to the writer does to the wires: on a broken      *)
(* socket it is lost.                                                      *)
Put(n, k, msg) ==
  LET w == WireOf(n, conns[n][k])
  IN  IF w[1] \in up THEN [wire EXCEPT ![w] = Append(@, msg)] ELSE wire

(* DashMap::insert: the entry replaces one under the same key. *)
Insert(f, k, l) == [x \in DOMAIN f \cup {k} |-> IF x = k THEN l ELSE f[x]]

FreeLinks == {l \in Links : ends[l] = None}

(* TcpStream::connect succeeds: the link l from n to m, both its tasks     *)
(* running, stored by the dialler under key k.                             *)
Open(n, m, k, l) ==
  /\ l = CHOOSE x \in FreeLinks : TRUE
  /\ m \in listening
  /\ ends' = [ends EXCEPT ![l] = [from |-> n, to |-> m]]
  /\ up' = up \cup {l}
  /\ writers' = writers \cup {<<l, "out">>, <<l, "back">>}
  /\ conns' = [conns EXCEPT ![n] = Insert(@, k, l)]
  /\ handles' = [handles EXCEPT ![n] = Insert(@, k, l)]

Running(n) == phase[n] # "off"
Managed(n) == phase[n] \in {"managed", "ready"}   \* the node_manager slot is set

NoJob == [pc |-> "idle", at |-> None, to |-> None, rest |-> None, result |-> None]

Init ==
  /\ phase = [n \in Nodes |-> "off"] /\ listening = {}
  /\ seedsLeft = [n \in Nodes |-> << >>]
  /\ conns = [n \in Nodes |-> << >>] /\ handles = [n \in Nodes |-> << >>]
  /\ ring = [n \in Nodes |-> EmptyRing]
  /\ dialling = [n \in Nodes |-> {}]
  /\ inbox = [n \in Nodes |-> << >>]
  /\ ends = [l \in Links |-> None] /\ up = {} /\ writers = {}
  /\ wire = [w \in Wires |-> << >>]
  /\ job = [m \in Msgs |-> NoJob]
  /\ seen = [m \in Msgs |-> 0]
  /\ missed = {} /\ faults = 0

-----------------------------------------------------------------------------
(* Start-up: ServerClusterManager::start and NodeManager::start. *)

Start(n) ==
  /\ phase[n] = "off"
  /\ phase' = [phase EXCEPT ![n] = "starting"]
  /\ ring' = [ring EXCEPT ![n] = AddNode(@, n)]
  /\ seedsLeft' = [seedsLeft EXCEPT ![n] = Seeds[n]]
  /\ UNCHANGED <<listening, conns, handles, dialling, inbox, network, job, seen, missed, faults>>

(* The listener runs in a task of its own. *)
Listen(n) ==
  /\ Running(n) /\ n \notin listening
  /\ listening' = listening \cup {n}
  /\ UNCHANGED <<phase, seedsLeft, conns, handles, ring, dialling, inbox, network, job,
                 seen, missed, faults>>

(* Mutant of DialSeed: the link to a seed is stored under our own id. *)
BugOwnKey(n) ==
  /\ phase[n] = "starting" /\ seedsLeft[n] # << >>
  /\ \E l \in FreeLinks :
       /\ Open(n, Head(seedsLeft[n]), Key(n), l)
       /\ wire' = [wire EXCEPT ![<<l, "out">>] = <<Join(n)>>]
  /\ seedsLeft' = [seedsLeft EXCEPT ![n] = Tail(@)]
  /\ UNCHANGED <<phase, listening, ring, dialling, inbox, job, seen, missed, faults>>

(* connect_to_seeds: dial the next seed and send it our Join. *)
DialSeed(n) ==
  /\ phase[n] = "starting" /\ seedsLeft[n] # << >>
  /\ \E l \in FreeLinks :
       /\ Open(n, Head(seedsLeft[n]), SeedKey(Head(seedsLeft[n])), l)
       /\ wire' = [wire EXCEPT ![<<l, "out">>] = <<Join(n)>>]
  /\ seedsLeft' = [seedsLeft EXCEPT ![n] = Tail(@)]
  /\ UNCHANGED <<phase, listening, ring, dialling, inbox, job, seen, missed, faults>>

(* A dial fails when nobody listens, or by a fault of the network. *)
DialFails(m) ==
  \/ m \notin listening /\ faults' = faults
  \/ m \in listening /\ faults < MaxFaults /\ faults' = faults + 1

(* ... a seed that cannot be reached is skipped. *)
SeedFails(n) ==
  /\ phase[n] = "starting" /\ seedsLeft[n] # << >>
  /\ DialFails(Head(seedsLeft[n]))
  /\ seedsLeft' = [seedsLeft EXCEPT ![n] = Tail(@)]
  /\ UNCHANGED <<phase, listening, conns, handles, ring, dialling, inbox, network, job,
                 seen, missed>>

(* The node manager is put into its slot once its start() has returned. *)
Started(n) ==
  /\ phase[n] = "starting" /\ seedsLeft[n] = << >>
  /\ phase' = [phase EXCEPT ![n] = "managed"]
  /\ UNCHANGED <<listening, seedsLeft, conns, handles, ring, dialling, inbox, network, job,
                 seen, missed, faults>>

(* The server opens for clients. *)
SetServices(n) ==
  /\ phase[n] = "managed"
  /\ phase' = [phase EXCEPT ![n] = "ready"]
  /\ UNCHANGED <<listening, seedsLeft, conns, handles, ring, dialling, inbox, network, job,
                 seen, missed, faults>>

-----------------------------------------------------------------------------
(***************************************************************************)
(* Receiving.  The task of an accepted link stores its sender under the id *)
(* its Join names before it passes the message on; the read loop of a      *)
(* dialled link only passes it on.                                         *)
(***************************************************************************)
HandleIncoming(l) ==
  LET w == <<l, "out">> n == ends[l].to msg == Head(wire[w]) IN
  /\ ends[l] # None /\ wire[w] # << >>
  /\ wire' = [wire EXCEPT ![w] = Tail(@)]
  /\ inbox' = [inbox EXCEPT ![n] = Append(@, msg)]
  /\ conns' = IF msg.type = "Join" THEN [conns EXCEPT ![n] = Insert(@, Key(msg.of), l)] ELSE conns
  /\ UNCHANGED <<phase, listening, seedsLeft, handles, ring, dialling, ends, up, writers, job,
                 seen, missed, faults>>

ReadLoop(l) ==
  LET w == <<l, "back">> n == ends[l].from IN
  /\ ends[l] # None /\ wire[w] # << >>
  /\ wire' = [wire EXCEPT ![w] = Tail(@)]
  /\ inbox' = [inbox EXCEPT ![n] = Append(@, Head(wire[w]))]
  /\ UNCHANGED <<phase, listening, seedsLeft, conns, handles, ring, dialling, ends, up, writers,
                 job, seen, missed, faults>>

Next1(n, type) == inbox[n] # << >> /\ Head(inbox[n]).type = type

Consume(n) == inbox' = [inbox EXCEPT ![n] = Tail(@)]

(* A node that joins is added and told of us, over the link it dialled. *)
HandleJoin(n) ==
  LET b == Head(inbox[n]).of
      answered == Managed(n) /\ CanSend(n, Key(b)) IN
  /\ Next1(n, "Join") /\ Consume(n)
  /\ ring' = IF b = n THEN ring ELSE [ring EXCEPT ![n] = AddNode(@, b)]
  /\ wire' = IF b # n /\ answered THEN Put(n, Key(b), NodeList(n)) ELSE wire
  /\ missed' = IF b # n /\ ~answered THEN missed \cup {<<n, b>>} ELSE missed
  /\ UNCHANGED <<phase, listening, seedsLeft, conns, handles, dialling, ends, up, writers, job,
                 seen, faults>>

(* Mutant of HandleNodeList: a listed node is added, never dialled. *)
BugNeverDialled(n) ==
  /\ Next1(n, "NodeList") /\ Consume(n)
  /\ ring' = [ring EXCEPT ![n] = AddNode(@, Head(inbox[n]).of)]
  /\ UNCHANGED <<phase, listening, seedsLeft, conns, handles, dialling, network, job,
                 seen, missed, faults>>

(* A listed node is added and, unless it is connected, dialled: by a       *)
(* spawned task, if the node_manager slot is set.                          *)
HandleNodeList(n) ==
  LET a == Head(inbox[n]).of
      todial == a # n /\ ~Connected(n, Key(a)) IN
  /\ Next1(n, "NodeList") /\ Consume(n)
  /\ ring' = IF a = n THEN ring ELSE [ring EXCEPT ![n] = AddNode(@, a)]
  /\ dialling' = IF todial /\ Managed(n) THEN [dialling EXCEPT ![n] = @ \cup {a}] ELSE dialling
  /\ missed' = IF todial /\ ~Managed(n) THEN missed \cup {<<n, a>>} ELSE missed
  /\ UNCHANGED <<phase, listening, seedsLeft, conns, handles, network, job, seen, faults>>

(* The task checks again whether the node is connected, then dials; its     *)
(* Join may be accepted between the two.                                   *)
DialNode(n, a) ==
  /\ a \in dialling[n]
  /\ \/ \E l \in FreeLinks : Open(n, a, Key(a), l)
     \/ Connected(n, Key(a)) /\ UNCHANGED <<conns, handles, ends, up, writers>>
  /\ dialling' = [dialling EXCEPT ![n] = @ \ {a}]
  /\ UNCHANGED <<phase, listening, seedsLeft, ring, inbox, wire, job, seen, missed, faults>>

DialNodeFails(n, a) ==
  /\ a \in dialling[n] /\ DialFails(a)
  /\ dialling' = [dialling EXCEPT ![n] = @ \ {a}]
  /\ UNCHANGED <<phase, listening, seedsLeft, conns, handles, ring, inbox, network, job, seen, missed>>

(* NetworkForwarder::deliver: every local subscriber of the title is sent   *)
(* the payload, or for a unicast one of them.  The message is gone when     *)
(* there is none, or, by a fault, when it has left or its connection fails. *)
Deliver(n, m) ==
  \/ /\ n \in Subscribers
     /\ seen' = [seen EXCEPT ![m] = @ + 1]
     /\ UNCHANGED <<missed, faults>>
  \/ /\ n \in Subscribers => faults < MaxFaults
     /\ faults' = IF n \in Subscribers THEN faults + 1 ELSE faults
     /\ missed' = missed \cup {m}
     /\ UNCHANGED seen

(* A forwarded message is delivered once the services are set; before that *)
(* it is dropped.                                                          *)
HandleForward(n) ==
  LET m == Head(inbox[n]).of IN
  /\ Next1(n, "Forward") /\ Consume(n)
  /\ \/ phase[n] = "ready" /\ Deliver(n, m)
     \/ phase[n] # "ready" /\ missed' = missed \cup {m} /\ UNCHANGED <<seen, faults>>
  /\ UNCHANGED <<phase, listening, seedsLeft, conns, handles, ring, dialling, network, job>>

-----------------------------------------------------------------------------
(***************************************************************************)
(* NetworkForwarder::forward for the message m.  An unfilled slot refuses  *)
(* at once (set_node_manager and set_route_table fill them, open_server    *)
(* does not); otherwise the owner of the title is tried first, then the    *)
(* connected nodes, as they were when the walk began.                      *)
(***************************************************************************)
Publish(m, n) ==
  /\ job[m].pc = "idle" /\ phase[n] = "ready" /\ n \notin Subscribers
  /\ \E owner \in GetByHash(ring[n], KeyOf[m]) :
       \/ job' = [job EXCEPT ![m] = [pc |-> "send", at |-> n, to |-> owner, rest |-> None,
                                     result |-> None]]
       \/ job' = [job EXCEPT ![m] = [pc |-> "done", at |-> n, to |-> owner, rest |-> None,
                                     result |-> "PeerUnreachable"]]
  /\ UNCHANGED <<node, network, seen, missed, faults>>

(* The peers fallback_excluding walks over: their key is a node with an    *)
(* address in the route table, other than us and the owner.                *)
Peers(n, owner) ==
  {p \in Members(ring[n]) \ {n, owner} : Connected(n, Key(p))}

GiveUp(m) ==
  job' = [job EXCEPT ![m].pc = "walk",
                     ![m].rest = IF @ = None THEN Peers(job[m].at, job[m].to) ELSE @]

Succeed(m) ==
  /\ wire' = Put(job[m].at, Key(job[m].to), Forward(m))
  /\ job' = [job EXCEPT ![m].pc = "done", ![m].result = "Delivered"]

(* Mutant of TrySend: a message that was queued is sent once more. *)
BugSendTwice(m) ==
  LET n == job[m].at k == Key(job[m].to) IN
  /\ job[m].pc = "send"
  /\ \/ ~Connected(n, k) /\ GiveUp(m) /\ UNCHANGED wire
     \/ CanSend(n, k) /\ wire' = Put(n, k, Forward(m)) /\ job' = [job EXCEPT ![m].pc = "resend"]
     \/ Connected(n, k) /\ ~CanSend(n, k)
        /\ job' = [job EXCEPT ![m].pc = "remove"] /\ UNCHANGED wire
  /\ UNCHANGED <<node, ends, up, writers, seen, missed, faults>>

(* try_send: not connected, queued on the writer, or to be reconnected. *)
TrySend(m) ==
  LET n == job[m].at k == Key(job[m].to) IN
  /\ job[m].pc = "send"
  /\ \/ ~Connected(n, k) /\ GiveUp(m) /\ UNCHANGED wire
     \/ CanSend(n, k) /\ Succeed(m)
     \/ Connected(n, k) /\ ~CanSend(n, k)
        /\ job' = [job EXCEPT ![m].pc = "remove"] /\ UNCHANGED wire
  /\ UNCHANGED <<node, ends, up, writers, seen, missed, faults>>

(* remove_connection: the entry goes, and the writer task stored under the *)
(* key is aborted with what it has not written.                            *)
RemoveConnection(m) ==
  LET n == job[m].at
      k == Key(job[m].to)
      aborted == IF k \in DOMAIN handles[n] THEN {<<handles[n][k], "out">>} ELSE {} IN
  /\ job[m].pc = "remove"
  /\ conns' = [conns EXCEPT ![n] = [x \in DOMAIN @ \ {k} |-> @[x]]]
  /\ handles' = [handles EXCEPT ![n] = [x \in DOMAIN @ \ {k} |-> @[x]]]
  /\ writers' = writers \ aborted
  /\ wire' = [w \in Wires |-> IF w \in aborted THEN << >> ELSE wire[w]]
  /\ job' = [job EXCEPT ![m].pc = "dial"]
  /\ UNCHANGED <<phase, listening, seedsLeft, ring, dialling, inbox, ends, up,
                 seen, missed, faults>>

(* connect: somebody else connected meanwhile, or a new link.  Whoever     *)
(* passed the check dials, so the new link may replace another one.        *)
Reconnect(m) ==
  LET n == job[m].at k == Key(job[m].to) IN
  /\ job[m].pc = "dial"
  /\ \/ /\ Connected(n, k)
        /\ job' = [job EXCEPT ![m].pc = "resend"]
        /\ UNCHANGED <<conns, handles, ends, up, writers, faults>>
     \/ /\ \E l \in FreeLinks : Open(n, job[m].to, k, l)
        /\ job' = [job EXCEPT ![m].pc = "resend"]
        /\ UNCHANGED faults
     \/ /\ DialFails(job[m].to) /\ GiveUp(m)
        /\ UNCHANGED <<conns, handles, ends, up, writers>>
  /\ UNCHANGED <<phase, listening, seedsLeft, ring, dialling, inbox, wire, seen, missed>>

Resend(m) ==
  /\ job[m].pc = "resend"
  /\ \/ CanSend(job[m].at, Key(job[m].to)) /\ Succeed(m)
     \/ ~CanSend(job[m].at, Key(job[m].to)) /\ GiveUp(m) /\ UNCHANGED wire
  /\ UNCHANGED <<node, ends, up, writers, seen, missed, faults>>

(* Mutant of Walk: a peer that refused stays among those to try. *)
BugWalkAgain(m) ==
  /\ job[m].pc = "walk"
  /\ \/ \E p \in job[m].rest : job' = [job EXCEPT ![m].pc = "send", ![m].to = p]
     \/ /\ job[m].rest = {}
        /\ job' = [job EXCEPT ![m].pc = "done", ![m].result = "PeerUnreachable"]
  /\ UNCHANGED <<node, network, seen, missed, faults>>

(* fallback_excluding: the next peer, or the end of the walk. *)
Walk(m) ==
  /\ job[m].pc = "walk"
  /\ \/ \E p \in job[m].rest :
          job' = [job EXCEPT ![m].pc = "send", ![m].to = p, ![m].rest = @ \ {p}]
     \/ /\ job[m].rest = {}
        /\ job' = [job EXCEPT ![m].pc = "done", ![m].result = "PeerUnreachable"]
  /\ UNCHANGED <<node, network, seen, missed, faults>>

-----------------------------------------------------------------------------
(***************************************************************************)
(* Faults.  What a broken socket had still to deliver is lost: what was    *)
(* read before the break is in an inbox.                                   *)
(***************************************************************************)
Break(l) ==
  /\ l \in up /\ faults < MaxFaults
  /\ up' = up \ {l}
  /\ wire' = [wire EXCEPT ![<<l, "out">>] = << >>, ![<<l, "back">>] = << >>]
  /\ faults' = faults + 1
  /\ UNCHANGED <<node, ends, writers, job, seen, missed>>

(* The dialler's writer ends when a write fails, the acceptor's task when  *)
(* its read does.  The senders stay in the tables.                         *)
WriterEnds(w) ==
  /\ w[1] \notin up /\ w \in writers
  /\ writers' = writers \ {w}
  /\ UNCHANGED <<node, ends, up, wire, job, seen, missed, faults>>

(* A node dies and forgets everything. *)
Crash(n) ==
  LET lost == {l \in Links : ends[l] # None /\ n \in {ends[l].from, ends[l].to}} IN
  /\ Running(n) /\ faults < MaxFaults
  /\ faults' = faults + 1
  /\ phase' = [phase EXCEPT ![n] = "off"]
  /\ listening' = listening \ {n}
  /\ seedsLeft' = [seedsLeft EXCEPT ![n] = << >>]
  /\ conns' = [conns EXCEPT ![n] = << >>] /\ handles' = [handles EXCEPT ![n] = << >>]
  /\ ring' = [ring EXCEPT ![n] = EmptyRing]
  /\ dialling' = [dialling EXCEPT ![n] = {}]
  /\ inbox' = [inbox EXCEPT ![n] = << >>]
  /\ up' = up \ lost
  /\ writers' = {w \in writers : w[1] \in lost => Reader(w) = n}
  /\ wire' = [w \in Wires |-> IF w[1] \in lost THEN << >> ELSE wire[w]]
  /\ job' = [m \in Msgs |-> IF job[m].at = n /\ job[m].pc # "done"
                            THEN [job[m] EXCEPT !.pc = "done", !.result = "Crashed"]
                            ELSE job[m]]
  /\ UNCHANGED <<ends, seen, missed>>

-----------------------------------------------------------------------------
StartUp(n) == Start(n) \/ Listen(n) \/ DialSeed(n) \/ SeedFails(n) \/ Started(n) \/ SetServices(n)

Handle(n) == HandleJoin(n) \/ HandleNodeList(n) \/ HandleForward(n)

Spawned(n) == \E a \in Nodes : DialNode(n, a) \/ DialNodeFails(n, a)

Forwarding(m) == TrySend(m) \/ RemoveConnection(m) \/ Reconnect(m) \/ Resend(m) \/ Walk(m)

Next ==
  \/ \E n \in Nodes : StartUp(n) \/ Handle(n) \/ Spawned(n) \/ Crash(n)
  \/ \E l \in Links : HandleIncoming(l) \/ ReadLoop(l) \/ Break(l)
  \/ \E w \in Wires : WriterEnds(w)
  \/ \E m \in Msgs : Forwarding(m) \/ \E n \in Nodes : Publish(m, n)

(* Some task of a running node that can go on does.  That is less than the *)
(* runtime promises, which schedules every task, and enough: no behaviour  *)
(* of the tasks is endless.  Nobody has to start a node.                   *)
Tasks ==
  \/ \E n \in Nodes : (Running(n) /\ StartUp(n)) \/ Handle(n) \/ Spawned(n)
  \/ \E l \in Links : HandleIncoming(l) \/ ReadLoop(l)
  \/ \E m \in Msgs : Forwarding(m)

Fairness == WF_vars(Tasks)

Spec == Init /\ [][Next]_vars /\ Fairness

-----------------------------------------------------------------------------
(* A sender stored under a node's id, or under the temporary key of a      *)
(* seed's address, writes to a connection with that very node: through     *)
(* races of accepted and dialled connections for one key, reconnects and   *)
(* restarts (ClusterTransport::connections).                               *)
EntryLeadsToPeer ==
  \A n \in Nodes : \A k \in DOMAIN conns[n] :
    LET e == ends[conns[n][k]] IN {e.from, e.to} = {n, k[2]}

Found(q, m) == {i \in DOMAIN q : q[i] = Forward(m)}

(* The places where a forwarded message is: on a wire or in an inbox. *)
Copies(m) == (UNION {{<<"wire", w>>} \X Found(wire[w], m) : w \in Wires})
               \cup (UNION {{<<"inbox", n>>} \X Found(inbox[n], m) : n \in Nodes})

(* forward() answers honestly: retries after a failed send and the walk    *)
(* over other peers never put a message on its way twice, and a publisher  *)
(* told PeerUnreachable may publish again, as no copy is under way and     *)
(* nobody was handed one (try_send, try_reconnect_and_send,                *)
(* fallback_excluding).                                                    *)
ForwardHonest ==
  \A m \in Msgs :
    Cardinality(Copies(m)) + seen[m] <= IF job[m].result = "Delivered" THEN 1 ELSE 0

(* Without faults, membership becomes mutual: if a came to know b, and a   *)
(* answered b's Join, then b comes to know a, and each has a sender for    *)
(* the other under its id (b unless the list found its node manager not    *)
(* yet in place).                                                          *)
Converges ==
  <>[](faults = 0 =>
        \A a, b \in Nodes : a # b /\ b \in Members(ring[a]) /\ <<a, b>> \notin missed =>
          /\ a \in Members(ring[b]) /\ Connected(a, Key(b))
          /\ <<b, a>> \in missed \/ Connected(b, Key(a)))

(* Every forward() call returns; and a message reported as Delivered       *)
(* is handed to the subscribers of another node if no connection and no    *)
(* node fails, unless it came to a node without services or subscribers.   *)
ForwardArrives ==
  <>[](\A m \in Msgs :
         /\ job[m].pc \in {"idle", "done"}
         /\ job[m].result = "Delivered" /\ faults = 0 => seen[m] = 1 \/ m \in missed)

(* A title hash at each position of the ring, and one just after it. *)
TitleHashes ==
  UNION {UNION {{Positions[n][i], Positions[n][i] + 1} : i \in DOMAIN Positions[n]} : n \in Nodes}

(* Nodes that know the same nodes send a title to the same owner, in       *)
(* whatever order they learned of them, and so does a node that imports    *)
(* the exported table of another in any order (HashRing::get,              *)
(* import_state).  The replicas of a title (get_n) are its owner, then the *)
(* node that owns it once the owner is removed, and so on: a removal moves *)
(* a title to its next replica (get_n against get and remove_node).  Looked *)
(* at whenever a ring changes.                                             *)
RingAgreement ==
  [][\A n \in Nodes : ring'[n] = ring[n] \/ \A key \in TitleHashes : Agrees(ring'[n], key)]_vars
=============================================================================
