------------------------------ MODULE Session ------------------------------
(***************************************************************************)
(* The life of a client session in rex-server: the per-connection task     *)
(* (transport/tcp.rs, transport/driver.rs), the login handler              *)
(* (handler/login.rs), Services::add_client and remove_client              *)
(* (system/services.rs), ghosts and persisted rows, the Janitor's sweeps   *)
(* over both, and the server's stop and restart (lib.rs).                  *)
(*                                                                         *)
(* A connection stands for its peer object (RexClientInner) and for the    *)
(* random uuid that object is created with.  A connection task runs its    *)
(* handlers one after the other and gives way to the others at every       *)
(* await.  Titles are the business of ClientRegistry; the cluster port is  *)
(* the NoopClusterPort of build_services, which keeps nothing.             *)
(***************************************************************************)
EXTENDS Naturals

CONSTANTS Ids,         \* client ids
          Conns,       \* connections
          LoginId,     \* connection -> the id its client logs in with
          MaxLogins,   \* bound: Login commands per connection
          MaxRestarts, \* bound: how often the server is started again
          StoreFails,  \* whether operations of the ClientStateStore may fail
          None         \* "no connection"

ASSUME ConstantsAssumption ==
    /\ LoginId \in [Conns -> Ids]
    /\ Ids \cap Conns = {}
    /\ MaxLogins \in Nat
    /\ MaxRestarts \in Nat
    /\ StoreFails \in BOOLEAN
    /\ None \notin Conns \cup Ids

(* What may be the id of a peer object: its uuid, then its client's id.    *)
Keys == Ids \cup Conns

VARIABLES
    server,    \* "up", "stopping" (shutdown signalled) or "down"
    restarts,  \* how often it was started again
    pc,        \* connection -> where its task is
    peerId,    \* connection -> RexClientInner::id
    sender,    \* connection -> the connection its peer object writes to
    logins,    \* connection -> Login commands handled
    ended,     \* connections whose read loop is over
    open,      \* connections that still carry data
    tokens,    \* Services::client_shutdowns: id -> connection it cancels
    cancelled, \* connections whose token an admin cancelled
    doomed,    \* connection -> ids it has still to call remove_client for
    arg,       \* connection -> the id its remove_client is working on
    victim,    \* connection -> the object its remove_client has still to close
    registry,  \* id2client: id -> registered object
    ghosts,    \* ids of restored clients
    rows,      \* ids in the ClientStateStore; survives a restart
    stale,     \* ids the Janitor's take_inactive returned
    closing,   \* the object the Janitor removed and has still to close
    expired,   \* ids the Janitor's take_expired_ghosts returned
    expected,  \* history: sessions with a row when the server was told to stop
    overlapped \* history: connections that met another one of their client

serverVars == <<server, restarts, expected, overlapped>>
tokenVars == <<tokens, cancelled>>
removeVars == <<doomed, arg, victim>>
janitorVars == <<stale, closing, expired>>
peerVars == <<peerId, sender, logins, ended, open>>
storeVars == <<registry, ghosts, rows>>
vars == <<serverVars, pc, peerVars, tokenVars, removeVars, storeVars, janitorVars>>

TaskTypeOK ==
    /\ server \in {"up", "stopping", "down"}
    /\ restarts \in 0 .. MaxRestarts
    /\ pc \in [Conns -> {"unborn", "reading", "claim", "insert", "save",
                         "remove", "close", "row", "done"}]
    /\ peerId \in [Conns -> Keys]
    /\ sender \in [Conns -> Conns]
    /\ logins \in [Conns -> 0 .. MaxLogins]
    /\ ended \subseteq Conns
    /\ open \subseteq Conns

StateTypeOK ==
    /\ tokens \in [Keys -> Conns \cup {None}]
    /\ cancelled \subseteq Conns
    /\ doomed \in [Conns -> SUBSET Keys]
    /\ arg \in [Conns -> Keys \cup {None}]
    /\ victim \in [Conns -> Conns \cup {None}]
    /\ registry \in [Keys -> Conns \cup {None}]
    /\ ghosts \subseteq Keys
    /\ rows \subseteq Keys
    /\ stale \subseteq Keys
    /\ closing \in Conns \cup {None}
    /\ expired \subseteq Keys
    /\ expected \subseteq Keys
    /\ overlapped \subseteq Conns
    /\ \A c \in Conns : (victim[c] # None) <=> (pc[c] = "close")

(* Every variable keeps its shape, and exactly the tasks between the       *)
(* registry removal and the close of remove_client hold a removed object.  *)
TypeOK == TaskTypeOK /\ StateTypeOK

Init ==
    /\ server = "up"
    /\ restarts = 0
    /\ pc = [c \in Conns |-> "unborn"]
    /\ peerId = [c \in Conns |-> c]
    /\ sender = [c \in Conns |-> c]
    /\ logins = [c \in Conns |-> 0]
    /\ ended = {}
    /\ open = {}
    /\ tokens = [k \in Keys |-> None]
    /\ cancelled = {}
    /\ doomed = [c \in Conns |-> {}]
    /\ arg = [c \in Conns |-> None]
    /\ victim = [c \in Conns |-> None]
    /\ registry = [k \in Keys |-> None]
    /\ ghosts = {}
    /\ rows = {}
    /\ stale = {}
    /\ closing = None
    /\ expired = {}
    /\ expected = {}
    /\ overlapped = {}

-----------------------------------------------------------------------------
(***************************************************************************)
(* The ClientStateStore.  An operation of ClientStateRepo either works or  *)
(* reports an error; SledClientStateStore logs the error, and its callers  *)
(* go on as if nothing had happened.  Each Repo operator is the set of     *)
(* outcomes of one method.                                                 *)
(***************************************************************************)
OrFails(outcomes) == IF StoreFails THEN outcomes ELSE {}

RepoSave(k) == {rows \cup {k}} \cup OrFails({rows})

RepoRemove(k) == {rows \ {k}} \cup OrFails({rows})

RepoLoadAll == {rows}

(* The expired rows are removed one after the other; at an error those     *)
(* removed so far are gone, and none is returned.                          *)
RepoTakeExpired(E) ==
    {[left |-> rows \ E, ids |-> E]}
        \cup OrFails({[left |-> rows \ D, ids |-> {}] : D \in (SUBSET E) \ {E}})

Save(k) == rows' \in RepoSave(k)

Remove(k) == rows' \in RepoRemove(k)

(* An error loads no rows.                                                 *)
LoadAll == RepoLoadAll \cup OrFails({{}})

TakeExpiredGhosts(E) ==
    \E outcome \in RepoTakeExpired(E) :
        /\ rows' = outcome.left
        /\ expired' = outcome.ids

(* add_ghost for each restored row: not for an id that is registered.      *)
AddGhosts(restored) ==
    ghosts' = ghosts \cup {k \in restored : registry[k] = None}

-----------------------------------------------------------------------------
(* A connection task.                                                      *)

Goto(c, label) == pc' = [pc EXCEPT ![c] = label]

(* The other connections of c's client whose task has not ended.           *)
Rivals(c) ==
    {d \in Conns \ {c} : LoginId[d] = LoginId[c] /\ pc[d] \notin {"unborn", "done"}}

(* The accept loop takes a connection: a peer object under a fresh uuid,   *)
(* and ConnectionDriver::new registers a token under that uuid.            *)
Accept(c) ==
    /\ server = "up"
    /\ pc[c] = "unborn"
    /\ Goto(c, "reading")
    /\ open' = open \cup {c}
    /\ tokens' = [tokens EXCEPT ![peerId[c]] = c]
    /\ overlapped' = IF Rivals(c) = {} THEN overlapped ELSE overlapped \cup {c} \cup Rivals(c)
    /\ UNCHANGED <<server, restarts, expected, peerId, sender, logins, ended, cancelled,
                   removeVars, storeVars, janitorVars>>

(* A Login for an id that is registered: only the registered object's      *)
(* sender is replaced; the connection keeps its uuid.                      *)
LoginKnown(c) ==
    /\ pc[c] = "reading"
    /\ logins[c] < MaxLogins
    /\ registry[LoginId[c]] # None
    /\ sender' = [sender EXCEPT ![registry[LoginId[c]]] = sender[c]]
    /\ logins' = [logins EXCEPT ![c] = @ + 1]
    /\ UNCHANGED <<serverVars, pc, peerId, ended, open, tokenVars,
                   removeVars, storeVars, janitorVars>>

(* A Login for an unknown id: the peer object takes the id, then add_client. *)
LoginNew(c) ==
    /\ pc[c] = "reading"
    /\ logins[c] < MaxLogins
    /\ registry[LoginId[c]] = None
    /\ peerId' = [peerId EXCEPT ![c] = LoginId[c]]
    /\ logins' = [logins EXCEPT ![c] = @ + 1]
    /\ Goto(c, "claim")
    /\ UNCHANGED <<serverVars, sender, ended, open, tokenVars, removeVars,
                   storeVars, janitorVars>>

(* Mutant of ClaimGhost: the ghost stays.                                  *)
BugKeepGhost(c) ==
    /\ pc[c] = "claim"
    /\ Goto(c, "insert")
    /\ UNCHANGED <<serverVars, peerVars, tokenVars, removeVars, storeVars,
                   janitorVars>>

(* add_client: claim_ghost ...                                             *)
ClaimGhost(c) ==
    /\ pc[c] = "claim"
    /\ ghosts' = ghosts \ {peerId[c]}
    /\ Goto(c, "insert")
    /\ UNCHANGED <<serverVars, peerVars, tokenVars, removeVars, registry, rows,
                   janitorVars>>

(* ... registry.add_client, which replaces what another login put there ... *)
AddClient(c) ==
    /\ pc[c] = "insert"
    /\ registry' = [registry EXCEPT ![peerId[c]] = c]
    /\ Goto(c, "save")
    /\ UNCHANGED <<serverVars, peerVars, tokenVars, removeVars, ghosts, rows,
                   janitorVars>>

(* ... and state_store.save; then the handler drains the offline queue and *)
(* answers LoginReturn.                                                    *)
SaveState(c) ==
    /\ pc[c] = "save"
    /\ Save(peerId[c])
    /\ Goto(c, "reading")
    /\ UNCHANGED <<serverVars, peerVars, tokenVars, removeVars, registry,
                   ghosts, janitorVars>>

(* A cast handler's sends to the clients of F failed: it will remove them. *)
CastFails(c, F) ==
    /\ pc[c] = "reading"
    /\ F # {}
    /\ \A i \in F : i # peerId[c] /\ registry[i] # None /\ sender[registry[i]] \notin open
    /\ doomed' = [doomed EXCEPT ![c] = F]
    /\ Goto(c, "remove")
    /\ UNCHANGED <<serverVars, peerVars, tokenVars, arg, victim, storeVars,
                   janitorVars>>

(* Mutant of EndLoop: removes the id the connection had before its login.  *)
BugRemoveFirstId(c) ==
    /\ pc[c] = "reading"
    /\ c \notin open \/ server = "stopping" \/ c \in cancelled
    /\ ended' = ended \cup {c}
    /\ tokens' = [tokens EXCEPT ![c] = None]
    /\ cancelled' = cancelled \ {c}
    /\ logins' = [logins EXCEPT ![c] = 0]
    /\ doomed' = [doomed EXCEPT ![c] = {c}]
    /\ Goto(c, "remove")
    /\ UNCHANGED <<serverVars, peerId, sender, open, arg, victim, storeVars,
                   janitorVars>>

(* Mutant of EndLoop: end of file does not end the loop.                   *)
BugIgnoreEof(c) ==
    /\ pc[c] = "reading"
    /\ server = "stopping" \/ c \in cancelled
    /\ ended' = ended \cup {c}
    /\ tokens' = [tokens EXCEPT ![peerId[c]] = None]
    /\ cancelled' = cancelled \ {c}
    /\ logins' = [logins EXCEPT ![c] = 0]
    /\ doomed' = [doomed EXCEPT ![c] = {peerId[c]}]
    /\ Goto(c, "remove")
    /\ UNCHANGED <<serverVars, peerId, sender, open, arg, victim, storeVars,
                   janitorVars>>

(* The read loop is over on EOF or error, shutdown, or cancellation: the   *)
(* token of the id the peer has now is dropped, then comes remove_client.  *)
EndLoop(c) ==
    /\ pc[c] = "reading"
    /\ c \notin open \/ server = "stopping" \/ c \in cancelled
    /\ ended' = ended \cup {c}
    /\ tokens' = [tokens EXCEPT ![peerId[c]] = None]
    /\ cancelled' = cancelled \ {c}
    /\ logins' = [logins EXCEPT ![c] = 0]
    /\ doomed' = [doomed EXCEPT ![c] = {peerId[c]}]
    /\ Goto(c, "remove")
    /\ UNCHANGED <<serverVars, peerId, sender, open, arg, victim, storeVars,
                   janitorVars>>

(* Where a task goes on once it has no more clients to remove.             *)
Onward(c, left) ==
    IF left # {} THEN "remove" ELSE IF c \in ended THEN "done" ELSE "reading"

(* remove_client of an id nobody is registered under does nothing.         *)
RemoveNobody(c, i) ==
    /\ pc[c] = "remove"
    /\ i \in doomed[c]
    /\ registry[i] = None
    /\ doomed' = [doomed EXCEPT ![c] = @ \ {i}]
    /\ Goto(c, Onward(c, doomed[c] \ {i}))
    /\ UNCHANGED <<serverVars, peerVars, tokenVars, arg, victim, storeVars,
                   janitorVars>>

(* Mutant of RemoveClient: goes on although nobody was registered.         *)
BugRemoveAnyway(c, i) ==
    /\ pc[c] = "remove"
    /\ i \in doomed[c]
    /\ doomed' = [doomed EXCEPT ![c] = @ \ {i}]
    /\ arg' = [arg EXCEPT ![c] = i]
    /\ victim' = [victim EXCEPT ![c] = registry[i]]
    /\ registry' = [registry EXCEPT ![i] = None]
    /\ Goto(c, "close")
    /\ UNCHANGED <<serverVars, peerVars, tokenVars, ghosts, rows, janitorVars>>

(* Otherwise it takes the object registered now, whoever logged it in ...  *)
RemoveClient(c, i) ==
    /\ pc[c] = "remove"
    /\ i \in doomed[c]
    /\ registry[i] # None
    /\ doomed' = [doomed EXCEPT ![c] = @ \ {i}]
    /\ arg' = [arg EXCEPT ![c] = i]
    /\ victim' = [victim EXCEPT ![c] = registry[i]]
    /\ registry' = [registry EXCEPT ![i] = None]
    /\ Goto(c, "close")
    /\ UNCHANGED <<serverVars, peerVars, tokenVars, ghosts, rows, janitorVars>>

(* ... closes the connection that object writes to ...                     *)
CloseVictim(c) ==
    /\ pc[c] = "close"
    /\ open' = open \ {sender[victim[c]]}
    /\ victim' = [victim EXCEPT ![c] = None]
    /\ Goto(c, "row")
    /\ UNCHANGED <<serverVars, peerId, sender, logins, ended, tokenVars,
                   doomed, arg, storeVars, janitorVars>>

(* ... and removes the id's row.                                           *)
RemoveState(c) ==
    /\ pc[c] = "row"
    /\ Remove(arg[c])
    /\ arg' = [arg EXCEPT ![c] = None]
    /\ Goto(c, Onward(c, doomed[c]))
    /\ UNCHANGED <<serverVars, peerVars, tokenVars, doomed, victim, registry,
                   ghosts, janitorVars>>

(* A command arrives.                                                      *)
Receive(c) ==
    LoginKnown(c) \/ LoginNew(c) \/ \E F \in SUBSET Ids : CastFails(c, F)

(* What the task does of itself.                                           *)
Proceed(c) ==
    \/ ClaimGhost(c) \/ AddClient(c) \/ SaveState(c)
    \/ EndLoop(c)
    \/ \E i \in doomed[c] : RemoveNobody(c, i) \/ RemoveClient(c, i)
    \/ CloseVictim(c) \/ RemoveState(c)

-----------------------------------------------------------------------------
(* The Janitor.                                                            *)

(* take_inactive copies the ids of clients silent for client_timeout; any  *)
(* client may have been.                                                   *)
TakeInactive(S) ==
    /\ server = "up"
    /\ stale = {} /\ closing = None /\ expired = {}
    /\ S # {}
    /\ \A i \in S : registry[i] # None
    /\ stale' = S
    /\ UNCHANGED <<serverVars, pc, peerVars, tokenVars, removeVars, storeVars,
                   closing, expired>>

(* Mutant of RemoveInactive: never closes the connection.                  *)
BugInactiveNotClosed(i) ==
    /\ i \in stale
    /\ closing = None
    /\ stale' = stale \ {i}
    /\ registry' = [registry EXCEPT ![i] = None]
    /\ UNCHANGED <<serverVars, pc, peerVars, tokenVars, removeVars, ghosts,
                   rows, closing, expired>>

(* registry.remove_client of one of them, if it is still there; the row    *)
(* stays ...                                                               *)
RemoveInactive(i) ==
    /\ i \in stale
    /\ closing = None
    /\ stale' = stale \ {i}
    /\ closing' = registry[i]
    /\ registry' = [registry EXCEPT ![i] = None]
    /\ UNCHANGED <<serverVars, pc, peerVars, tokenVars, removeVars, ghosts,
                   rows, expired>>

(* ... then close.                                                         *)
CloseInactive ==
    /\ closing # None
    /\ open' = open \ {sender[closing]}
    /\ closing' = None
    /\ UNCHANGED <<serverVars, pc, peerId, sender, logins, ended, tokenVars,
                   removeVars, storeVars, stale, expired>>

(* take_expired_ghosts takes every row saved more than ghost_ttl_secs ago, *)
(* under the store's lock; how long ago that was is left open.             *)
TakeExpired(E) ==
    /\ server = "up"
    /\ stale = {} /\ closing = None /\ expired = {}
    /\ E # {}
    /\ TakeExpiredGhosts(E)
    /\ UNCHANGED <<serverVars, pc, peerVars, tokenVars, removeVars, registry,
                   ghosts, stale, closing>>

(* remove_ghost for one of them.                                           *)
RemoveGhost(i) ==
    /\ i \in expired
    /\ ghosts' = ghosts \ {i}
    /\ expired' = expired \ {i}
    /\ UNCHANGED <<serverVars, pc, peerVars, tokenVars, removeVars, registry,
                   rows, stale, closing>>

Janitor ==
    \/ \E S \in SUBSET Ids : TakeInactive(S)
    \/ \E i \in Ids : RemoveInactive(i)
    \/ CloseInactive
    \/ \E E \in SUBSET rows : TakeExpired(E)
    \/ \E i \in Ids : RemoveGhost(i)

-----------------------------------------------------------------------------
(* The rest of the world, and the server process.                          *)

(* The client hangs up, or the network does.                               *)
Disconnect(c) ==
    /\ c \in open
    /\ open' = open \ {c}
    /\ UNCHANGED <<serverVars, pc, peerId, sender, logins, ended, tokenVars,
                   removeVars, storeVars, janitorVars>>

(* cancel_client, from POST /admin/clients/:id/disconnect; cancelling the  *)
(* token of a loop that is over does nothing.                              *)
CancelClient(k) ==
    /\ server # "down"
    /\ tokens[k] # None
    /\ tokens[k] \notin ended
    /\ cancelled' = cancelled \cup {tokens[k]}
    /\ UNCHANGED <<serverVars, pc, peerVars, tokens, removeVars, storeVars,
                   janitorVars>>

(* The ids with a registered client and a saved row.                       *)
Sessions == {i \in Ids : registry[i] # None /\ i \in rows}

(* RexServerTrait::close: the shutdown signal.                             *)
Shutdown ==
    /\ server = "up"
    /\ server' = "stopping"
    /\ expected' = Sessions
    /\ UNCHANGED <<restarts, overlapped, pc, peerVars, tokenVars, removeVars, storeVars,
                   janitorVars>>

(* The process ends, after a shutdown or without one: only rows survive.   *)
Stop ==
    /\ server # "down"
    /\ server' = "down"
    /\ expected' = IF server = "up" THEN Sessions ELSE expected
    /\ pc' = [c \in Conns |-> IF pc[c] = "unborn" THEN "unborn" ELSE "done"]
    /\ peerId' = [c \in Conns |-> c]
    /\ sender' = [c \in Conns |-> c]
    /\ logins' = [c \in Conns |-> 0]
    /\ ended' = {}
    /\ open' = {}
    /\ tokens' = [k \in Keys |-> None]
    /\ cancelled' = {}
    /\ doomed' = [c \in Conns |-> {}]
    /\ arg' = [c \in Conns |-> None]
    /\ victim' = [c \in Conns |-> None]
    /\ registry' = [k \in Keys |-> None]
    /\ ghosts' = {}
    /\ stale' = {}
    /\ closing' = None
    /\ expired' = {}
    /\ UNCHANGED <<restarts, overlapped, rows>>

(* open_server: load_all, then add_ghost for every row.                    *)
Restart ==
    /\ server = "down"
    /\ restarts < MaxRestarts
    /\ restarts' = restarts + 1
    /\ server' = "up"
    /\ \E restored \in LoadAll : AddGhosts(restored)
    /\ expected' = {}
    /\ UNCHANGED <<overlapped, pc, peerVars, tokenVars, removeVars, registry, rows,
                   janitorVars>>

Next ==
    \/ \E c \in Conns : Accept(c) \/ Receive(c) \/ Proceed(c) \/ Disconnect(c)
    \/ Janitor
    \/ \E k \in Keys : CancelClient(k)
    \/ Shutdown \/ Stop \/ Restart

Spec == Init /\ [][Next]_vars

(* tokio runs every connection task that can go on; no command need arrive. *)
Fairness == \A c \in Conns : WF_vars(Proceed(c))

FairSpec == Spec /\ Fairness

-----------------------------------------------------------------------------
(* A registered client has no ghost: add_client claims the ghost before it *)
(* inserts the client, and only a restart, which registers nobody, makes   *)
(* new ones.                                                               *)
NoGhostWhileLive ==
    \A i \in Keys : registry[i] # None => i \notin ghosts

(* The object of a finished connection is not left in the registry: its    *)
(* task's remove_client comes last and looks under the id the object is    *)
(* registered under.                                                       *)
NoDeadSession ==
    \A i \in Keys : registry[i] # None =>
        /\ peerId[registry[i]] = i
        /\ pc[registry[i]] \notin {"unborn", "done"}

(* A client that logged in and whose connection works is registered, or is *)
(* about to be disconnected by who removed it: no removal (cast, Janitor,  *)
(* own task) leaves a client connected that nothing is routed to.  This is *)
(* of a connection that never met another one of its client: a login that  *)
(* finds its id taken leaves the connection under its uuid.                *)
LoggedInIsRegistered ==
    \A c \in Conns \ overlapped :
        pc[c] = "reading" /\ peerId[c] \in Ids /\ c \in open =>
            \/ registry[peerId[c]] = c
            \/ closing = c
            \/ \E d \in Conns : victim[d] = c

(* Every token in the admin map belongs to a connection that is still      *)
(* driven: drive unregisters it on every way out of its loop.              *)
TokensCleanedUp ==
    \A k \in Keys : tokens[k] # None => tokens[k] \notin ended

(* Who had a session and a saved row when the server was told to stop has  *)
(* a ghost right after the restart.                                        *)
RestartRestores ==
    [][server = "down" /\ server' = "up" => expected \subseteq ghosts']_vars

(* The task of a connection that broke, or was closed by a removal, comes  *)
(* to its end, remove_client included, wherever it was.                    *)
BrokenSessionEnds ==
    \A c \in Conns :
        (pc[c] # "unborn" /\ c \notin open) ~> (pc[c] = "done")
=============================================================================
