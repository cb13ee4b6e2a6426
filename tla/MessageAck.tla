----------------------------- MODULE MessageAck -----------------------------
(***************************************************************************)
(* Publishing and acknowledging a message in rex-server: the title, cast   *)
(* and group handlers (handler/title.rs, cast.rs, group.rs), the ack       *)
(* handler (handler/ack.rs), the pending-ACK map (system/ack.rs) and the   *)
(* Janitor's sweep over it (system/janitor.rs).                            *)
(*                                                                         *)
(* Every handler runs in a task of its own and gives way at each send, so  *)
(* an ACK may be handled while the cast it answers is still sending, and   *)
(* the sweep runs beside both.  All clients subscribe to one title; a      *)
(* message stands for its message_id.  The age of a pending ACK is the     *)
(* set "aged": an entry older than ack_timeout.                            *)
(***************************************************************************)
EXTENDS Naturals, FiniteSets

CONSTANTS Clients,  \* the clients logged in at the start
          Msgs,     \* messages they may publish
          Traffic,  \* <<message, kind, sender>>: who may publish it, and how
          Flaky,    \* the clients whose connections may fail
          None      \* "no client"

Kinds == {"title", "cast", "group"}

ASSUME ConstantsAssumption ==
    /\ Traffic \subseteq Msgs \X Kinds \X Clients
    /\ Flaky \subseteq Clients
    /\ None \notin Clients

Verdicts == {"NoTarget", "Success", "AckTimeout"}

VARIABLES
    ackEnabled,  \* server configuration: ack_enabled
    clientAck,   \* client configuration: ack_enabled
    registered,  \* clients in the registry, subscribed to the title
    up,          \* clients whose connection accepts data
    stage,       \* message -> "new", "sending" or "done"
    kind,        \* message -> its command
    source,      \* message -> its sender
    targets,     \* message -> clients its handler has still to send to
    sent,        \* message -> clients send_buf succeeded for
    failed,      \* message -> clients send_buf failed for, not yet scrubbed
    inbox,       \* <<message, client>>: written to the client's socket, unread
    received,    \* <<message, client>>: read by the client
    ackWire,     \* <<message, client>>: ACK on its way to the server
    pending,     \* keys of pending_acks (the value is source[m])
    aged,        \* those of them older than the timeout
    held,        \* message -> who took its entry out of pending_acks to answer it
    sweep,       \* entries the Janitor's take_expired has still to remove
    replies      \* message -> verdict -> how often its sender was told

handlerVars == <<stage, kind, source, targets, sent, failed>>
wireVars == <<inbox, received, ackWire>>
trackerVars == <<pending, aged, held, sweep>>
clientVars == <<registered, up>>
config == <<ackEnabled, clientAck>>
vars == <<config, clientVars, handlerVars, wireVars, trackerVars, replies>>

ClientsTypeOK ==
    /\ registered \subseteq Clients
    /\ up \subseteq Clients
    /\ inbox \subseteq Msgs \X Clients
    /\ received \subseteq Msgs \X Clients
    /\ ackWire \subseteq Msgs \X Clients

HandlersTypeOK ==
    /\ stage \in [Msgs -> {"new", "sending", "done"}]
    /\ kind \in [Msgs -> Kinds]
    /\ source \in [Msgs -> Clients \cup {None}]
    /\ targets \in [Msgs -> SUBSET Clients]
    /\ sent \in [Msgs -> SUBSET Clients]
    /\ failed \in [Msgs -> SUBSET Clients]
    /\ \A m \in Msgs : stage[m] # "new" => source[m] \in Clients
    /\ \A m \in Msgs : targets[m] # {} => stage[m] = "sending"

TrackerTypeOK ==
    /\ ackEnabled \in BOOLEAN
    /\ clientAck \in BOOLEAN
    /\ pending \subseteq Msgs
    /\ aged \subseteq Msgs
    /\ held \in [Msgs -> {"nobody", "handler", "janitor"}]
    /\ sweep \subseteq Msgs
    /\ replies \in [Msgs -> [Verdicts -> Nat]]

(* Every variable keeps its shape; only a handler that is still running has *)
(* targets left, and a published message has a sender.                     *)
TypeOK == ClientsTypeOK /\ HandlersTypeOK /\ TrackerTypeOK

Init ==
    /\ ackEnabled \in BOOLEAN
    /\ clientAck \in BOOLEAN
    /\ registered = Clients
    /\ up = Clients
    /\ stage = [m \in Msgs |-> "new"]
    /\ kind = [m \in Msgs |-> "title"]
    /\ source = [m \in Msgs |-> None]
    /\ targets = [m \in Msgs |-> {}]
    /\ sent = [m \in Msgs |-> {}]
    /\ failed = [m \in Msgs |-> {}]
    /\ inbox = {}
    /\ received = {}
    /\ ackWire = {}
    /\ pending = {}
    /\ aged = {}
    /\ held = [m \in Msgs |-> "nobody"]
    /\ sweep = {}
    /\ replies = [m \in Msgs |-> [v \in Verdicts |-> 0]]

-----------------------------------------------------------------------------
(* send_buf on the connection the message came from: the handlers answer   *)
(* there without asking the registry.                                      *)
ReplyTo(m, s, v) ==
    replies' = IF s \in up THEN [replies EXCEPT ![m][v] = @ + 1] ELSE replies

SendAck(m, v) == ReplyTo(m, source[m], v)

(* find_some_by_id, then send_buf: an AckReturn reaches its sender only    *)
(* while the registry still has the id.                                    *)
AckReturn(m, v) ==
    IF source[m] \in registered THEN SendAck(m, v) ELSE UNCHANGED replies

RegisterPendingAck(m) == pending' = pending \cup {m}

(* With ACKs enabled the message is given an id, unless the client gave it *)
(* one, and an entry in pending_acks under it.                             *)
SetupMessageAck(m) ==
    IF ackEnabled THEN RegisterPendingAck(m) ELSE UNCHANGED pending

(* The entry of m is removed, if it is there, and whoever removed it will  *)
(* answer the sender.                                                      *)
TakePendingAck(m, who) ==
    IF m \in pending
    THEN /\ pending' = pending \ {m}
         /\ aged' = aged \ {m}
         /\ held' = [held EXCEPT ![m] = who]
    ELSE UNCHANGED <<pending, aged, held>>

FindAllByTitle(s) == registered \ {s}

(* A local subscriber is drawn.  Without one the plan is the node "local" of  *)
(* the NoopClusterPort, and the forwarder, having no cluster, refuses.       *)
Route(s) == {{c} : c \in FindAllByTitle(s)}

(* A title goes to the one subscriber the router draws, a group message to *)
(* the next of the round robin, a cast to all.  The sender is left out.    *)
TargetSets(k, s) ==
    IF k = "cast" THEN {FindAllByTitle(s)} ELSE Route(s)

(* The handler up to its first send: look up the targets, answer NoTarget  *)
(* when there are none (a title is then offered to the forwarder, which    *)
(* has no cluster to reach and reports PeerUnreachable), and otherwise     *)
(* register the pending ACK.                                               *)
Publish(m, k, s) ==
    /\ <<m, k, s>> \in Traffic
    /\ stage[m] = "new"
    /\ s \in registered \cap up
    /\ source' = [source EXCEPT ![m] = s]
    /\ \/ /\ FindAllByTitle(s) = {}
          /\ stage' = [stage EXCEPT ![m] = "done"]
          /\ ReplyTo(m, s, "NoTarget")
          /\ UNCHANGED <<kind, targets, pending>>
       \/ /\ FindAllByTitle(s) # {}
          /\ kind' = [kind EXCEPT ![m] = k]
          /\ \E T \in TargetSets(k, s) : targets' = [targets EXCEPT ![m] = T]
          /\ stage' = [stage EXCEPT ![m] = "sending"]
          /\ SetupMessageAck(m)
          /\ UNCHANGED replies
    /\ UNCHANGED <<config, clientVars, wireVars, sent, failed, aged, held, sweep>>

(* One send_buf: a cast has one in flight per target and they complete in  *)
(* any order.                                                              *)
Send(m, c) ==
    /\ stage[m] = "sending"
    /\ c \in targets[m]
    /\ targets' = [targets EXCEPT ![m] = @ \ {c}]
    /\ \/ /\ c \in up
          /\ inbox' = inbox \cup {<<m, c>>}
          /\ sent' = [sent EXCEPT ![m] = @ \cup {c}]
          /\ UNCHANGED failed
       \/ /\ c \notin up
          /\ failed' = [failed EXCEPT ![m] = @ \cup {c}]
          /\ UNCHANGED <<inbox, sent>>
    /\ UNCHANGED <<config, clientVars, stage, kind, source, received, ackWire,
                   trackerVars, replies>>

(* A cast removes every client it could not reach, one after the other.    *)
Scrub(m, c) ==
    /\ stage[m] = "sending"
    /\ kind[m] = "cast"
    /\ targets[m] = {}
    /\ c \in failed[m]
    /\ failed' = [failed EXCEPT ![m] = @ \ {c}]
    /\ registered' = registered \ {c}
    /\ up' = up \ {c}
    /\ UNCHANGED <<config, stage, kind, source, targets, sent, wireVars, trackerVars, replies>>

(* Mutated form: forget to look at what the sends returned.                *)
BugAlwaysNoTarget(m) == kind[m] = "group" => ~ackEnabled

(* Whether a handler that reached nobody answers NoTarget: a group handler *)
(* leaves it to the ACK timeout.                                           *)
AnswersNoTarget(m) ==
    sent[m] = {} /\ (kind[m] = "group" => ~ackEnabled)

(* Mutated form: return without waiting for the sends that are in flight.  *)
BugConcludeEarly(m) ==
    /\ stage[m] = "sending"
    /\ stage' = [stage EXCEPT ![m] = "done"]
    /\ UNCHANGED <<config, clientVars, kind, source, targets, sent, failed, wireVars,
                   trackerVars, replies>>

(* The handler has sent to all its targets and returns; its locals go.     *)
Conclude(m) ==
    /\ stage[m] = "sending"
    /\ targets[m] = {}
    /\ kind[m] = "cast" => failed[m] = {}
    /\ IF AnswersNoTarget(m)
       THEN ReplyTo(m, source[m], "NoTarget")
       ELSE UNCHANGED replies
    /\ stage' = [stage EXCEPT ![m] = "done"]
    /\ kind' = [kind EXCEPT ![m] = "title"]
    /\ sent' = [sent EXCEPT ![m] = {}]
    /\ failed' = [failed EXCEPT ![m] = {}]
    /\ UNCHANGED <<config, clientVars, source, targets, wireVars, trackerVars>>

-----------------------------------------------------------------------------
(* The receiving client acknowledges a message that carries an id before   *)
(* it hands it to the application.                                         *)
Receive(m, c) ==
    /\ <<m, c>> \in inbox
    /\ c \in up
    /\ inbox' = inbox \ {<<m, c>>}
    /\ received' = received \cup {<<m, c>>}
    /\ ackWire' = IF ackEnabled \/ clientAck THEN ackWire \cup {<<m, c>>} ELSE ackWire
    /\ UNCHANGED <<config, clientVars, handlerVars, trackerVars, replies>>

(* Mutated form: look the entry up (get) instead of taking it.             *)
BugAckNotTaken(m, c) ==
    /\ <<m, c>> \in ackWire
    /\ ackWire' = ackWire \ {<<m, c>>}
    /\ held' = IF ackEnabled /\ m \in pending THEN [held EXCEPT ![m] = "handler"] ELSE held
    /\ UNCHANGED <<config, clientVars, handlerVars, inbox, received, pending, aged, sweep, replies>>

(* The ack handler: only the first ACK of a message finds its entry.       *)
HandleAck(m, c) ==
    /\ <<m, c>> \in ackWire
    /\ ackWire' = ackWire \ {<<m, c>>}
    /\ IF ackEnabled THEN TakePendingAck(m, "handler") ELSE UNCHANGED <<pending, aged, held>>
    /\ UNCHANGED <<config, clientVars, handlerVars, inbox, received, sweep, replies>>

ForwardAck(m) ==
    /\ held[m] = "handler"
    /\ held' = [held EXCEPT ![m] = "nobody"]
    /\ AckReturn(m, "Success")
    /\ UNCHANGED <<config, clientVars, handlerVars, wireVars, pending, aged, sweep>>

-----------------------------------------------------------------------------
(* The clock passes ack_timeout for a pending entry.                       *)
Age(m) ==
    /\ m \in pending \ aged
    /\ aged' = aged \cup {m}
    /\ UNCHANGED <<config, clientVars, handlerVars, wireVars, pending, held, sweep, replies>>

(* Mutated form: sweep only the entries whose sender can be told.          *)
BugSweepSkipsOrphans ==
    /\ ackEnabled
    /\ sweep = {}
    /\ \A m \in Msgs : held[m] # "janitor"
    /\ sweep' = {m \in aged : source[m] \in registered}
    /\ sweep' # {}
    /\ UNCHANGED <<config, clientVars, handlerVars, wireVars, pending, aged, held, replies>>

(* take_expired first lists the expired ids, then removes them one by one  *)
(* and reports only those that were still there; cleanup_expired_acks      *)
(* answers after all are removed.                                          *)
SweepCollect ==
    /\ ackEnabled
    /\ sweep = {}
    /\ \A m \in Msgs : held[m] # "janitor"
    /\ aged # {}
    /\ sweep' = aged
    /\ UNCHANGED <<config, clientVars, handlerVars, wireVars, pending, aged, held, replies>>

(* Mutated form: report every listed id, removed or not.                   *)
BugSweepReportsAll(m) ==
    /\ m \in sweep
    /\ sweep' = sweep \ {m}
    /\ pending' = pending \ {m}
    /\ aged' = aged \ {m}
    /\ held' = [held EXCEPT ![m] = "janitor"]
    /\ UNCHANGED <<config, clientVars, handlerVars, wireVars, replies>>

SweepRemove(m) ==
    /\ m \in sweep
    /\ sweep' = sweep \ {m}
    /\ TakePendingAck(m, "janitor")
    /\ UNCHANGED <<config, clientVars, handlerVars, wireVars, replies>>

(* Mutated forms: an AckReturn without set_retcode(AckTimeout); none at    *)
(* all.                                                                    *)
BugTimeoutAsSuccess(m) ==
    /\ sweep = {}
    /\ held[m] = "janitor"
    /\ held' = [held EXCEPT ![m] = "nobody"]
    /\ AckReturn(m, "Success")
    /\ UNCHANGED <<config, clientVars, handlerVars, wireVars, pending, aged, sweep>>

BugSweepSilent(m) ==
    /\ sweep = {}
    /\ held[m] = "janitor"
    /\ held' = [held EXCEPT ![m] = "nobody"]
    /\ UNCHANGED <<config, clientVars, handlerVars, wireVars, pending, aged, sweep, replies>>

SweepReply(m) ==
    /\ sweep = {}
    /\ held[m] = "janitor"
    /\ held' = [held EXCEPT ![m] = "nobody"]
    /\ AckReturn(m, "AckTimeout")
    /\ UNCHANGED <<config, clientVars, handlerVars, wireVars, pending, aged, sweep>>

-----------------------------------------------------------------------------
(* A connection breaks; what was written to it and not read is lost.       *)
Break(c) ==
    /\ c \in Flaky \cap up
    /\ up' = up \ {c}
    /\ inbox' = inbox \ (Msgs \X {c})
    /\ UNCHANGED <<config, registered, handlerVars, received, ackWire, trackerVars, replies>>

(* The Janitor takes an inactive client out of the registry and then closes *)
(* it, which is a Break.                                                   *)
RemoveInactive(c) ==
    /\ c \in Flaky \cap registered
    /\ registered' = registered \ {c}
    /\ UNCHANGED <<config, up, handlerVars, wireVars, trackerVars, replies>>

(* The server's read loop ends: it removes the client, and ACKs it had not *)
(* read yet are lost.                                                      *)
ReadLoopEnds(c) ==
    /\ c \notin up
    /\ c \in registered \/ ackWire \cap (Msgs \X {c}) # {}
    /\ registered' = registered \ {c}
    /\ ackWire' = ackWire \ (Msgs \X {c})
    /\ UNCHANGED <<config, up, handlerVars, inbox, received, trackerVars, replies>>

Handler(m) ==
    \/ \E c \in Clients : Send(m, c) \/ Scrub(m, c)
    \/ Conclude(m)

Janitor == SweepCollect \/ \E m \in Msgs : SweepRemove(m) \/ SweepReply(m)

Next ==
    \/ \E m \in Msgs, k \in Kinds, s \in Clients : Publish(m, k, s)
    \/ \E m \in Msgs, c \in Clients :
          Send(m, c) \/ Scrub(m, c) \/ Receive(m, c) \/ HandleAck(m, c)
    \/ \E m \in Msgs : Conclude(m) \/ ForwardAck(m) \/ Age(m) \/ SweepRemove(m) \/ SweepReply(m)
    \/ SweepCollect
    \/ \E c \in Clients : Break(c) \/ RemoveInactive(c) \/ ReadLoopEnds(c)

(* Handlers and the Janitor keep running (tokio polls every ready task) and *)
(* the clock advances.  Nothing is assumed of the clients and the network. *)
Fairness ==
    /\ \A m \in Msgs : WF_vars(Handler(m)) /\ WF_vars(ForwardAck(m)) /\ WF_vars(Age(m))
    /\ WF_vars(Janitor)

Spec == Init /\ [][Next]_vars
FairSpec == Spec /\ Fairness

-----------------------------------------------------------------------------
(* Properties                                                              *)

Receivers(m) == {c \in Clients : <<m, c>> \in received}
AckReturns(m) == replies[m]["Success"] + replies[m]["AckTimeout"]

(* The sender of a message is sent at most one AckReturn, although every    *)
(* receiver of a cast acknowledges it and the Janitor's sweep races the ack *)
(* handler: whoever removes the entry from pending_acks is the one to answer. *)
AtMostOneAckReturn == \A m \in Msgs : AckReturns(m) <= 1

(* An AckReturn with RetCode Success is only sent after some target of the  *)
(* message received it.                                                    *)
SuccessIsHonest ==
    \A m \in Msgs : replies[m]["Success"] > 0 => Receivers(m) # {}

(* A sender that is told NoTarget by the title, cast or group handler can   *)
(* publish the message again: no client has received it or ever will.      *)
NoTargetIsHonest ==
    \A m \in Msgs : replies[m]["NoTarget"] > 0
        => Receivers(m) = {} /\ inbox \cap ({m} \X Clients) = {}

(* "Should receive NoTarget error, not ACK": a sender that was told that    *)
(* nobody got its message is not sent an AckReturn for it as well.          *)
NoTargetOrAck ==
    \A m \in Msgs : replies[m]["NoTarget"] > 0 => AckReturns(m) = 0

(* The ticket a message has while its entry is in pending_acks or in the    *)
(* hands of the task that took it out.                                     *)
TicketOf(m) ==
    IF m \in pending \/ held[m] # "nobody" THEN "open"
    ELSE IF stage[m] = "new" THEN "none" ELSE "closed"

Ticket == INSTANCE AckTicket WITH
    ticket <- [m \in Msgs |-> TicketOf(m)],
    answers <- [m \in Msgs |-> [v \in {"Success", "AckTimeout"} |-> replies[m][v]]]

(* Handlers, ACKs and the Janitor together keep the promise of AckTicket:   *)
(* one ticket per message, closed once, with one verdict or none.           *)
KeepsTicketPromise == Ticket!Spec

SourcePresent(m) == source[m] \in registered \cap up

(* Every entry of pending_acks is removed in the end, by an ACK or by the   *)
(* Janitor's sweep, whatever becomes of sender and receivers.              *)
PendingIsResolved == <>[](pending = {})

(* With ACKs enabled no publish goes unanswered: its sender is sent some    *)
(* verdict, unless its connection or its registration goes first.          *)
SenderIsTold ==
    <>[](\A m \in Msgs : stage[m] # "new" /\ ackEnabled /\ SourcePresent(m)
            => \E v \in Verdicts : replies[m][v] > 0)
=============================================================================
