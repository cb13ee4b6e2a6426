-------------------------- MODULE MessageAckProofs --------------------------
(***************************************************************************)
(* Proofs about MessageAck, for any clients, messages and traffic.         *)
(***************************************************************************)
EXTENDS MessageAck, TLAPS

(* An entry of pending_acks belongs to a message that was published, and    *)
(* while it is there nobody holds it; whoever holds one is about a          *)
(* published message, and as long as the ticket is open there was no        *)
(* AckReturn.                                                              *)
OneOwner ==
    \A m \in Msgs :
        /\ m \in pending => stage[m] # "new" /\ held[m] = "nobody"
        /\ held[m] # "nobody" => stage[m] # "new"
        /\ TicketOf(m) # "closed" => replies[m]["Success"] = 0 /\ replies[m]["AckTimeout"] = 0
        /\ replies[m]["Success"] + replies[m]["AckTimeout"] <= 1

Reached(m) == {c \in Clients : <<m, c>> \in inbox \cup received}

(* A message is in a client's hands only if its handler sent it there; a    *)
(* handler answers NoTarget when it is done and has reached nobody; an ACK  *)
(* comes from a receiver.                                                  *)
Delivery ==
    \A m \in Msgs :
        /\ stage[m] = "new" => Reached(m) = {}
        /\ stage[m] = "sending" => Reached(m) \subseteq sent[m]
        /\ stage[m] # "done" => replies[m]["NoTarget"] = 0
        /\ replies[m]["NoTarget"] > 0 => Reached(m) = {}
        /\ \A c \in Clients : <<m, c>> \in ackWire => <<m, c>> \in received
        /\ held[m] = "handler" => Receivers(m) # {}
        /\ replies[m]["Success"] > 0 => Receivers(m) # {}

-----------------------------------------------------------------------------
(* What a reply may change: the counter of one verdict of one message, by   *)
(* one.                                                                    *)
LEMMA ReplyEffect ==
    ASSUME TypeOK, NEW m \in Msgs, NEW s, NEW v \in Verdicts, ReplyTo(m, s, v)
    PROVE  /\ replies' \in [Msgs -> [Verdicts -> Nat]]
           /\ \A n \in Msgs, w \in Verdicts :
                 (n # m \/ w # v) => replies'[n][w] = replies[n][w]
           /\ replies'[m][v] \in {replies[m][v], replies[m][v] + 1}
BY DEF ReplyTo, TypeOK, TrackerTypeOK, Verdicts

LEMMA AckReturnEffect ==
    ASSUME TypeOK, NEW m \in Msgs, NEW v \in Verdicts, AckReturn(m, v)
    PROVE  /\ replies' \in [Msgs -> [Verdicts -> Nat]]
           /\ \A n \in Msgs, w \in Verdicts :
                 (n # m \/ w # v) => replies'[n][w] = replies[n][w]
           /\ replies'[m][v] \in {replies[m][v], replies[m][v] + 1}
<1>1. CASE source[m] \in registered
  <2>1. ReplyTo(m, source[m], v)
    BY <1>1, Zenon DEF AckReturn, SendAck
  <2> QED
    BY <2>1, ReplyEffect, Zenon
<1>2. CASE source[m] \notin registered
  BY <1>2, Zenon DEF AckReturn, SendAck, TypeOK, TrackerTypeOK, Verdicts
<1> QED
  BY <1>1, <1>2, Zenon

-----------------------------------------------------------------------------
(* Every step keeps the shape of the state.                                *)
LEMMA PublishType ==
    ASSUME TypeOK, NEW m \in Msgs, NEW k \in Kinds, NEW s \in Clients, Publish(m, k, s)
    PROVE  TypeOK'
<1>1. replies' \in [Msgs -> [Verdicts -> Nat]]
  <2>1. CASE ReplyTo(m, s, "NoTarget")
    BY <2>1, ReplyEffect, Zenon DEF Verdicts
  <2>2. CASE UNCHANGED replies
    BY <2>2, Zenon DEF TypeOK, TrackerTypeOK
  <2> QED
    BY <2>1, <2>2, Zenon DEF Publish, SetupMessageAck, RegisterPendingAck, FindAllByTitle
<1>2. ClientsTypeOK'
  BY Zenon DEF Publish, SetupMessageAck, RegisterPendingAck, FindAllByTitle, TypeOK,
         ClientsTypeOK, config, clientVars, wireVars
<1>3. /\ stage' \in [Msgs -> {"new", "sending", "done"}]
      /\ source' = [source EXCEPT ![m] = s]
      /\ stage'[m] # "new"
      /\ \A n \in Msgs : n # m => stage'[n] = stage[n]
      /\ kind' \in [Msgs -> Kinds]
      /\ \/ targets' = targets /\ stage'[m] = "done"
         \/ stage'[m] = "sending" /\ \E T \in SUBSET Clients : targets' = [targets EXCEPT ![m] = T]
  BY DEF Publish, SetupMessageAck, RegisterPendingAck, FindAllByTitle, TypeOK,
         ClientsTypeOK, HandlersTypeOK, TargetSets, Route, Kinds
<1>4. sent' = sent /\ failed' = failed
  BY Zenon DEF Publish, SetupMessageAck, RegisterPendingAck, FindAllByTitle
<1>5. HandlersTypeOK'
  BY <1>3, <1>4 DEF TypeOK, HandlersTypeOK, Publish, SetupMessageAck, RegisterPendingAck,
         FindAllByTitle
<1>6. TrackerTypeOK'
  BY <1>1, Zenon DEF Publish, SetupMessageAck, RegisterPendingAck, FindAllByTitle, TypeOK,
         TrackerTypeOK, config
<1> QED
  BY <1>2, <1>5, <1>6, Zenon DEF TypeOK

LEMMA HandlerType ==
    ASSUME TypeOK, NEW m \in Msgs, NEW c \in Clients,
           Send(m, c) \/ Scrub(m, c)
    PROVE  TypeOK'
<1>1. CASE Send(m, c)
  <2>1. HandlersTypeOK'
    BY <1>1 DEF Send, TypeOK, HandlersTypeOK
  <2>2. ClientsTypeOK'
    BY <1>1 DEF Send, TypeOK, ClientsTypeOK, clientVars
  <2>3. TrackerTypeOK'
    BY <1>1, Zenon DEF Send, TypeOK, TrackerTypeOK, config, trackerVars
  <2> QED
    BY <2>1, <2>2, <2>3, Zenon DEF TypeOK
<1>2. CASE Scrub(m, c)
  BY <1>2, Zenon DEF Scrub, TypeOK, ClientsTypeOK, HandlersTypeOK, TrackerTypeOK, config, wireVars,
              trackerVars
<1> QED
  BY <1>1, <1>2, Zenon

LEMMA ConcludeType ==
    ASSUME TypeOK, NEW m \in Msgs, Conclude(m)
    PROVE  TypeOK'
<1>1. replies' \in [Msgs -> [Verdicts -> Nat]]
  <2>1. CASE ReplyTo(m, source[m], "NoTarget")
    BY <2>1, ReplyEffect, Zenon DEF Verdicts
  <2>2. CASE UNCHANGED replies
    BY <2>2, Zenon DEF TypeOK, TrackerTypeOK
  <2> QED
    BY <2>1, <2>2, Zenon DEF Conclude
<1>2. ClientsTypeOK' /\ HandlersTypeOK'
  BY Zenon DEF Conclude, TypeOK, ClientsTypeOK, HandlersTypeOK, Kinds, clientVars, wireVars
<1>3. TrackerTypeOK'
  BY <1>1, Zenon DEF Conclude, TypeOK, TrackerTypeOK, config, trackerVars
<1> QED
  BY <1>2, <1>3, Zenon DEF TypeOK

LEMMA WireType ==
    ASSUME TypeOK, NEW m \in Msgs, NEW c \in Clients,
           Receive(m, c) \/ HandleAck(m, c)
    PROVE  TypeOK'
<1>1. HandlersTypeOK'
  BY Zenon DEF Receive, HandleAck, TakePendingAck, handlerVars, TypeOK,
         HandlersTypeOK
<1>2. ClientsTypeOK'
  BY Zenon DEF Receive, HandleAck, TakePendingAck, clientVars, wireVars, TypeOK,
         ClientsTypeOK
<1>3. TrackerTypeOK'
  BY Zenon DEF Receive, HandleAck, TakePendingAck, config, trackerVars, TypeOK,
         TrackerTypeOK
<1> QED
  BY <1>1, <1>2, <1>3, Zenon DEF TypeOK

LEMMA ConnectionType ==
    ASSUME TypeOK, NEW c \in Clients,
           Break(c) \/ RemoveInactive(c) \/ ReadLoopEnds(c)
    PROVE  TypeOK'
<1>1. HandlersTypeOK'
  BY Zenon DEF Break, RemoveInactive, ReadLoopEnds, handlerVars, TypeOK,
         HandlersTypeOK
<1>2. ClientsTypeOK'
  BY Zenon DEF Break, RemoveInactive, ReadLoopEnds, clientVars, wireVars, TypeOK,
         ClientsTypeOK
<1>3. TrackerTypeOK'
  BY Zenon DEF Break, RemoveInactive, ReadLoopEnds, config, trackerVars, TypeOK,
         TrackerTypeOK
<1> QED
  BY <1>1, <1>2, <1>3, Zenon DEF TypeOK

LEMMA TrackerType ==
    ASSUME TypeOK, NEW m \in Msgs,
           ForwardAck(m) \/ Age(m) \/ SweepRemove(m) \/ SweepReply(m)
    PROVE  TypeOK'
<1>1. ClientsTypeOK' /\ HandlersTypeOK'
  BY Zenon DEF ForwardAck, Age, SweepRemove, TakePendingAck, SweepReply, clientVars, handlerVars,
         wireVars,
         TypeOK, ClientsTypeOK, HandlersTypeOK
<1>2. replies' \in [Msgs -> [Verdicts -> Nat]]
  <2>1. CASE AckReturn(m, "Success") \/ AckReturn(m, "AckTimeout")
    BY <2>1, AckReturnEffect, Zenon DEF Verdicts
  <2>2. CASE UNCHANGED replies
    BY <2>2, Zenon DEF TypeOK, TrackerTypeOK
  <2> QED
    BY <2>1, <2>2, Zenon DEF ForwardAck, Age, SweepRemove, TakePendingAck, SweepReply
<1>3. TrackerTypeOK'
  BY <1>2, Zenon DEF ForwardAck, Age, SweepRemove, TakePendingAck, SweepReply, config, TypeOK,
              TrackerTypeOK
<1> QED
  BY <1>1, <1>3, Zenon DEF TypeOK

LEMMA CollectType ==
    ASSUME TypeOK, SweepCollect
    PROVE  TypeOK'
BY Zenon DEF SweepCollect, config, clientVars, handlerVars, wireVars, TypeOK, ClientsTypeOK,
       HandlersTypeOK, TrackerTypeOK

LEMMA TypeStep == TypeOK /\ [Next]_vars => TypeOK'
<1> SUFFICES ASSUME TypeOK, [Next]_vars PROVE TypeOK'
  OBVIOUS
<1>1. CASE Next
  BY <1>1, PublishType, HandlerType, ConcludeType, WireType, ConnectionType, TrackerType, CollectType, Zenon
  DEF Next
<1>2. CASE UNCHANGED vars
  BY <1>2, Zenon DEF vars, config, clientVars, handlerVars, wireVars, trackerVars, TypeOK,
         ClientsTypeOK,
              HandlersTypeOK, TrackerTypeOK
<1> QED
  BY <1>1, <1>2, Zenon

(* The state of publishing, acknowledging and sweeping keeps its shape.     *)
THEOREM TypeCorrect == Spec => []TypeOK
<1>1. Init => TypeOK
  BY DEF Init, TypeOK, ClientsTypeOK, HandlersTypeOK, TrackerTypeOK, Kinds
<1> QED
  BY <1>1, TypeStep, PTL DEF Spec

-----------------------------------------------------------------------------
(* OneOwner, step by step.  Publish opens a ticket only for a new message;  *)
(* HandleAck and SweepRemove pass it on; ForwardAck and SweepReply close it. *)
LEMMA OwnerStep ==
    ASSUME TypeOK, OneOwner, [Next]_vars
    PROVE  OneOwner'
<1> USE DEF OneOwner, TicketOf
<1>1. ASSUME NEW m \in Msgs, NEW k \in Kinds, NEW s \in Clients, Publish(m, k, s)
      PROVE  OneOwner'
  <2>1. \A n \in Msgs, v \in {"Success", "AckTimeout"} : replies'[n][v] = replies[n][v]
    <3>1. CASE ReplyTo(m, s, "NoTarget")
      BY <3>1, ReplyEffect DEF Verdicts
    <3>2. CASE UNCHANGED replies
      BY <3>2, Zenon
    <3> QED
      BY <1>1, <3>1, <3>2, Zenon DEF Publish, SetupMessageAck, RegisterPendingAck, FindAllByTitle
  <2>2. /\ stage[m] = "new" /\ stage'[m] # "new"
        /\ \A n \in Msgs : n # m => stage'[n] = stage[n]
        /\ held' = held
        /\ pending' \in {pending, pending \cup {m}}
    BY <1>1, Zenon DEF Publish, SetupMessageAck, RegisterPendingAck, FindAllByTitle, TypeOK,
           HandlersTypeOK
  <2> QED
    BY <2>1, <2>2
<1>2. ASSUME NEW m \in Msgs, NEW c, Send(m, c) \/ Scrub(m, c) \/ Conclude(m)
      PROVE  OneOwner'
  <2>1. \A n \in Msgs, v \in {"Success", "AckTimeout"} : replies'[n][v] = replies[n][v]
    <3>1. CASE ReplyTo(m, source[m], "NoTarget")
      BY <3>1, ReplyEffect DEF Verdicts
    <3>2. CASE UNCHANGED replies
      BY <3>2, Zenon
    <3> QED
      BY <1>2, <3>1, <3>2, Zenon DEF Send, Scrub, Conclude
  <2>2. /\ \A n \in Msgs : stage'[n] = "new" <=> stage[n] = "new"
        /\ held' = held /\ pending' = pending
    BY <1>2, Zenon DEF Send, Scrub, Conclude, trackerVars, TypeOK, HandlersTypeOK
  <2> QED
    BY <2>1, <2>2
<1>3. ASSUME NEW m, NEW c,
             \/ Receive(m, c) \/ Break(c) \/ RemoveInactive(c) \/ ReadLoopEnds(c)
             \/ Age(m) \/ SweepCollect
      PROVE  OneOwner'
  BY <1>3, Zenon DEF Receive, Break, RemoveInactive, ReadLoopEnds, Age, SweepCollect, handlerVars,
              trackerVars
<1>4. ASSUME NEW m \in Msgs, NEW c, HandleAck(m, c) \/ SweepRemove(m)
      PROVE  OneOwner'
  <2>1. replies' = replies /\ stage' = stage
    BY <1>4, Zenon DEF HandleAck, SweepRemove, TakePendingAck, handlerVars
  <2>2. \/ pending' = pending /\ held' = held
        \/ /\ m \in pending
           /\ pending' = pending \ {m}
           /\ held'[m] # "nobody"
           /\ \A n \in Msgs : n # m => held'[n] = held[n]
    BY <1>4, Zenon DEF HandleAck, SweepRemove, TakePendingAck, TypeOK, TrackerTypeOK
  <2> QED
    BY <2>1, <2>2, Zenon
<1>5. ASSUME NEW m \in Msgs, ForwardAck(m) \/ SweepReply(m)
      PROVE  OneOwner'
  <2>1. /\ stage' = stage /\ pending' = pending
        /\ held[m] # "nobody" /\ held'[m] = "nobody"
        /\ \A n \in Msgs : n # m => held'[n] = held[n]
    BY <1>5, Zenon DEF ForwardAck, SweepReply, handlerVars, TypeOK, TrackerTypeOK
  <2>2. PICK v \in {"Success", "AckTimeout"} : AckReturn(m, v)
    BY <1>5, Zenon DEF ForwardAck, SweepReply
  <2>3. /\ \A n \in Msgs, w \in {"Success", "AckTimeout"} :
              (n # m \/ w # v) => replies'[n][w] = replies[n][w]
        /\ replies'[m][v] \in {replies[m][v], replies[m][v] + 1}
    BY <2>2, AckReturnEffect DEF Verdicts
  <2>4. replies[m]["Success"] = 0 /\ replies[m]["AckTimeout"] = 0
    BY <2>1, Zenon
  <2>5. replies'[m]["Success"] + replies'[m]["AckTimeout"] <= 1
    BY <2>3, <2>4
  <2>6. stage[m] # "new"
    BY <2>1, Zenon
  <2> QED
    BY <2>1, <2>3, <2>5, <2>6, ZenonT(40)
<1>6. CASE UNCHANGED vars
  BY <1>6, Zenon DEF vars, handlerVars, trackerVars
<1> QED
  BY <1>1, <1>2, <1>3, <1>4, <1>5, <1>6, Zenon DEF Next

LEMMA OwnerInvariant == Spec => [](TypeOK /\ OneOwner)
<1>1. Init => TypeOK /\ OneOwner
  BY DEF Init, TypeOK, ClientsTypeOK, HandlersTypeOK, TrackerTypeOK, Kinds, OneOwner, TicketOf,
         Verdicts
<1>2. TypeOK /\ OneOwner /\ [Next]_vars => (TypeOK /\ OneOwner)'
  BY TypeStep, OwnerStep, Zenon
<1> QED
  BY <1>1, <1>2, PTL DEF Spec

(* The sender of a message is sent at most one AckReturn, however many      *)
(* receivers acknowledge it and whenever the Janitor's sweep runs: taking   *)
(* the entry out of pending_acks is what entitles a task to answer.         *)
THEOREM SingleAckReturn == Spec => []AtMostOneAckReturn
<1>1. TypeOK /\ OneOwner => AtMostOneAckReturn
  BY Zenon DEF OneOwner, AtMostOneAckReturn, AckReturns
<1> QED
  BY <1>1, OwnerInvariant, PTL

-----------------------------------------------------------------------------
(* Delivery, step by step.                                                 *)
LEMMA DeliveryStep ==
    ASSUME TypeOK, Delivery, [Next]_vars
    PROVE  Delivery'
<1> USE DEF Delivery, Reached, Receivers
<1>1. ASSUME NEW m \in Msgs, NEW k \in Kinds, NEW s \in Clients, Publish(m, k, s)
      PROVE  Delivery'
  <2>1. /\ \A n \in Msgs : replies'[n]["Success"] = replies[n]["Success"]
        /\ \A n \in Msgs : n # m => replies'[n]["NoTarget"] = replies[n]["NoTarget"]
        /\ stage'[m] = "sending" => replies'[m]["NoTarget"] = replies[m]["NoTarget"]
    <3>1. CASE ReplyTo(m, s, "NoTarget") /\ stage'[m] = "done"
      BY <3>1, ReplyEffect DEF Verdicts
    <3>2. CASE UNCHANGED replies
      BY <3>2, Zenon
    <3> QED
      BY <1>1, <3>1, <3>2 DEF Publish, SetupMessageAck, RegisterPendingAck, FindAllByTitle,
             TypeOK, HandlersTypeOK
  <2>2. /\ stage[m] = "new" /\ stage'[m] \in {"sending", "done"}
        /\ \A n \in Msgs : n # m => stage'[n] = stage[n]
        /\ held' = held /\ sent' = sent
        /\ inbox' = inbox /\ received' = received /\ ackWire' = ackWire
    BY <1>1, SMTT(30) DEF Publish, SetupMessageAck, RegisterPendingAck, FindAllByTitle,
           TypeOK, HandlersTypeOK, wireVars
  <2> QED
    BY <2>1, <2>2, ZenonT(40)
<1>2. ASSUME NEW m \in Msgs, NEW c \in Clients, Send(m, c)
      PROVE  Delivery'
  <2>1. /\ stage[m] = "sending" /\ stage' = stage /\ replies' = replies
        /\ received' = received /\ ackWire' = ackWire /\ held' = held
        /\ \/ inbox' = inbox /\ sent' = sent
           \/ /\ inbox' = inbox \cup {<<m, c>>}
              /\ sent'[m] = sent[m] \cup {c}
              /\ \A n \in Msgs : n # m => sent'[n] = sent[n]
    BY <1>2 DEF Send, trackerVars, TypeOK, HandlersTypeOK
  <2>2. /\ \A n \in Msgs : n # m => Reached(n)' = Reached(n)
        /\ Reached(m)' \subseteq sent'[m]
    BY <2>1, Zenon
  <2>3. /\ \A n \in Msgs : n # m => sent'[n] = sent[n]
        /\ \A n \in Msgs : Receivers(n)' = Receivers(n)
        /\ replies[m]["NoTarget"] = 0
    BY <2>1, Zenon
  <2>4. replies'[m]["NoTarget"] > 0 => Reached(m)' = {}
    BY <2>1, <2>3
  <2> QED
    BY <2>1, <2>2, <2>3, <2>4, SMTT(30)
<1>3. ASSUME NEW m \in Msgs, NEW c, Scrub(m, c)
      PROVE  Delivery'
  BY <1>3, ZenonT(40) DEF Scrub, wireVars, trackerVars
<1>4. ASSUME NEW m \in Msgs, Conclude(m)
      PROVE  Delivery'
  <2>1. /\ stage[m] = "sending" /\ stage'[m] = "done"
        /\ \A n \in Msgs : n # m => stage'[n] = stage[n] /\ sent'[n] = sent[n]
        /\ held' = held
        /\ inbox' = inbox /\ received' = received /\ ackWire' = ackWire
    BY <1>4, SMTT(30) DEF Conclude, wireVars, trackerVars, TypeOK, HandlersTypeOK
  <2>2. CASE sent[m] = {} /\ ReplyTo(m, source[m], "NoTarget")
    <3>1. /\ \A n \in Msgs : replies'[n]["Success"] = replies[n]["Success"]
          /\ \A n \in Msgs : n # m => replies'[n]["NoTarget"] = replies[n]["NoTarget"]
      BY <2>2, ReplyEffect DEF Verdicts
    <3>2. Reached(m) = {}
      BY <2>1, <2>2, Zenon
    <3> QED
      BY <2>1, <3>1, <3>2, ZenonT(40)
  <2>3. CASE UNCHANGED replies
    BY <2>1, <2>3, Zenon
  <2> QED
    BY <1>4, <2>2, <2>3, Zenon DEF Conclude, AnswersNoTarget
<1>5. ASSUME NEW m \in Msgs, NEW c \in Clients, Receive(m, c)
      PROVE  Delivery'
  <2>1. /\ stage' = stage /\ replies' = replies /\ sent' = sent /\ held' = held
        /\ <<m, c>> \in inbox
        /\ inbox' = inbox \ {<<m, c>>}
        /\ received' = received \cup {<<m, c>>}
        /\ ackWire' \in {ackWire, ackWire \cup {<<m, c>>}}
    BY <1>5, Zenon DEF Receive, handlerVars, trackerVars
  <2>2. \A n \in Msgs : Reached(n)' = Reached(n)
    BY <2>1, Zenon
  <2> QED
    BY <2>1, <2>2
<1>6. ASSUME NEW m \in Msgs, NEW c \in Clients, HandleAck(m, c)
      PROVE  Delivery'
  <2>1. /\ stage' = stage /\ replies' = replies /\ sent' = sent
        /\ inbox' = inbox /\ received' = received
        /\ <<m, c>> \in ackWire
        /\ ackWire' = ackWire \ {<<m, c>>}
        /\ \A n \in Msgs : n # m => held'[n] = held[n]
    BY <1>6, Zenon DEF HandleAck, TakePendingAck, handlerVars, TypeOK, TrackerTypeOK
  <2>2. Receivers(m) # {}
    BY <2>1, Zenon
  <2> QED
    BY <2>1, <2>2, Zenon
<1>7. ASSUME NEW m \in Msgs, ForwardAck(m) \/ SweepReply(m)
      PROVE  Delivery'
  <2>1. /\ stage' = stage /\ sent' = sent
        /\ inbox' = inbox /\ received' = received /\ ackWire' = ackWire
        /\ held'[m] = "nobody"
        /\ \A n \in Msgs : n # m => held'[n] = held[n]
    BY <1>7, Zenon DEF ForwardAck, SweepReply, handlerVars, wireVars, TypeOK, TrackerTypeOK
  <2>2. CASE held[m] = "handler" /\ AckReturn(m, "Success")
    <3>1. /\ \A n \in Msgs : replies'[n]["NoTarget"] = replies[n]["NoTarget"]
          /\ \A n \in Msgs : n # m => replies'[n]["Success"] = replies[n]["Success"]
      BY <2>2, AckReturnEffect DEF Verdicts
    <3> QED
      BY <2>1, <2>2, <3>1
  <2>3. CASE AckReturn(m, "AckTimeout")
    <3>1. \A n \in Msgs : /\ replies'[n]["NoTarget"] = replies[n]["NoTarget"]
                          /\ replies'[n]["Success"] = replies[n]["Success"]
      BY <2>3, AckReturnEffect DEF Verdicts
    <3> QED
      BY <2>1, <3>1
  <2> QED
    BY <1>7, <2>2, <2>3, Zenon DEF ForwardAck, SweepReply
<1>8. ASSUME NEW m \in Msgs, SweepRemove(m)
      PROVE  Delivery'
  <2>1. /\ stage' = stage /\ sent' = sent /\ replies' = replies
        /\ inbox' = inbox /\ received' = received /\ ackWire' = ackWire
        /\ held'[m] \in {held[m], "janitor"}
        /\ \A n \in Msgs : n # m => held'[n] = held[n]
    BY <1>8, Zenon DEF SweepRemove, TakePendingAck, handlerVars, wireVars, TypeOK, TrackerTypeOK
  <2> QED
    BY <2>1, Zenon
<1>9. ASSUME NEW m, Age(m) \/ SweepCollect
      PROVE  Delivery'
  BY <1>9, Zenon DEF Age, SweepCollect, handlerVars, wireVars
<1>10. ASSUME NEW c, Break(c) \/ RemoveInactive(c) \/ ReadLoopEnds(c)
       PROVE  Delivery'
  <2>1. /\ stage' = stage /\ sent' = sent /\ replies' = replies /\ held' = held
        /\ inbox' \subseteq inbox /\ received' = received /\ ackWire' \subseteq ackWire
    BY <1>10, Zenon DEF Break, RemoveInactive, ReadLoopEnds, handlerVars, wireVars, trackerVars
  <2> QED
    BY <2>1, Zenon
<1>11. CASE UNCHANGED vars
  BY <1>11, Zenon DEF vars, handlerVars, wireVars, trackerVars
<1> QED
  BY <1>1, <1>2, <1>3, <1>4, <1>5, <1>6, <1>7, <1>8, <1>9, <1>10, <1>11, ZenonT(40) DEF Next

LEMMA DeliveryInvariant == Spec => [](TypeOK /\ Delivery)
<1>1. Init => TypeOK /\ Delivery
  BY DEF Init, TypeOK, ClientsTypeOK, HandlersTypeOK, TrackerTypeOK, Kinds, Verdicts, Delivery,
         Reached, Receivers
<1>2. TypeOK /\ Delivery /\ [Next]_vars => (TypeOK /\ Delivery)'
  BY TypeStep, DeliveryStep, Zenon
<1> QED
  BY <1>1, <1>2, PTL DEF Spec

(* A sender is told Success only after a target received the message: the   *)
(* ack handler only answers for an ACK a receiver sent.                    *)
THEOREM HonestSuccess == Spec => []SuccessIsHonest
<1>1. Delivery => SuccessIsHonest
  BY ZenonT(40) DEF Delivery, SuccessIsHonest
<1> QED
  BY <1>1, DeliveryInvariant, PTL

(* A sender is told NoTarget by a handler only for a message no client has  *)
(* received or will receive.                                               *)
THEOREM HonestNoTarget == Spec => []NoTargetIsHonest
<1>1. TypeOK /\ Delivery => NoTargetIsHonest
  BY DEF TypeOK, ClientsTypeOK, Delivery, Reached, Receivers, NoTargetIsHonest
<1> QED
  BY <1>1, DeliveryInvariant, PTL

-----------------------------------------------------------------------------
(* The refinement: which abstract step each concrete step is.              *)

AnswersOf(m) == [v \in {"Success", "AckTimeout"} |-> replies[m][v]]

(* A step that leaves the tickets and the AckReturns of all messages but m  *)
(* alone is an abstract step of m, or stutters.                            *)
LEMMA OpenStep ==
    ASSUME NEW m \in Msgs, TicketOf(m) = "none", TicketOf(m)' \in {"open", "closed"},
           \A n \in Msgs : n # m => TicketOf(n)' = TicketOf(n),
           \A n \in Msgs : AnswersOf(n)' = AnswersOf(n)
    PROVE  [Ticket!Next]_(Ticket!vars)
BY ZenonT(40) DEF Ticket!Next, Ticket!vars, Ticket!Open, Ticket!Refuse, AnswersOf

LEMMA SilentStep ==
    ASSUME \A n \in Msgs : TicketOf(n)' = TicketOf(n),
           \A n \in Msgs : AnswersOf(n)' = AnswersOf(n)
    PROVE  [Ticket!Next]_(Ticket!vars)
BY Zenon DEF Ticket!vars, AnswersOf

LEMMA CloseStep ==
    ASSUME NEW m \in Msgs, NEW v \in {"Success", "AckTimeout"},
           TicketOf(m) = "open", TicketOf(m)' = "closed",
           \A n \in Msgs : n # m => TicketOf(n)' = TicketOf(n) /\ AnswersOf(n)' = AnswersOf(n),
           AnswersOf(m)' \in {AnswersOf(m), [AnswersOf(m) EXCEPT ![v] = 1]}
    PROVE  [Ticket!Next]_(Ticket!vars)
<1> DEFINE T == [n \in Msgs |-> TicketOf(n)]
           A == [n \in Msgs |-> [w \in {"Success", "AckTimeout"} |-> replies[n][w]]]
<1>1. T[m] = "open" /\ T' = [T EXCEPT ![m] = "closed"]
  BY ZenonT(40)
<1>2. A' = A \/ A' = [A EXCEPT ![m][v] = 1]
  <2>1. /\ A = [n \in Msgs |-> AnswersOf(n)]
        /\ A' = [n \in Msgs |-> AnswersOf(n)']
    BY Zenon DEF AnswersOf
  <2> HIDE DEF A
  <2>2. CASE AnswersOf(m)' = AnswersOf(m)
    BY <2>1, <2>2, Zenon
  <2>3. CASE AnswersOf(m)' = [AnswersOf(m) EXCEPT ![v] = 1]
    <3>1. \A n \in Msgs : A'[n] = [A EXCEPT ![m][v] = 1][n]
      BY <2>1, <2>3, Zenon
    <3> QED
      BY <2>1, <3>1, Zenon
  <2> QED
    BY <2>2, <2>3, Zenon
<1>3. Ticket!Close(m)
  BY <1>1, <1>2, ZenonT(40) DEF Ticket!Close, Ticket!Answer, Ticket!AckVerdicts
<1> QED
  BY <1>3, Zenon DEF Ticket!Next

LEMMA TicketStep ==
    ASSUME TypeOK, OneOwner, [Next]_vars
    PROVE  [Ticket!Next]_(Ticket!vars)
<1>1. ASSUME NEW m \in Msgs, NEW k \in Kinds, NEW s \in Clients, Publish(m, k, s)
      PROVE  [Ticket!Next]_(Ticket!vars)
  <2>1. \A n \in Msgs : AnswersOf(n)' = AnswersOf(n)
    <3>1. CASE ReplyTo(m, s, "NoTarget")
      BY <3>1, ReplyEffect DEF Verdicts, AnswersOf
    <3>2. CASE UNCHANGED replies
      BY <3>2, Zenon DEF AnswersOf
    <3> QED
      BY <1>1, <3>1, <3>2, Zenon DEF Publish, SetupMessageAck, RegisterPendingAck, FindAllByTitle
  <2>2. /\ stage[m] = "new" /\ stage'[m] # "new"
        /\ \A n \in Msgs : n # m => stage'[n] = stage[n]
        /\ held' = held
        /\ pending' \in {pending, pending \cup {m}}
    BY <1>1, Zenon DEF Publish, SetupMessageAck, RegisterPendingAck, FindAllByTitle, TypeOK,
           HandlersTypeOK
  <2>3. /\ TicketOf(m) = "none" /\ TicketOf(m)' \in {"open", "closed"}
        /\ \A n \in Msgs : n # m => TicketOf(n)' = TicketOf(n)
    BY <2>2, Zenon DEF OneOwner, TicketOf
  <2> QED
    BY <2>1, <2>3, OpenStep, Zenon
<1>2. ASSUME NEW m \in Msgs, NEW c, Send(m, c) \/ Scrub(m, c) \/ Conclude(m)
      PROVE  [Ticket!Next]_(Ticket!vars)
  <2>1. \A n \in Msgs : AnswersOf(n)' = AnswersOf(n)
    <3>1. CASE ReplyTo(m, source[m], "NoTarget")
      BY <3>1, ReplyEffect DEF Verdicts, AnswersOf
    <3>2. CASE UNCHANGED replies
      BY <3>2, Zenon DEF AnswersOf
    <3> QED
      BY <1>2, <3>1, <3>2, Zenon DEF Send, Scrub, Conclude
  <2>2. \A n \in Msgs : TicketOf(n)' = TicketOf(n)
    BY <1>2, Zenon DEF Send, Scrub, Conclude, trackerVars, TypeOK, HandlersTypeOK, TicketOf
  <2> QED
    BY <2>1, <2>2, SilentStep, Zenon
<1>3. ASSUME NEW m, NEW c,
             \/ Receive(m, c) \/ Break(c) \/ RemoveInactive(c) \/ ReadLoopEnds(c)
             \/ Age(m) \/ SweepCollect
      PROVE  [Ticket!Next]_(Ticket!vars)
  <2>1. replies' = replies /\ stage' = stage /\ pending' = pending /\ held' = held
    BY <1>3, ZenonT(40) DEF Receive, Break, RemoveInactive, ReadLoopEnds, Age,
           SweepCollect, handlerVars,
                trackerVars
  <2> QED
    BY <2>1, SilentStep, Zenon DEF TicketOf, AnswersOf
<1>4. ASSUME NEW m \in Msgs, NEW c, HandleAck(m, c) \/ SweepRemove(m)
      PROVE  [Ticket!Next]_(Ticket!vars)
  <2>1. replies' = replies /\ stage' = stage
    BY <1>4, Zenon DEF HandleAck, SweepRemove, TakePendingAck, handlerVars
  <2>2. \/ pending' = pending /\ held' = held
        \/ /\ m \in pending
           /\ pending' = pending \ {m}
           /\ held'[m] # "nobody"
           /\ \A n \in Msgs : n # m => held'[n] = held[n]
    BY <1>4, Zenon DEF HandleAck, SweepRemove, TakePendingAck, TypeOK, TrackerTypeOK
  <2>3. \A n \in Msgs : TicketOf(n)' = TicketOf(n) /\ AnswersOf(n)' = AnswersOf(n)
    BY <2>1, <2>2, Zenon DEF TicketOf, AnswersOf
  <2> QED
    BY <2>3, SilentStep, Zenon
<1>5. ASSUME NEW m \in Msgs, ForwardAck(m) \/ SweepReply(m)
      PROVE  [Ticket!Next]_(Ticket!vars)
  <2>1. /\ stage' = stage /\ pending' = pending
        /\ held[m] # "nobody" /\ held'[m] = "nobody"
        /\ \A n \in Msgs : n # m => held'[n] = held[n]
    BY <1>5, Zenon DEF ForwardAck, SweepReply, handlerVars, TypeOK, TrackerTypeOK
  <2>2. PICK v \in {"Success", "AckTimeout"} : AckReturn(m, v)
    BY <1>5, Zenon DEF ForwardAck, SweepReply
  <2>3. /\ \A n \in Msgs, w \in {"Success", "AckTimeout"} :
              (n # m \/ w # v) => replies'[n][w] = replies[n][w]
        /\ replies'[m][v] \in {replies[m][v], replies[m][v] + 1}
    BY <2>2, AckReturnEffect DEF Verdicts
  <2>4. /\ TicketOf(m) = "open" /\ TicketOf(m)' = "closed"
        /\ \A n \in Msgs : n # m => TicketOf(n)' = TicketOf(n)
        /\ replies[m][v] = 0
    BY <2>1, Zenon DEF OneOwner, TicketOf
  <2>5. /\ \A n \in Msgs : n # m => AnswersOf(n)' = AnswersOf(n)
        /\ AnswersOf(m)' \in {AnswersOf(m), [AnswersOf(m) EXCEPT ![v] = 1]}
    <3>1. \A n \in Msgs : n # m => AnswersOf(n)' = AnswersOf(n)
      BY <2>3, Zenon DEF AnswersOf
    <3>2. CASE replies'[m][v] = replies[m][v]
      BY <2>3, <3>2, Zenon DEF AnswersOf
    <3>3. CASE replies'[m][v] = 1
      <4>1. AnswersOf(m)' = [AnswersOf(m) EXCEPT ![v] = 1]
        BY <2>3, <3>3, ZenonT(40) DEF AnswersOf
      <4> QED
        BY <3>1, <4>1, Zenon
    <3> QED
      BY <2>3, <2>4, <3>2, <3>3, <3>1
  <2> QED
    BY <2>4, <2>5, CloseStep, Zenon
<1>6. CASE UNCHANGED vars
  BY <1>6, SilentStep, Zenon DEF vars, handlerVars, trackerVars, TicketOf, AnswersOf
<1> QED
  BY <1>1, <1>2, <1>3, <1>4, <1>5, <1>6, Zenon DEF Next

(* The handlers, the ack handler and the Janitor's sweep implement the      *)
(* promise of AckTicket: one ticket per message, closed once, with one      *)
(* AckReturn or none.                                                      *)
THEOREM ImplementsTicket == Spec => KeepsTicketPromise
<1>1. Init => Ticket!Init
  BY DEF Init, Ticket!Init, TicketOf, Verdicts, Ticket!AckVerdicts
<1>2. TypeOK /\ OneOwner /\ [Next]_vars => [Ticket!Next]_(Ticket!vars)
  BY TicketStep, Zenon
<1> QED
  BY <1>1, <1>2, OwnerInvariant, PTL DEF Spec, KeepsTicketPromise, Ticket!Spec
=============================================================================
