------------------------ MODULE ClientRegistryProofs ------------------------
(***************************************************************************)
(* Invariance proofs for ClientRegistry, for any number of ids, client     *)
(* objects, titles and tasks.                                              *)
(***************************************************************************)
EXTENDS ClientRegistry, TLAPS

ProgramCounters == {"idle"} \cup Adding \cup Removing \cup Registering \cup Unregistering

-----------------------------------------------------------------------------
(* What the control helpers preserve: a loop step leaves every task with   *)
(* well-typed local variables.                                             *)

LEMMA ReturnType ==
    ASSUME TasksTypeOK, NEW k \in Tasks, Return(k)
    PROVE  TasksTypeOK'
<1>1. {} \in Titles
  BY Zenon DEF Titles
<1> QED BY <1>1, Zenon DEF TasksTypeOK, Return, Goto

LEMMA AdvanceType ==
    ASSUME TasksTypeOK, NEW k \in Tasks, NEW t, NEW again \in ProgramCounters \ {"idle"},
           pc[k] # "idle", Advance(k, t, again)
    PROVE  TasksTypeOK'
<1>1. {} \in Titles
  BY Zenon DEF Titles
<1>2. CASE todo[k] = {t}
  BY <1>2, ReturnType, Zenon DEF Advance
<1>3. CASE todo[k] # {t}
  <2>1. /\ pc' = [pc EXCEPT ![k] = again]
        /\ todo' = [todo EXCEPT ![k] = @ \ {t}]
        /\ cur' = [cur EXCEPT ![k] = {}]
        /\ cl' = cl
    BY <1>3, Zenon DEF Advance, Goto
  <2>2. pc \in [Tasks -> ProgramCounters] /\ cur \in [Tasks -> Titles]
    BY Zenon DEF TasksTypeOK, ProgramCounters
  <2>3. pc' \in [Tasks -> ProgramCounters] /\ cur' \in [Tasks -> Titles]
    BY <1>1, <2>1, <2>2, Zenon
  <2>4. todo' \in [Tasks -> SUBSET Titles]
    <3>1. todo \in [Tasks -> SUBSET Titles]
      BY Zenon DEF TasksTypeOK
    <3>2. todo[k] \ {t} \in SUBSET Titles
      BY <3>1, Zenon
    <3> QED BY <2>1, <3>1, <3>2, Zenon
  <2>5. \A j \in Tasks : pc'[j] # "idle" => cl[j] \in Clients
    BY <2>1, <2>2, Zenon DEF TasksTypeOK
  <2> QED BY <2>1, <2>3, <2>4, <2>5, Zenon DEF TasksTypeOK, ProgramCounters
<1> QED BY <1>2, <1>3, Zenon

LEMMA TitleIterType ==
    ASSUME MapsTypeOK, TasksTypeOK, NEW k \in Tasks, NEW loop \in ProgramCounters \ {"idle"},
           pc[k] # "idle", TitleIter(k, loop)
    PROVE  TasksTypeOK'
<1>1. CASE titles[cl[k]] = {}
  BY <1>1, ReturnType, Zenon DEF TitleIter
<1>2. CASE titles[cl[k]] # {}
  BY <1>2 DEF MapsTypeOK, TasksTypeOK, TitleIter, Goto, ProgramCounters
<1> QED BY <1>1, <1>2, Zenon

LEMMA RetainType ==
    ASSUME MapsTypeOK, TasksTypeOK, NEW k \in Tasks, NEW t \in todo[k],
           NEW again \in ProgramCounters \ {"idle"}, NEW drop \in ProgramCounters \ {"idle"},
           pc[k] # "idle", Retain(k, cl[k], t, again, drop)
    PROVE  MapsTypeOK' /\ TasksTypeOK'
<1>1. MapsTypeOK'
  BY Zenon DEF MapsTypeOK, TasksTypeOK, Retain, SameId
<1>2. CASE t \in titleKeys /\ title2clients[t] \subseteq SameId(cl[k])
  <2>1. t \in Titles
    BY Zenon DEF TasksTypeOK
  <2>2. /\ pc' = [pc EXCEPT ![k] = drop]
        /\ cur' = [cur EXCEPT ![k] = t]
        /\ UNCHANGED <<todo, cl>>
    BY <1>2, Zenon DEF Retain, Goto
  <2> QED BY <1>1, <2>1, <2>2, Zenon DEF TasksTypeOK, ProgramCounters
<1>3. CASE ~(t \in titleKeys /\ title2clients[t] \subseteq SameId(cl[k]))
  <2>1. Advance(k, t, again)
    BY <1>3, Zenon DEF Retain
  <2> QED BY <1>1, <2>1, AdvanceType, Zenon
<1> QED BY <1>1, <1>2, <1>3, Zenon

-----------------------------------------------------------------------------

(* Type correctness of the registry: every map keeps its shape and a task  *)
(* inside an operation knows the client object it works on.                *)
THEOREM TypeCorrect == Spec => []TypeOK
<1> USE ConstantsAssumption DEF TypeOK
<1>1. Init => TypeOK
  BY Zenon DEF Init, MapsTypeOK, TasksTypeOK, Titles
<1>2. TypeOK /\ [Next]_vars => TypeOK'
  <2> SUFFICES ASSUME TypeOK, [Next]_vars PROVE TypeOK'
    OBVIOUS
  <2>0. \A s \in Titles : Split(s) \subseteq Titles
    BY DEF Split, Titles
  <2> {"add", "add_iter", "add_push", "remove_iter", "remove_retain", "remove_drop",
       "reg_push", "unreg_retain", "unreg_drop"} \subseteq ProgramCounters \ {"idle"}
    BY Zenon DEF ProgramCounters, Adding, Removing, Registering, Unregistering
  <2>1. ASSUME NEW k \in Tasks, NEW c \in Clients, NEW title \in TitleArgs, Login(k, c, title)
        PROVE  TypeOK'
    BY <2>0, <2>1, Zenon DEF MapsTypeOK, TasksTypeOK, Login, insert_title, Goto, ProgramCounters
  <2>2. ASSUME NEW k \in Tasks, NEW i \in Ids, RemoveClient(k, i)
        PROVE  TypeOK'
    BY <2>2, Zenon DEF MapsTypeOK, TasksTypeOK, RemoveClient, Goto, ProgramCounters
  <2>3. ASSUME NEW k \in Tasks, NEW i \in Ids, NEW title \in TitleArgs, RegisterTitle(k, i, title)
        PROVE  TypeOK'
    BY <2>0, <2>3, Zenon DEF MapsTypeOK, TasksTypeOK, RegisterTitle, insert_title, Goto, ProgramCounters
  <2>4. ASSUME NEW k \in Tasks, NEW i \in Ids, NEW title \in TitleArgs, UnregisterTitle(k, i, title)
        PROVE  TypeOK'
    BY <2>4, Zenon DEF MapsTypeOK, TasksTypeOK, UnregisterTitle, remove_title, Goto, ProgramCounters
  <2>5. ASSUME NEW k \in Tasks, Step(k)
        PROVE  TypeOK'
    <3>1. CASE AddInsert(k)
      BY <3>1, Zenon DEF MapsTypeOK, TasksTypeOK, AddInsert, Goto, ProgramCounters
    <3>2. CASE AddIter(k)
      <4>1. MapsTypeOK'
        BY <3>2, Zenon DEF MapsTypeOK, AddIter, TitleIter
      <4> QED BY <3>2, <4>1, TitleIterType, Zenon DEF AddIter
    <3>3. CASE AddPush(k)
      <4>1. PICK t \in todo[k] : PushUnlessPresent(cl[k], t) /\ Advance(k, t, "add_push")
        BY <3>3, Zenon DEF AddPush
      <4>2. MapsTypeOK'
        BY <3>3, <4>1 DEF MapsTypeOK, TasksTypeOK, AddPush, PushUnlessPresent
      <4> QED BY <3>3, <4>1, <4>2, AdvanceType, Zenon DEF AddPush
    <3>4. CASE RemoveIter(k)
      <4>1. MapsTypeOK'
        BY <3>4, Zenon DEF MapsTypeOK, RemoveIter, TitleIter
      <4> QED BY <3>4, <4>1, TitleIterType, Zenon DEF RemoveIter
    <3>5. CASE RemoveRetain(k)
      BY <3>5, RetainType, Zenon DEF RemoveRetain
    <3>6. CASE RemoveDrop(k)
      <4>1. MapsTypeOK'
        BY <3>6, Zenon DEF MapsTypeOK, RemoveDrop, DropKey
      <4> QED BY <3>6, <4>1, AdvanceType, Zenon DEF RemoveDrop, DropKey
    <3>7. CASE RegisterPush(k)
      <4>1. PICK t \in todo[k] : PushUnlessPresent(cl[k], t) /\ Advance(k, t, "reg_push")
        BY <3>7, Zenon DEF RegisterPush
      <4>2. MapsTypeOK'
        BY <3>7, <4>1 DEF MapsTypeOK, TasksTypeOK, RegisterPush, PushUnlessPresent
      <4> QED BY <3>7, <4>1, <4>2, AdvanceType, Zenon DEF RegisterPush
    <3>8. CASE UnregisterRetain(k)
      BY <3>8, RetainType, Zenon DEF UnregisterRetain
    <3>9. CASE UnregisterDrop(k)
      <4>1. MapsTypeOK'
        BY <3>9, Zenon DEF MapsTypeOK, UnregisterDrop, DropKey
      <4> QED BY <3>9, <4>1, AdvanceType, Zenon DEF UnregisterDrop, DropKey
    <3> QED BY <2>5, <3>1, <3>2, <3>3, <3>4, <3>5, <3>6, <3>7, <3>8, <3>9, Zenon DEF Step
  <2>6. CASE UNCHANGED vars
    BY <2>6, Zenon DEF MapsTypeOK, TasksTypeOK, vars, taskVars
  <2> QED BY <2>1, <2>2, <2>3, <2>4, <2>5, <2>6, Zenon DEF Next
<1> QED BY <1>1, <1>2, PTL DEF Spec

-----------------------------------------------------------------------------
(* How a step may change the title map: it pushes one client object after  *)
(* looking for its id, or it only takes client objects out.                *)

Pushes == \E k \in Tasks, t \in Titles : cl[k] \in Clients /\ PushUnlessPresent(cl[k], t)
Shrinks == \A t \in Titles : title2clients'[t] \subseteq title2clients[t]

LEMMA TitleMapStep ==
    ASSUME TypeOK, [Next]_vars
    PROVE  Pushes \/ Shrinks
<1> USE DEF TypeOK
<1>1. ASSUME NEW k \in Tasks, AddPush(k) \/ RegisterPush(k)
      PROVE  Pushes
  <2>1. cl[k] \in Clients /\ todo[k] \subseteq Titles
    BY <1>1, Zenon DEF TasksTypeOK, AddPush, RegisterPush
  <2> QED BY <1>1, <2>1, Zenon DEF Pushes, AddPush, RegisterPush
<1>2. ASSUME NEW k \in Tasks, RemoveRetain(k) \/ UnregisterRetain(k)
      PROVE  Shrinks
  <2>1. PICK t \in todo[k] : title2clients' = [title2clients EXCEPT ![t] = @ \ SameId(cl[k])]
    BY <1>2, Zenon DEF RemoveRetain, UnregisterRetain, Retain
  <2> QED BY <2>1, Zenon DEF Shrinks, MapsTypeOK
<1>3. ASSUME NEW k \in Tasks, RemoveDrop(k) \/ UnregisterDrop(k)
      PROVE  Shrinks
  BY <1>3, Zenon DEF Shrinks, MapsTypeOK, RemoveDrop, UnregisterDrop, DropKey
<1>4. CASE UNCHANGED title2clients
  BY <1>4, Zenon DEF Shrinks
<1>5. ASSUME Next, ~UNCHANGED title2clients
      PROVE  \E k \in Tasks : \/ AddPush(k) \/ RegisterPush(k)
                              \/ RemoveRetain(k) \/ UnregisterRetain(k)
                              \/ RemoveDrop(k) \/ UnregisterDrop(k)
  BY <1>5, ZenonT(60) DEF Next, Step, Login, RemoveClient, RegisterTitle, UnregisterTitle,
                          AddInsert, AddIter, RemoveIter, TitleIter
<1> QED BY <1>1, <1>2, <1>3, <1>4, <1>5, Zenon DEF vars

(* No title ever lists an id twice, however many tasks push concurrently.  *)
THEOREM NoDuplicate == Spec => []NoDuplicateSubscriber
<1>1. Init => NoDuplicateSubscriber
  BY Zenon DEF Init, NoDuplicateSubscriber
<1>2. TypeOK /\ NoDuplicateSubscriber /\ [Next]_vars => NoDuplicateSubscriber'
  <2> SUFFICES ASSUME TypeOK, NoDuplicateSubscriber, [Next]_vars
               PROVE  NoDuplicateSubscriber'
    OBVIOUS
  <2>1. CASE Shrinks
    BY <2>1, Zenon DEF Shrinks, NoDuplicateSubscriber
  <2>2. CASE Pushes
    <3>1. PICK k \in Tasks, t \in Titles : cl[k] \in Clients /\ PushUnlessPresent(cl[k], t)
      BY <2>2, Zenon DEF Pushes
    <3>2. SUFFICES ASSUME NEW s \in Titles, NEW c \in title2clients'[s], NEW d \in title2clients'[s],
                          IdOf[c] = IdOf[d]
                   PROVE  c = d
      BY Zenon DEF NoDuplicateSubscriber
    <3>3. CASE s # t \/ title2clients'[s] = title2clients[s]
      BY <3>1, <3>2, <3>3, Zenon DEF PushUnlessPresent, TypeOK, MapsTypeOK, NoDuplicateSubscriber
    <3>4. CASE s = t /\ title2clients'[s] # title2clients[s]
      <4>1. /\ title2clients[t] \cap SameId(cl[k]) = {}
            /\ title2clients'[t] = title2clients[t] \cup {cl[k]}
        BY <3>1, <3>4, Zenon DEF PushUnlessPresent, TypeOK, MapsTypeOK
      <4>2. \A e \in title2clients[t] : IdOf[e] # IdOf[cl[k]]
        BY <4>1, Zenon DEF SameId, TypeOK, MapsTypeOK
      <4> QED BY <3>2, <3>4, <4>1, <4>2, Zenon DEF NoDuplicateSubscriber
    <3> QED BY <3>3, <3>4, Zenon
  <2> QED BY <2>1, <2>2, TitleMapStep, Zenon
<1> QED BY <1>1, <1>2, TypeCorrect, PTL DEF Spec

-----------------------------------------------------------------------------
(* title_count() counts exactly the titles with a subscriber, except for   *)
(* those whose entry a task is about to remove.                            *)
THEOREM TitleCount == Spec => []TitleCountExact
<1>1. Init => TitleCountExact
  BY Zenon DEF Init, TitleCountExact
<1>2. TypeOK /\ TitleCountExact /\ [Next]_vars => TitleCountExact'
  <2> SUFFICES ASSUME TypeOK, TitleCountExact, [Next]_vars
               PROVE  TitleCountExact'
    OBVIOUS
  <2> USE DEF Dropping
  <2>1. ASSUME NEW k \in Tasks, pc[k] \notin Dropping,
               UNCHANGED <<title2clients, titleKeys>>,
               \A j \in Tasks \ {k} : pc'[j] = pc[j] /\ cur'[j] = cur[j]
        PROVE  TitleCountExact'
    BY <2>1 DEF TitleCountExact
  <2>2. ASSUME NEW k \in Tasks, AddPush(k) \/ RegisterPush(k)
        PROVE  TitleCountExact'
    <3>1. PICK t \in todo[k] : PushUnlessPresent(cl[k], t)
      BY <2>2, Zenon DEF AddPush, RegisterPush
    <3>2. t \in Titles
      BY Zenon DEF TypeOK, TasksTypeOK
    <3>3. /\ titleKeys' = titleKeys \cup {t}
          /\ title2clients'[t] # {}
          /\ \A s \in Titles \ {t} : title2clients'[s] = title2clients[s]
      <4>1. cl[k] \in title2clients'[t] \/ title2clients[t] \cap SameId(cl[k]) # {}
        BY <3>1, <3>2, Zenon DEF PushUnlessPresent, TypeOK, MapsTypeOK
      <4> QED BY <3>1, <3>2, <4>1, Zenon DEF PushUnlessPresent, TypeOK, MapsTypeOK
    <3>4. pc[k] \notin Dropping /\ \A j \in Tasks \ {k} : pc'[j] = pc[j] /\ cur'[j] = cur[j]
      BY <2>2 DEF AddPush, RegisterPush, Advance, Return, Goto, TypeOK, TasksTypeOK
    <3> QED BY <3>2, <3>3, <3>4 DEF TitleCountExact
  <2>3. ASSUME NEW k \in Tasks, RemoveRetain(k) \/ UnregisterRetain(k)
        PROVE  TitleCountExact'
    <3>1. PICK t \in todo[k], again \in {"remove_retain", "unreg_retain"}, drop \in Dropping :
               Retain(k, cl[k], t, again, drop)
      BY <2>3, Zenon DEF RemoveRetain, UnregisterRetain
    <3>2. t \in Titles
      BY Zenon DEF TypeOK, TasksTypeOK
    <3>3. /\ titleKeys' = titleKeys
          /\ title2clients'[t] = title2clients[t] \ SameId(cl[k])
          /\ \A s \in Titles \ {t} : title2clients'[s] = title2clients[s]
      BY <3>1, <3>2, Zenon DEF Retain, TypeOK, MapsTypeOK
    <3>4. pc[k] \notin Dropping /\ \A j \in Tasks \ {k} : pc'[j] = pc[j] /\ cur'[j] = cur[j]
      BY <2>3, <3>1 DEF RemoveRetain, UnregisterRetain, Retain, Advance, Return, Goto, TypeOK, TasksTypeOK
    <3>5. t \in titleKeys /\ title2clients[t] \subseteq SameId(cl[k]) => pc'[k] \in Dropping /\ cur'[k] = t
      BY <3>1, Zenon DEF Retain, Goto, TypeOK, TasksTypeOK
    <3> QED BY <3>2, <3>3, <3>4, <3>5 DEF TitleCountExact
  <2>4. ASSUME NEW k \in Tasks, RemoveDrop(k) \/ UnregisterDrop(k)
        PROVE  TitleCountExact'
    <3>1. PICK again \in {"remove_retain", "unreg_retain"} : DropKey(k, again)
      BY <2>4, Zenon DEF RemoveDrop, UnregisterDrop
    <3>2. /\ titleKeys' = titleKeys \ {cur[k]}
          /\ title2clients'[cur[k]] = {}
          /\ \A s \in Titles \ {cur[k]} : title2clients'[s] = title2clients[s]
      BY <3>1, Zenon DEF DropKey, TypeOK, MapsTypeOK, TasksTypeOK
    <3>3. \A j \in Tasks \ {k} : pc'[j] = pc[j] /\ cur'[j] = cur[j]
      BY <3>1, Zenon DEF DropKey, Advance, Return, Goto, TypeOK, TasksTypeOK
    <3> QED BY <3>2, <3>3 DEF TitleCountExact
  <2>5. ASSUME NEW k \in Tasks, AddIter(k) \/ RemoveIter(k)
        PROVE  TitleCountExact'
    BY <2>1, <2>5, Zenon DEF AddIter, RemoveIter, TitleIter, Return, Goto, TypeOK, TasksTypeOK
  <2>6. ASSUME NEW k \in Tasks,
               \/ AddInsert(k)
               \/ \E i \in Ids : RemoveClient(k, i)
               \/ \E c \in Clients, s \in TitleArgs : Login(k, c, s)
               \/ \E i \in Ids, s \in TitleArgs : RegisterTitle(k, i, s) \/ UnregisterTitle(k, i, s)
        PROVE  TitleCountExact'
    BY <2>1, <2>6, Zenon DEF AddInsert, RemoveClient, Login, RegisterTitle, UnregisterTitle, Goto,
                      TypeOK, TasksTypeOK
  <2>7. CASE UNCHANGED vars
    BY <2>7, Zenon DEF TitleCountExact, vars, taskVars
  <2> QED BY <2>2, <2>3, <2>4, <2>5, <2>6, <2>7, Zenon DEF Next, Step
<1> QED BY <1>1, <1>2, TypeCorrect, PTL DEF Spec

-----------------------------------------------------------------------------
(* When every id is served by one task, remove_client and unregister_title *)
(* leave nothing behind.                                                   *)

(* Every id is served by one task, and commands carry single titles.       *)
OneTaskPerId == \A j, k \in Tasks : j # k => Serves[j] \cap Serves[k] = {}
SingleTitleArgs == \A s \in TitleArgs : Split(s) = {s}

-----------------------------------------------------------------------------
(* The inductive invariant behind NoDanglingSubscriber.  When one task      *)
(* serves each id, the task inside an operation decides whether its id is   *)
(* registered, its push loop only visits titles its client object carries,  *)
(* and an entry of the title map that the object no longer backs is one     *)
(* that the removing task has still to visit.                               *)

Registered == {"add_iter", "add_push", "reg_push", "unreg_retain", "unreg_drop"}
Absent == {"add"} \cup Removing

Owned == \A k \in Tasks : pc[k] # "idle" => IdOf[cl[k]] \in Serves[k]

MapAgrees ==
    /\ \A i \in Ids : id2client[i] # None => IdOf[id2client[i]] = i
    /\ \A k \in Tasks : /\ pc[k] \in Registered => id2client[IdOf[cl[k]]] = cl[k]
                        /\ pc[k] \in Absent => id2client[IdOf[cl[k]]] = None

PushesOwnTitles ==
    \A k \in Tasks : pc[k] \in {"add_push", "reg_push"} => todo[k] \subseteq titles[cl[k]]

(* Task k has still to take c out of title t.                              *)
WillRetain(k, c, t) ==
    /\ cl[k] = c
    /\ \/ pc[k] = "remove_iter" /\ t \in titles[c]
       \/ pc[k] \in {"remove_retain", "remove_drop", "unreg_retain", "unreg_drop"} /\ t \in todo[k]

Backed(c, t) ==
    \/ id2client[IdOf[c]] = c /\ t \in titles[c]
    \/ \E k \in Tasks : WillRetain(k, c, t)

EveryEntryBacked == \A t \in Titles : \A c \in title2clients[t] : Backed(c, t)

OwnershipInv == Owned /\ MapAgrees /\ PushesOwnTitles /\ EveryEntryBacked

(* A step of task k leaves the local variables of the other tasks alone.   *)
Frame(k) ==
    \A j \in Tasks \ {k} : pc'[j] = pc[j] /\ cl'[j] = cl[j] /\ todo'[j] = todo[j]

(* Two tasks are never inside operations on one id.                        *)
LEMMA Alone ==
    ASSUME OneTaskPerId, TypeOK, Owned, NEW j \in Tasks, NEW k \in Tasks,
           pc[j] # "idle", pc[k] # "idle", IdOf[cl[j]] = IdOf[cl[k]]
    PROVE  j = k
BY Zenon DEF OneTaskPerId, Owned

(* A task that is served by nobody else finds its id quiet when it is idle. *)
LEMMA OthersElsewhere ==
    ASSUME OneTaskPerId, TypeOK, Owned, NEW k \in Tasks, NEW i \in Serves[k],
           NEW j \in Tasks \ {k}, pc[j] # "idle"
    PROVE  IdOf[cl[j]] # i
BY DEF OneTaskPerId, Owned

LEMMA LoginInv ==
    ASSUME OneTaskPerId, TypeOK, TypeOK', OwnershipInv, NEW k \in Tasks, NEW c \in Clients,
           NEW s \in TitleArgs, Login(k, c, s)
    PROVE  OwnershipInv'
<1> USE ConstantsAssumption DEF TypeOK, MapsTypeOK, TasksTypeOK, OwnershipInv
<1>1. /\ pc[k] = "idle" /\ pc'[k] = "add" /\ cl'[k] = c /\ Frame(k)
      /\ IdOf[c] \in Serves[k] /\ id2client[IdOf[c]] = None
      /\ UNCHANGED <<id2client, title2clients>>
      /\ titles[c] \subseteq titles'[c]
      /\ \A d \in Clients \ {c} : titles'[d] = titles[d]
  BY DEF Login, insert_title, Goto, Frame
<1>2. Owned'
  BY <1>1, Zenon DEF Owned, Frame
<1>3. MapAgrees'
  BY <1>1 DEF MapAgrees, Frame, Registered, Absent, Removing
<1>4. PushesOwnTitles'
  BY <1>1, SMTT(30) DEF PushesOwnTitles, Frame
<1>5. EveryEntryBacked'
  <2> SUFFICES ASSUME NEW t \in Titles, NEW d \in title2clients[t]
               PROVE  Backed(d, t)'
    BY <1>1, Zenon DEF EveryEntryBacked
  <2>1. Backed(d, t)
    BY Zenon DEF EveryEntryBacked
  <2>2. d \in Clients /\ titles[d] \subseteq titles'[d]
    BY <1>1, Zenon
  <2> QED BY <1>1, <2>1, <2>2 DEF Backed, WillRetain, Frame
<1> QED BY <1>2, <1>3, <1>4, <1>5, Zenon

LEMMA AddInsertInv ==
    ASSUME OneTaskPerId, TypeOK, TypeOK', OwnershipInv, NEW k \in Tasks, AddInsert(k)
    PROVE  OwnershipInv'
<1> USE ConstantsAssumption DEF TypeOK, MapsTypeOK, TasksTypeOK, OwnershipInv
<1> DEFINE c == cl[k]
<1>1. /\ pc[k] = "add" /\ pc'[k] = "add_iter" /\ c \in Clients /\ cl' = cl /\ Frame(k)
      /\ id2client' = [id2client EXCEPT ![IdOf[c]] = c]
      /\ UNCHANGED <<title2clients, titles>>
  BY Zenon DEF AddInsert, Goto, Frame
<1>2. Owned'
  BY <1>1, Zenon DEF Owned, Frame
<1>3. MapAgrees'
  <2>1. \A j \in Tasks \ {k} : pc[j] # "idle" => IdOf[cl[j]] # IdOf[c]
    BY <1>1, Alone, Zenon
  <2> QED BY <1>1, <2>1 DEF MapAgrees, Frame, Registered, Absent, Removing
<1>4. PushesOwnTitles'
  BY <1>1, Zenon DEF PushesOwnTitles, Frame
<1>5. EveryEntryBacked'
  <2> SUFFICES ASSUME NEW t \in Titles, NEW d \in title2clients[t]
               PROVE  Backed(d, t)'
    BY <1>1, Zenon DEF EveryEntryBacked
  <2>1. Backed(d, t)
    BY Zenon DEF EveryEntryBacked
  <2>2. id2client[IdOf[c]] = None
    BY <1>1, Zenon DEF MapAgrees, Absent
  <2>3. d \in Clients
    OBVIOUS
  <2> QED BY <1>1, <2>1, <2>2, <2>3 DEF Backed, WillRetain, Frame
<1> QED BY <1>2, <1>3, <1>4, <1>5, Zenon

LEMMA RemoveClientInv ==
    ASSUME OneTaskPerId, TypeOK, TypeOK', OwnershipInv, NEW k \in Tasks, NEW i \in Ids,
           RemoveClient(k, i)
    PROVE  OwnershipInv'
<1> USE ConstantsAssumption DEF TypeOK, MapsTypeOK, TasksTypeOK, OwnershipInv
<1> DEFINE c == id2client[i]
<1>1. /\ pc[k] = "idle" /\ pc'[k] = "remove_iter" /\ cl'[k] = c /\ Frame(k)
      /\ i \in Serves[k] /\ c \in Clients
      /\ id2client' = [id2client EXCEPT ![i] = None]
      /\ UNCHANGED <<title2clients, titles>>
  BY ZenonT(40) DEF RemoveClient, Goto, Frame
<1>2. IdOf[c] = i
  BY <1>1, Zenon DEF MapAgrees
<1>3. Owned'
  BY <1>1, <1>2 DEF Owned, Frame
<1>4. MapAgrees'
  <2>1. \A j \in Tasks \ {k} : pc[j] # "idle" => IdOf[cl[j]] # i
    BY <1>1, OthersElsewhere, Zenon
  <2> QED BY <1>1, <1>2, <2>1 DEF MapAgrees, Frame, Registered, Absent, Removing
<1>5. PushesOwnTitles'
  BY <1>1, Zenon DEF PushesOwnTitles, Frame
<1>6. EveryEntryBacked'
  <2> SUFFICES ASSUME NEW t \in Titles, NEW d \in title2clients[t]
               PROVE  Backed(d, t)'
    BY <1>1, Zenon DEF EveryEntryBacked
  <2>1. Backed(d, t) /\ d \in Clients
    BY Zenon DEF EveryEntryBacked
  <2>2. CASE d = c /\ t \in titles[c]
    BY <1>1, <2>2, Zenon DEF Backed, WillRetain
  <2>3. CASE id2client[IdOf[d]] = d /\ t \in titles[d] /\ d # c
    BY <1>1, <2>1, <2>3, Zenon DEF Backed
  <2>4. CASE \E j \in Tasks : WillRetain(j, d, t)
    BY <1>1, <2>4 DEF Backed, WillRetain, Frame
  <2> QED BY <2>1, <2>2, <2>3, <2>4, Zenon DEF Backed
<1> QED BY <1>3, <1>4, <1>5, <1>6, Zenon

LEMMA RegisterTitleInv ==
    ASSUME OneTaskPerId, SingleTitleArgs, TypeOK, TypeOK', OwnershipInv, NEW k \in Tasks,
           NEW i \in Ids, NEW s \in TitleArgs, RegisterTitle(k, i, s)
    PROVE  OwnershipInv'
<1> USE ConstantsAssumption DEF TypeOK, MapsTypeOK, TasksTypeOK, OwnershipInv
<1> DEFINE c == id2client[i]
<1>1. /\ pc[k] = "idle" /\ pc'[k] = "reg_push" /\ cl'[k] = c /\ todo'[k] = {s} /\ Frame(k)
      /\ i \in Serves[k] /\ c \in Clients
      /\ UNCHANGED <<id2client, title2clients>>
      /\ titles' = [titles EXCEPT ![c] = @ \cup {s}]
  <2>1. Split(s) = {s}
    BY Zenon DEF SingleTitleArgs
  <2> QED BY <2>1 DEF RegisterTitle, insert_title, Goto, Frame
<1>2. IdOf[c] = i
  BY <1>1, Zenon DEF MapAgrees
<1>3. Owned'
  BY <1>1, <1>2 DEF Owned, Frame
<1>4. MapAgrees'
  BY <1>1, <1>2 DEF MapAgrees, Frame, Registered, Absent, Removing
<1>5. PushesOwnTitles'
  BY <1>1, Zenon DEF PushesOwnTitles, Frame
<1>6. EveryEntryBacked'
  <2> SUFFICES ASSUME NEW t \in Titles, NEW d \in title2clients[t]
               PROVE  Backed(d, t)'
    BY <1>1, Zenon DEF EveryEntryBacked
  <2>1. Backed(d, t) /\ d \in Clients /\ titles[d] \subseteq titles'[d]
    BY <1>1, Zenon DEF EveryEntryBacked
  <2> QED BY <1>1, <2>1 DEF Backed, WillRetain, Frame
<1> QED BY <1>3, <1>4, <1>5, <1>6, Zenon

LEMMA UnregisterTitleInv ==
    ASSUME OneTaskPerId, TypeOK, TypeOK', OwnershipInv, NEW k \in Tasks,
           NEW i \in Ids, NEW s \in TitleArgs, UnregisterTitle(k, i, s)
    PROVE  OwnershipInv'
<1> USE ConstantsAssumption DEF TypeOK, MapsTypeOK, TasksTypeOK, OwnershipInv
<1> DEFINE c == id2client[i]
<1>1. /\ pc[k] = "idle" /\ pc'[k] = "unreg_retain" /\ cl'[k] = c /\ todo'[k] = {s} /\ Frame(k)
      /\ i \in Serves[k] /\ c \in Clients
      /\ UNCHANGED <<id2client, title2clients>>
      /\ titles' = [titles EXCEPT ![c] = @ \ {s}]
  BY DEF UnregisterTitle, remove_title, Goto, Frame
<1>2. IdOf[c] = i
  BY <1>1, Zenon DEF MapAgrees
<1>3. Owned'
  BY <1>1, <1>2 DEF Owned, Frame
<1>4. MapAgrees'
  BY <1>1, <1>2 DEF MapAgrees, Frame, Registered, Absent, Removing
<1>5. \A j \in Tasks \ {k} : pc[j] # "idle" => cl[j] # c
  BY <1>1, <1>2, OthersElsewhere
<1>6. PushesOwnTitles'
  BY <1>1, <1>5 DEF PushesOwnTitles, Frame
<1>7. EveryEntryBacked'
  <2> SUFFICES ASSUME NEW t \in Titles, NEW d \in title2clients[t]
               PROVE  Backed(d, t)'
    BY <1>1, Zenon DEF EveryEntryBacked
  <2>1. Backed(d, t) /\ d \in Clients
    BY Zenon DEF EveryEntryBacked
  <2>2. CASE d = c /\ t = s
    BY <1>1, <2>2, Zenon DEF Backed, WillRetain
  <2>3. CASE ~(d = c /\ t = s) /\ id2client[IdOf[d]] = d /\ t \in titles[d]
    BY <1>1, <2>1, <2>3, ZenonT(40) DEF Backed
  <2>4. CASE \E j \in Tasks : WillRetain(j, d, t)
    BY <1>1, <1>5, <2>4 DEF Backed, WillRetain, Frame
  <2> QED BY <2>1, <2>2, <2>3, <2>4, Zenon DEF Backed
<1> QED BY <1>3, <1>4, <1>6, <1>7, Zenon

-----------------------------------------------------------------------------
(* The loop steps: task k either returns or goes on with what is left.     *)

LoopStep(k, rest, again) ==
    /\ Frame(k)
    /\ \/ pc'[k] = "idle"
       \/ rest # {} /\ pc'[k] = again /\ cl'[k] = cl[k] /\ todo'[k] = rest

LEMMA AdvanceEffect ==
    ASSUME TypeOK, NEW k \in Tasks, NEW t, NEW again, t \in todo[k], Advance(k, t, again)
    PROVE  LoopStep(k, todo[k] \ {t}, again) /\ (todo[k] = {t} => pc'[k] = "idle")
<1>1. CASE todo[k] = {t}
  BY <1>1, Zenon DEF Advance, Return, Goto, LoopStep, Frame, TypeOK, TasksTypeOK
<1>2. CASE todo[k] # {t}
  BY <1>2, ZenonT(40) DEF Advance, Goto, LoopStep, Frame, TypeOK, TasksTypeOK
<1> QED BY <1>1, <1>2, Zenon

LEMMA TitleIterEffect ==
    ASSUME TypeOK, NEW k \in Tasks, NEW loop, TitleIter(k, loop)
    PROVE  /\ LoopStep(k, titles[cl[k]], loop)
           /\ titles[cl[k]] # {} => pc'[k] = loop
           /\ UNCHANGED <<id2client, title2clients, titles>>
<1>1. CASE titles[cl[k]] = {}
  BY <1>1, Zenon DEF TitleIter, Return, Goto, LoopStep, Frame, TypeOK, TasksTypeOK
<1>2. CASE titles[cl[k]] # {}
  BY <1>2, Zenon DEF TitleIter, Goto, LoopStep, Frame, TypeOK, TasksTypeOK
<1> QED BY <1>1, <1>2, Zenon

(* Loop steps keep the three control parts of the invariant, provided the  *)
(* phase they go on with is of the same kind as the one they come from.    *)
LEMMA LoopControl ==
    ASSUME TypeOK, TypeOK', Owned, MapAgrees, PushesOwnTitles, NEW k \in Tasks, NEW rest, NEW again,
           LoopStep(k, rest, again), pc[k] # "idle",
           UNCHANGED <<id2client, titles>>,
           again \in Registered => pc[k] \in Registered,
           again \in Absent => pc[k] \in Absent,
           again \in {"add_push", "reg_push"} => rest \subseteq titles[cl[k]]
    PROVE  Owned' /\ MapAgrees' /\ PushesOwnTitles'
<1>1. Owned'
  BY Zenon DEF Owned, LoopStep, Frame
<1>2. MapAgrees'
  BY DEF MapAgrees, LoopStep, Frame, Registered, Absent, Removing
<1>3. PushesOwnTitles'
  BY Zenon DEF PushesOwnTitles, LoopStep, Frame
<1> QED BY <1>1, <1>2, <1>3, Zenon

LEMMA AddIterInv ==
    ASSUME TypeOK, TypeOK', OwnershipInv, NEW k \in Tasks, AddIter(k)
    PROVE  OwnershipInv'
<1> USE DEF OwnershipInv
<1>1. /\ pc[k] = "add_iter" /\ LoopStep(k, titles[cl[k]], "add_push")
      /\ UNCHANGED <<id2client, title2clients, titles>>
  BY TitleIterEffect, Zenon DEF AddIter
<1>2. Owned' /\ MapAgrees' /\ PushesOwnTitles'
  BY <1>1, LoopControl, Zenon DEF Registered, Absent, Removing
<1>3. EveryEntryBacked'
  BY <1>1 DEF EveryEntryBacked, Backed, WillRetain, LoopStep, Frame
<1> QED BY <1>2, <1>3, Zenon

LEMMA RemoveIterInv ==
    ASSUME TypeOK, TypeOK', OwnershipInv, NEW k \in Tasks, RemoveIter(k)
    PROVE  OwnershipInv'
<1> USE DEF OwnershipInv
<1>1. /\ pc[k] = "remove_iter" /\ LoopStep(k, titles[cl[k]], "remove_retain")
      /\ titles[cl[k]] # {} => pc'[k] = "remove_retain"
      /\ UNCHANGED <<id2client, title2clients, titles>>
  BY TitleIterEffect, Zenon DEF RemoveIter
<1>2. Owned' /\ MapAgrees' /\ PushesOwnTitles'
  BY <1>1, LoopControl, Zenon DEF Registered, Absent, Removing
<1>3. EveryEntryBacked'
  <2> SUFFICES ASSUME NEW t \in Titles, NEW d \in title2clients[t]
               PROVE  Backed(d, t)'
    BY <1>1, Zenon DEF EveryEntryBacked
  <2>1. Backed(d, t)
    BY Zenon DEF EveryEntryBacked
  <2>2. CASE WillRetain(k, d, t)
    BY <1>1, <2>2, Zenon DEF WillRetain, Backed, LoopStep
  <2>3. CASE id2client[IdOf[d]] = d /\ t \in titles[d]
    BY <1>1, <2>3, Zenon DEF Backed
  <2>4. CASE \E j \in Tasks \ {k} : WillRetain(j, d, t)
    BY <1>1, <2>4, Zenon DEF WillRetain, Backed, LoopStep, Frame
  <2> QED BY <2>1, <2>2, <2>3, <2>4, Zenon DEF Backed
<1> QED BY <1>2, <1>3, Zenon

LEMMA PushInv ==
    ASSUME TypeOK, TypeOK', OwnershipInv, NEW k \in Tasks, AddPush(k) \/ RegisterPush(k)
    PROVE  OwnershipInv'
<1> USE DEF OwnershipInv
<1>1. PICK s \in todo[k] : PushUnlessPresent(cl[k], s) /\ Advance(k, s, pc[k])
  BY Zenon DEF AddPush, RegisterPush
<1>2. /\ pc[k] \in {"add_push", "reg_push"}
      /\ UNCHANGED <<id2client, titles>>
      /\ LoopStep(k, todo[k] \ {s}, pc[k])
  BY <1>1, AdvanceEffect, Zenon DEF AddPush, RegisterPush
<1>3. /\ cl[k] \in Clients /\ s \in Titles
      /\ todo[k] \subseteq titles[cl[k]]
      /\ id2client[IdOf[cl[k]]] = cl[k]
  BY <1>2, Zenon DEF TypeOK, TasksTypeOK, PushesOwnTitles, MapAgrees, Registered
<1>4. Owned' /\ MapAgrees' /\ PushesOwnTitles'
  BY <1>2, <1>3, LoopControl, Zenon DEF Registered, Absent, Removing
<1>5. EveryEntryBacked'
  <2> SUFFICES ASSUME NEW t \in Titles, NEW d \in title2clients'[t]
               PROVE  Backed(d, t)'
    BY Zenon DEF EveryEntryBacked
  <2>1. d \in title2clients[t] \/ (t = s /\ d = cl[k])
    BY <1>1, <1>3, Zenon DEF PushUnlessPresent, TypeOK, MapsTypeOK
  <2>2. CASE t = s /\ d = cl[k]
    BY <1>2, <1>3, <2>2, Zenon DEF Backed
  <2>3. CASE d \in title2clients[t]
    <3>1. Backed(d, t)
      BY <2>3, Zenon DEF EveryEntryBacked
    <3> QED BY <1>2, <3>1, Zenon DEF Backed, WillRetain, LoopStep, Frame
  <2> QED BY <2>1, <2>2, <2>3, Zenon
<1> QED BY <1>4, <1>5, Zenon

LEMMA RetainInv ==
    ASSUME TypeOK, TypeOK', OwnershipInv, NEW k \in Tasks, RemoveRetain(k) \/ UnregisterRetain(k)
    PROVE  OwnershipInv'
<1> USE DEF OwnershipInv
<1>1. PICK s \in todo[k], drop \in {"remove_drop", "unreg_drop"} :
           Retain(k, cl[k], s, pc[k], drop) /\
           (\/ pc[k] = "remove_retain" /\ drop = "remove_drop"
            \/ pc[k] = "unreg_retain" /\ drop = "unreg_drop")
  <2>1. CASE RemoveRetain(k)
    BY <2>1, Zenon DEF RemoveRetain
  <2>2. CASE UnregisterRetain(k)
    BY <2>2, Zenon DEF UnregisterRetain
  <2> QED BY <2>1, <2>2, Zenon
<1>2. /\ cl[k] \in Clients /\ s \in Titles
      /\ UNCHANGED <<id2client, titles>>
      /\ title2clients' = [title2clients EXCEPT ![s] = @ \ SameId(cl[k])]
  BY <1>1, Zenon DEF Retain, TypeOK, TasksTypeOK
<1>3. \/ LoopStep(k, todo[k], drop)
      \/ LoopStep(k, todo[k] \ {s}, pc[k]) /\ (todo[k] = {s} => pc'[k] = "idle")
  <2>1. CASE s \in titleKeys /\ title2clients[s] \subseteq SameId(cl[k])
    BY <1>1, <2>1, Zenon DEF Retain, Goto, LoopStep, Frame, TypeOK, TasksTypeOK
  <2>2. CASE ~(s \in titleKeys /\ title2clients[s] \subseteq SameId(cl[k]))
    <3>1. Advance(k, s, pc[k])
      BY <1>1, <2>2, Zenon DEF Retain
    <3> QED BY <3>1, AdvanceEffect, Zenon
  <2> QED BY <2>1, <2>2, Zenon
<1>4. Owned' /\ MapAgrees' /\ PushesOwnTitles'
  <2>1. CASE LoopStep(k, todo[k], drop)
    BY <1>1, <1>2, <2>1, LoopControl, Zenon DEF Registered, Absent, Removing
  <2>2. CASE LoopStep(k, todo[k] \ {s}, pc[k])
    BY <1>1, <1>2, <2>2, LoopControl, Zenon DEF Registered, Absent, Removing
  <2> QED BY <1>3, <2>1, <2>2, Zenon
<1>5. EveryEntryBacked'
  <2> SUFFICES ASSUME NEW t \in Titles, NEW d \in title2clients'[t]
               PROVE  Backed(d, t)'
    BY Zenon DEF EveryEntryBacked
  <2>1. d \in title2clients[t] /\ d \in Clients /\ (t = s => d # cl[k])
    BY <1>2, Zenon DEF TypeOK, MapsTypeOK, SameId
  <2>2. Backed(d, t)
    BY <2>1, Zenon DEF EveryEntryBacked
  <2>3. CASE WillRetain(k, d, t)
    <3>1. t # s /\ t \in todo[k] /\ d = cl[k]
      BY <1>1, <2>1, <2>3, Zenon DEF WillRetain
    <3>2. \/ pc'[k] \in {"remove_retain", "remove_drop", "unreg_retain", "unreg_drop"}
                /\ cl'[k] = d /\ t \in todo'[k]
          \/ pc'[k] = "idle"
      BY <1>1, <1>3, <3>1, Zenon DEF LoopStep
    <3>3. pc'[k] # "idle"
      BY <1>1, <3>1, ZenonT(40) DEF Retain, Advance, Goto, TypeOK, TasksTypeOK
    <3> QED BY <3>2, <3>3, Zenon DEF Backed, WillRetain
  <2>4. CASE id2client[IdOf[d]] = d /\ t \in titles[d]
    <3>1. id2client' = id2client /\ titles' = titles
      BY <1>2, Zenon
    <3> QED BY <2>4, <3>1, Zenon DEF Backed
  <2>5. CASE \E j \in Tasks \ {k} : WillRetain(j, d, t)
    BY <1>2, <1>3, <2>5 DEF WillRetain, Backed, LoopStep, Frame
  <2> QED BY <2>2, <2>3, <2>4, <2>5, Zenon DEF Backed
<1> QED BY <1>4, <1>5, Zenon

LEMMA DropInv ==
    ASSUME TypeOK, TypeOK', OwnershipInv, NEW k \in Tasks, RemoveDrop(k) \/ UnregisterDrop(k)
    PROVE  OwnershipInv'
<1> USE DEF OwnershipInv
<1> DEFINE s == cur[k]
<1>1. PICK again \in {"remove_retain", "unreg_retain"} :
           DropKey(k, again) /\
           (\/ pc[k] = "remove_drop" /\ again = "remove_retain"
            \/ pc[k] = "unreg_drop" /\ again = "unreg_retain")
  BY Zenon DEF RemoveDrop, UnregisterDrop
<1>2. /\ s \in Titles
      /\ UNCHANGED <<id2client, titles>>
      /\ title2clients' = [title2clients EXCEPT ![s] = {}]
  BY <1>1, Zenon DEF DropKey, TypeOK, TasksTypeOK
<1>3. Frame(k) /\ (\/ pc'[k] = "idle" /\ todo[k] = {s}
                   \/ pc'[k] = again /\ cl'[k] = cl[k] /\ todo'[k] = todo[k] \ {s})
  <2>1. Advance(k, s, again)
    BY <1>1, Zenon DEF DropKey
  <2>2. CASE todo[k] = {s}
    BY <2>1, <2>2 DEF Advance, Return, Goto, Frame, TypeOK, TasksTypeOK
  <2>3. CASE todo[k] # {s}
    BY <2>1, <2>3, ZenonT(40) DEF Advance, Goto, Frame, TypeOK, TasksTypeOK
  <2> QED BY <2>2, <2>3, Zenon
<1>4. Owned'
  BY <1>1, <1>3, Zenon DEF Owned, Frame
<1>5. MapAgrees'
  <2>1. \A i \in Ids : id2client'[i] # None => IdOf[id2client'[i]] = i
    BY <1>2, Zenon DEF MapAgrees
  <2>2. \A j \in Tasks : pc'[j] \in Registered => pc[j] \in Registered /\ cl'[j] = cl[j]
    BY <1>1, <1>3, Zenon DEF Frame, Registered
  <2>3. \A j \in Tasks : pc'[j] \in Absent => pc[j] \in Absent /\ cl'[j] = cl[j]
    BY <1>1, <1>3, Zenon DEF Frame, Absent, Removing
  <2> QED BY <1>2, <2>1, <2>2, <2>3 DEF MapAgrees
<1>6. PushesOwnTitles'
  BY <1>1, <1>2, <1>3, Zenon DEF PushesOwnTitles, Frame
<1>7. EveryEntryBacked'
  <2> SUFFICES ASSUME NEW t \in Titles, NEW d \in title2clients'[t]
               PROVE  Backed(d, t)'
    BY Zenon DEF EveryEntryBacked
  <2>1. d \in title2clients[t] /\ t # s
    BY <1>2, Zenon DEF TypeOK, MapsTypeOK
  <2>2. Backed(d, t)
    BY <2>1, Zenon DEF EveryEntryBacked
  <2>3. CASE WillRetain(k, d, t)
    BY <1>1, <1>3, <2>1, <2>3, Zenon DEF Backed, WillRetain
  <2>4. CASE id2client[IdOf[d]] = d /\ t \in titles[d]
    <3>1. id2client' = id2client /\ titles' = titles
      BY <1>2, Zenon
    <3> QED BY <2>4, <3>1, Zenon DEF Backed
  <2>5. CASE \E j \in Tasks \ {k} : WillRetain(j, d, t)
    BY <1>2, <1>3, <2>5, ZenonT(40) DEF WillRetain, Backed, Frame
  <2> QED BY <2>2, <2>3, <2>4, <2>5, Zenon DEF Backed
<1> QED BY <1>4, <1>5, <1>6, <1>7, Zenon

(* When every id is served by one task and commands carry single titles,   *)
(* remove_client and unregister_title leave nothing behind: a title lists  *)
(* a client whose task is done only if that client object is the           *)
(* registered one and carries the title.                                   *)
THEOREM NoDangling ==
    ASSUME OneTaskPerId, SingleTitleArgs
    PROVE  Spec => []NoDanglingSubscriber
<1>1. Init => OwnershipInv
  BY ConstantsAssumption DEF Init, OwnershipInv, Owned, MapAgrees, PushesOwnTitles, EveryEntryBacked,
     Registered, Absent, Removing
<1>2. TypeOK /\ TypeOK' /\ OwnershipInv /\ [Next]_vars => OwnershipInv'
  <2> SUFFICES ASSUME TypeOK, TypeOK', OwnershipInv, [Next]_vars
               PROVE  OwnershipInv'
    OBVIOUS
  <2>1. ASSUME NEW k \in Tasks, Step(k)
        PROVE  OwnershipInv'
    BY <2>1, AddInsertInv, AddIterInv, PushInv, RemoveIterInv, RetainInv, DropInv, Zenon DEF Step
  <2>2. CASE UNCHANGED vars
    <3>1. UNCHANGED <<id2client, title2clients, titles, pc, cl, todo>>
      BY <2>2, Zenon DEF vars, taskVars
    <3>2. Owned'
      BY <3>1, Zenon DEF OwnershipInv, Owned
    <3>3. MapAgrees'
      BY <3>1, Zenon DEF OwnershipInv, MapAgrees
    <3>4. PushesOwnTitles'
      BY <3>1, Zenon DEF OwnershipInv, PushesOwnTitles
    <3>5. EveryEntryBacked'
      BY <3>1 DEF OwnershipInv, EveryEntryBacked, Backed, WillRetain
    <3> QED BY <3>2, <3>3, <3>4, <3>5, Zenon DEF OwnershipInv
  <2> QED BY <2>1, <2>2, LoginInv, RemoveClientInv, RegisterTitleInv, UnregisterTitleInv, Zenon DEF Next
<1>3. OwnershipInv => NoDanglingSubscriber
  BY DEF OwnershipInv, EveryEntryBacked, Backed, WillRetain, NoDanglingSubscriber, Quiet
<1> QED BY <1>1, <1>2, <1>3, TypeCorrect, PTL DEF Spec
=============================================================================
