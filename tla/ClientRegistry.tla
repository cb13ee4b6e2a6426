--------------------------- MODULE ClientRegistry ---------------------------
(***************************************************************************)
(* The in-memory registry of rex-server (system/client_registry.rs): the   *)
(* id map, the title map and the subscription list every client object     *)
(* carries.  Each map is a DashMap, so an operation is a sequence of       *)
(* short critical sections, and the tasks of the server (one per           *)
(* connection, plus the handlers and the Janitor that remove clients they  *)
(* do not own) interleave between them.  One action is one critical        *)
(* section.                                                                *)
(*                                                                         *)
(* A title string is modelled by the set of its ';'-separated parts: "a"   *)
(* is {a}, "a;b" is {a, b} and the empty string is {}.                     *)
(***************************************************************************)
EXTENDS Naturals, FiniteSets

CONSTANTS Ids,        \* client ids (u128)
          Parts,      \* the parts title strings are made of
          Clients,    \* client objects, one per connection (Arc<RexClientInner>)
          Tasks,      \* tokio tasks that call the registry
          IdOf,       \* the id a client object logs in with
          Serves,     \* the ids each task works for
          TitleArgs,  \* the title strings that occur in commands
          None        \* "no client"

Titles == SUBSET Parts

ASSUME ConstantsAssumption ==
    /\ IdOf \in [Clients -> Ids]
    /\ Serves \in [Tasks -> SUBSET Ids]
    /\ TitleArgs \subseteq Titles
    /\ None \notin Clients

VARIABLES
    id2client,      \* id -> the registered client object, or None
    title2clients,  \* title -> the client objects in its Vec
    titleKeys,      \* the titles that have an entry in title2clients
    titles,         \* subscribed_titles of every client object
    pc,             \* where each task is in the operation it runs
    cl,             \* the client object the operation is about
    todo,           \* the titles its loop has still to visit
    cur             \* the title whose guard was dropped before its removal

taskVars == <<pc, cl, todo, cur>>
vars == <<id2client, title2clients, titleKeys, titles, taskVars>>

Adding == {"add", "add_iter", "add_push"}
Removing == {"remove_iter", "remove_retain", "remove_drop"}
Registering == {"reg_push"}
Unregistering == {"unreg_retain", "unreg_drop"}
Dropping == {"remove_drop", "unreg_drop"}

MapsTypeOK ==
    /\ id2client \in [Ids -> Clients \cup {None}]
    /\ title2clients \in [Titles -> SUBSET Clients]
    /\ titleKeys \subseteq Titles
    /\ titles \in [Clients -> SUBSET Titles]

TasksTypeOK ==
    /\ pc \in [Tasks -> {"idle"} \cup Adding \cup Removing \cup Registering \cup Unregistering]
    /\ cl \in [Tasks -> Clients \cup {None}]
    /\ todo \in [Tasks -> SUBSET Titles]
    /\ cur \in [Tasks -> Titles]
    /\ \A k \in Tasks : pc[k] # "idle" => cl[k] \in Clients

(* The maps keep their shape, and a task inside an operation holds the      *)
(* client object that operation is about.                                  *)
TypeOK == MapsTypeOK /\ TasksTypeOK

Init ==
    /\ id2client = [i \in Ids |-> None]
    /\ title2clients = [t \in Titles |-> {}]
    /\ titleKeys = {}
    /\ titles = [c \in Clients |-> {}]
    /\ pc = [k \in Tasks |-> "idle"]
    /\ cl = [k \in Tasks |-> None]
    /\ todo = [k \in Tasks |-> {}]
    /\ cur = [k \in Tasks |-> {}]

-----------------------------------------------------------------------------
(* RexClientInner::insert_title splits its argument, remove_title does not. *)

Split(title) == {{p} : p \in title}
insert_title(c, title) == titles' = [titles EXCEPT ![c] = @ \cup Split(title)]
remove_title(c, title) == titles' = [titles EXCEPT ![c] = @ \ {title}]

(* register_title and unregister_title keep the read guard of              *)
(* id2client.get(id) until they return; insert and remove wait for it.     *)
Guarded(i) ==
    \E k \in Tasks : pc[k] \in Registering \cup Unregistering /\ IdOf[cl[k]] = i

SameId(c) == {d \in Clients : IdOf[d] = IdOf[c]}

Goto(k, p) == pc' = [pc EXCEPT ![k] = p]

(* The operation of task k returns.                                        *)
Return(k) ==
    /\ Goto(k, "idle")
    /\ cl' = [cl EXCEPT ![k] = None]
    /\ todo' = [todo EXCEPT ![k] = {}]
    /\ cur' = [cur EXCEPT ![k] = {}]

(* The loop of task k has handled title t: go round again, or return.      *)
Advance(k, t, again) ==
    IF todo[k] = {t}
    THEN Return(k)
    ELSE /\ Goto(k, again)
         /\ todo' = [todo EXCEPT ![k] = @ \ {t}]
         /\ cur' = [cur EXCEPT ![k] = {}]
         /\ UNCHANGED cl

(* client.title_iter(): the loop runs over a copy of the titles.           *)
TitleIter(k, loop) ==
    /\ IF titles[cl[k]] = {}
       THEN Return(k)
       ELSE /\ Goto(k, loop)
            /\ todo' = [todo EXCEPT ![k] = titles[cl[k]]]
            /\ UNCHANGED <<cl, cur>>
    /\ UNCHANGED <<id2client, title2clients, titleKeys, titles>>

-----------------------------------------------------------------------------
(* add_client                                                              *)

(* The login handler found no client with this id: it stamps the title on  *)
(* its own client object and calls add_client.                             *)
Login(k, c, title) ==
    /\ pc[k] = "idle"
    /\ IdOf[c] \in Serves[k]
    /\ id2client[IdOf[c]] = None
    /\ insert_title(c, title)
    /\ cl' = [cl EXCEPT ![k] = c]
    /\ Goto(k, "add")
    /\ UNCHANGED <<id2client, title2clients, titleKeys, todo, cur>>

AddInsert(k) ==
    /\ pc[k] = "add"
    /\ ~Guarded(IdOf[cl[k]])
    /\ id2client' = [id2client EXCEPT ![IdOf[cl[k]]] = cl[k]]
    /\ Goto(k, "add_iter")
    /\ UNCHANGED <<title2clients, titleKeys, titles, cl, todo, cur>>

AddIter(k) ==
    /\ pc[k] = "add_iter"
    /\ TitleIter(k, "add_push")

(* Mutated form: push without looking for the id first.                    *)
BugPushAlways(c, t) ==
    /\ titleKeys' = titleKeys \cup {t}
    /\ title2clients' = [title2clients EXCEPT ![t] = @ \cup {c}]

(* entry(title).or_default(), then push unless an object with this id is   *)
(* there already: one critical section on the title's shard.               *)
PushUnlessPresent(c, t) ==
    /\ titleKeys' = titleKeys \cup {t}
    /\ title2clients' = [title2clients EXCEPT
                            ![t] = IF @ \cap SameId(c) = {} THEN @ \cup {c} ELSE @]

AddPush(k) ==
    /\ pc[k] = "add_push"
    /\ \E t \in todo[k] :
          /\ PushUnlessPresent(cl[k], t)
          /\ Advance(k, t, "add_push")
    /\ UNCHANGED <<id2client, titles>>

-----------------------------------------------------------------------------
(* remove_client                                                           *)

(* Mutated form: go on although the id map had no client to remove.        *)
BugRemoveAnyway(k, i) ==
    /\ pc[k] = "idle"
    /\ i \in Serves[k]
    /\ ~Guarded(i)
    /\ cl' = [cl EXCEPT ![k] = id2client[i]]
    /\ id2client' = [id2client EXCEPT ![i] = None]
    /\ Goto(k, "remove_iter")
    /\ UNCHANGED <<title2clients, titleKeys, titles, todo, cur>>

RemoveClient(k, i) ==
    /\ pc[k] = "idle"
    /\ i \in Serves[k]
    /\ id2client[i] # None
    /\ ~Guarded(i)
    /\ cl' = [cl EXCEPT ![k] = id2client[i]]
    /\ id2client' = [id2client EXCEPT ![i] = None]
    /\ Goto(k, "remove_iter")
    /\ UNCHANGED <<title2clients, titleKeys, titles, todo, cur>>

(* Mutated form: remove the client from the id map only.                   *)
BugIdMapOnly(k) ==
    /\ pc[k] = "remove_iter"
    /\ Return(k)
    /\ UNCHANGED <<id2client, title2clients, titleKeys, titles>>

RemoveIter(k) ==
    /\ pc[k] = "remove_iter"
    /\ TitleIter(k, "remove_retain")

(* Mutated form: leave an emptied entry behind.                            *)
BugKeepEmpty(k, c, t, again, drop) ==
    /\ title2clients' = [title2clients EXCEPT ![t] = @ \ SameId(c)]
    /\ Advance(k, t, again)
    /\ UNCHANGED <<id2client, titleKeys, titles>>

(* get_mut(title), retain(|c| c.id() != id): when that leaves the Vec       *)
(* empty, the guard is dropped before the entry is removed.                *)
Retain(k, c, t, again, drop) ==
    /\ title2clients' = [title2clients EXCEPT ![t] = @ \ SameId(c)]
    /\ IF t \in titleKeys /\ title2clients[t] \subseteq SameId(c)
       THEN Goto(k, drop) /\ cur' = [cur EXCEPT ![k] = t] /\ UNCHANGED <<todo, cl>>
       ELSE Advance(k, t, again)
    /\ UNCHANGED <<id2client, titleKeys, titles>>

(* title2clients.remove(title): whatever is in the entry by now goes too.   *)
DropKey(k, again) ==
    /\ title2clients' = [title2clients EXCEPT ![cur[k]] = {}]
    /\ titleKeys' = titleKeys \ {cur[k]}
    /\ Advance(k, cur[k], again)
    /\ UNCHANGED <<id2client, titles>>

RemoveRetain(k) ==
    /\ pc[k] = "remove_retain"
    /\ \E t \in todo[k] : Retain(k, cl[k], t, "remove_retain", "remove_drop")

RemoveDrop(k) ==
    /\ pc[k] = "remove_drop"
    /\ DropKey(k, "remove_retain")

-----------------------------------------------------------------------------
(* register_title and unregister_title.  Both return at once when the id   *)
(* is not registered; the broadcast to the cluster and the answer that     *)
(* follow change nothing in the registry.                                  *)

RegisterTitle(k, i, title) ==
    /\ pc[k] = "idle"
    /\ i \in Serves[k]
    /\ id2client[i] # None
    /\ cl' = [cl EXCEPT ![k] = id2client[i]]
    /\ insert_title(id2client[i], title)
    /\ todo' = [todo EXCEPT ![k] = {title}]
    /\ Goto(k, "reg_push")
    /\ UNCHANGED <<id2client, title2clients, titleKeys, cur>>

RegisterPush(k) ==
    /\ pc[k] = "reg_push"
    /\ \E t \in todo[k] :
          /\ PushUnlessPresent(cl[k], t)
          /\ Advance(k, t, "reg_push")
    /\ UNCHANGED <<id2client, titles>>

UnregisterTitle(k, i, title) ==
    /\ pc[k] = "idle"
    /\ i \in Serves[k]
    /\ id2client[i] # None
    /\ cl' = [cl EXCEPT ![k] = id2client[i]]
    /\ remove_title(id2client[i], title)
    /\ todo' = [todo EXCEPT ![k] = {title}]
    /\ Goto(k, "unreg_retain")
    /\ UNCHANGED <<id2client, title2clients, titleKeys, cur>>

UnregisterRetain(k) ==
    /\ pc[k] = "unreg_retain"
    /\ \E t \in todo[k] : Retain(k, cl[k], t, "unreg_retain", "unreg_drop")

UnregisterDrop(k) ==
    /\ pc[k] = "unreg_drop"
    /\ DropKey(k, "unreg_retain")

-----------------------------------------------------------------------------

Step(k) ==
    \/ AddInsert(k) \/ AddIter(k) \/ AddPush(k)
    \/ RemoveIter(k) \/ RemoveRetain(k) \/ RemoveDrop(k)
    \/ RegisterPush(k)
    \/ UnregisterRetain(k) \/ UnregisterDrop(k)

Next ==
    \E k \in Tasks :
        \/ \E c \in Clients, title \in TitleArgs : Login(k, c, title)
        \/ \E i \in Ids : RemoveClient(k, i)
        \/ \E i \in Ids, title \in TitleArgs : RegisterTitle(k, i, title)
        \/ \E i \in Ids, title \in TitleArgs : UnregisterTitle(k, i, title)
        \/ Step(k)

Spec == Init /\ [][Next]_vars

-----------------------------------------------------------------------------
(* Properties                                                              *)

(* No operation on a client object with id i is running.                   *)
Quiet(i) == \A k \in Tasks : pc[k] = "idle" \/ IdOf[cl[k]] # i

(* A title lists an id at most once, whatever runs concurrently: add_client *)
(* and register_title push only after looking for the id under the title's *)
(* lock, so a cast never sends a message twice to one client.              *)
NoDuplicateSubscriber ==
    \A t \in Titles : \A c, d \in title2clients[t] : IdOf[c] = IdOf[d] => c = d

(* title_count() is the number of titles with at least one subscriber: an   *)
(* entry with an empty Vec exists only between the drop of its guard and   *)
(* its removal in remove_client or unregister_title, and a title without   *)
(* an entry has no subscriber.                                             *)
TitleCountExact ==
    \A t \in Titles :
        /\ t \in titleKeys /\ title2clients[t] = {}
               => \E k \in Tasks : pc[k] \in Dropping /\ cur[k] = t
        /\ t \notin titleKeys => title2clients[t] = {}

(* No two tasks work for the id.                                           *)
SoleTask(i) == \A j, k \in Tasks : i \in Serves[j] \cap Serves[k] => j = k

(* "Remove a client from both the id map and every title map": once nothing *)
(* runs for an id that one task works for, a single title lists it only if  *)
(* it is registered, with the object the id map holds, and only if that     *)
(* object carries the title: whatever other tasks do to the same titles.    *)
NoDanglingSubscriber ==
    \A t \in Titles : \A c \in title2clients[t] :
        Split(t) = {t} /\ SoleTask(IdOf[c]) /\ Quiet(IdOf[c])
            => id2client[IdOf[c]] = c /\ t \in titles[c]

(* "Subscribe a connected client to a title": once nothing runs for an id,  *)
(* a registered client is found under every title it carries.               *)
SubscriptionIsRouted ==
    \A i \in Ids :
        id2client[i] # None /\ Quiet(i)
            => \A t \in titles[id2client[i]] : id2client[i] \in title2clients[t]
=============================================================================
