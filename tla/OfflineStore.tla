---------------------------- MODULE OfflineStore ----------------------------
(***************************************************************************)
(* The offline queue of one client in rex-persistence (store.rs) and its   *)
(* callers: two sled trees, one from message id to message and one from    *)
(* client to the list of its message ids.  A sled operation is atomic, an  *)
(* operation of the store is a sequence of them, and nothing keeps the     *)
(* tasks of the server (a login that drains the queue, the Janitor that    *)
(* clears it, who queues messages) from running in between.  Queues of     *)
(* different clients share no key.                                         *)
(*                                                                         *)
(* A message is its id, which gen_message_id makes in increasing order;    *)
(* that ids may repeat (16 bits of a counter in one second) is left out.   *)
(***************************************************************************)
EXTENDS Naturals, Sequences, Functions

CONSTANTS Writers,   \* tasks that queue, remove and clean up messages
          Clearers,  \* tasks that drain or clear the queue
          MaxQueue,  \* max_queue_size
          MaxMsgs,   \* bound: messages queued
          MaxCrash   \* bound: crashes

ASSUME ConstantsAssumption ==
    /\ Writers \cap Clearers = {}
    /\ MaxQueue \in Nat \ {0}
    /\ MaxMsgs \in Nat
    /\ MaxCrash \in Nat

Tasks == Writers \cup Clearers
Msgs == 1 .. MaxMsgs
NoMsg == 0

VARIABLES
    index,   \* T_OFFLINE_INDEX: the client's message ids
    tree,    \* T_OFFLINE_QUEUE: the ids with a message
    disk,    \* what sled has flushed of both
    count,   \* messages created
    old,     \* messages 1 .. old are older than message_ttl
    crashes, \* crashes so far
    pc,      \* task -> the sled operation it does next
    new,     \* task -> the message it queues
    gone,    \* task -> the message it removes
    ids,     \* task -> the index as it read it, or what is left of it
    owed     \* history: messages queued that nobody was allowed to drop

storeVars == <<index, tree>>
worldVars == <<disk, count, old, crashes>>
taskVars == <<new, gone, ids>>
vars == <<storeVars, worldVars, pc, taskVars, owed>>

(* Every variable keeps its shape.                                         *)
TypeOK ==
    /\ index \in Seq(Msgs)
    /\ tree \subseteq Msgs
    /\ disk \in [index : Seq(Msgs), tree : SUBSET Msgs]
    /\ count \in 0 .. MaxMsgs
    /\ old \in 0 .. count
    /\ crashes \in 0 .. MaxCrash
    /\ pc \in [Tasks -> {"idle", "find", "retain", "rewrite", "delete", "store",
                         "read", "write", "sift", "sweep", "purge"}]
    /\ new \in [Tasks -> Msgs \cup {NoMsg}]
    /\ gone \in [Tasks -> Msgs \cup {NoMsg}]
    /\ ids \in [Tasks -> Seq(Msgs)]
    /\ owed \subseteq 1 .. count

Init ==
    /\ index = <<>>
    /\ tree = {}
    /\ disk = [index |-> <<>>, tree |-> {}]
    /\ count = 0
    /\ old = 0
    /\ crashes = 0
    /\ pc = [t \in Tasks |-> "idle"]
    /\ new = [t \in Tasks |-> NoMsg]
    /\ gone = [t \in Tasks |-> NoMsg]
    /\ ids = [t \in Tasks |-> <<>>]
    /\ owed = {}

-----------------------------------------------------------------------------
Goto(t, label) == pc' = [pc EXCEPT ![t] = label]

(* The operation is over; its local variables go with it.                  *)
Return(t) ==
    /\ Goto(t, "idle")
    /\ new' = [new EXCEPT ![t] = NoMsg]
    /\ gone' = [gone EXCEPT ![t] = NoMsg]
    /\ ids' = [ids EXCEPT ![t] = <<>>]

(* The elements of s that are in S, in their order (filter, retain).       *)
Keep(s, S) ==
    LET kept[n \in 0 .. Len(s)] ==
            IF n = 0 THEN <<>>
            ELSE IF s[n] \in S THEN Append(kept[n - 1], s[n])
            ELSE kept[n - 1]
    IN  kept[Len(s)]

Without(s, S) == Keep(s, Msgs \ S)
Expired(m) == m <= old

-----------------------------------------------------------------------------
(* add_offline_message                                                     *)

BugRoomForOneMore(t) ==
    /\ pc[t] = "idle"
    /\ count < MaxMsgs
    /\ count' = count + 1
    /\ new' = [new EXCEPT ![t] = count + 1]
    /\ Goto(t, IF Len(index) > MaxQueue THEN "find" ELSE "store")
    /\ UNCHANGED <<storeVars, disk, old, crashes, gone, ids, owed>>

(* The new message gets its id; the size of the queue decides whether the  *)
(* oldest has to make room.                                                *)
Queue(t) ==
    /\ pc[t] = "idle"
    /\ count < MaxMsgs
    /\ count' = count + 1
    /\ new' = [new EXCEPT ![t] = count + 1]
    /\ Goto(t, IF Len(index) >= MaxQueue THEN "find" ELSE "store")
    /\ UNCHANGED <<storeVars, disk, old, crashes, gone, ids, owed>>

BugNewestMakesRoom(t) ==
    /\ pc[t] = "find"
    /\ \/ /\ index = <<>>
          /\ Goto(t, "store")
          /\ UNCHANGED <<gone, owed>>
       \/ /\ index # <<>>
          /\ Goto(t, "retain")
          /\ gone' = [gone EXCEPT ![t] = index[Len(index)]]
          /\ owed' = owed \ {Head(index)}
    /\ UNCHANGED <<storeVars, worldVars, new, ids>>

(* remove_oldest_offline: the first id of the index, if it still has one.  *)
FindOldest(t) ==
    /\ pc[t] = "find"
    /\ \/ /\ index = <<>>
          /\ Goto(t, "store")
          /\ UNCHANGED <<gone, owed>>
       \/ /\ index # <<>>
          /\ Goto(t, "retain")
          /\ gone' = [gone EXCEPT ![t] = Head(index)]
          /\ owed' = owed \ {Head(index)}
    /\ UNCHANGED <<storeVars, worldVars, new, ids>>

Store(t) ==
    /\ pc[t] = "store"
    /\ tree' = tree \cup {new[t]}
    /\ Goto(t, "read")
    /\ UNCHANGED <<index, worldVars, taskVars, owed>>

ReadIndex(t) ==
    /\ pc[t] = "read"
    /\ ids' = [ids EXCEPT ![t] = index]
    /\ Goto(t, "write")
    /\ UNCHANGED <<storeVars, worldVars, new, gone, owed>>

(* A clear has read the index and may delete what is in it.                *)
Clearing == \E t \in Clearers : pc[t] = "purge"

BugPushFront(t) ==
    /\ pc[t] = "write"
    /\ index' = <<new[t]>> \o ids[t]
    /\ owed' = IF Clearing THEN owed ELSE owed \cup {new[t]}
    /\ Return(t)
    /\ UNCHANGED <<tree, worldVars>>

WriteIndex(t) ==
    /\ pc[t] = "write"
    /\ index' = Append(ids[t], new[t])
    /\ owed' = IF Clearing THEN owed ELSE owed \cup {new[t]}
    /\ Return(t)
    /\ UNCHANGED <<tree, worldVars>>

-----------------------------------------------------------------------------
(* remove_offline_message, called by itself or to make room                *)

RemoveMessage(t, m) ==
    /\ pc[t] = "idle"
    /\ gone' = [gone EXCEPT ![t] = m]
    /\ owed' = owed \ {m}
    /\ Goto(t, "retain")
    /\ UNCHANGED <<storeVars, worldVars, new, ids>>

Retain(t) ==
    /\ pc[t] = "retain"
    /\ ids' = [ids EXCEPT ![t] = Without(index, {gone[t]})]
    /\ Goto(t, "rewrite")
    /\ UNCHANGED <<storeVars, worldVars, new, gone, owed>>

Rewrite(t) ==
    /\ pc[t] = "rewrite"
    /\ index' = ids[t]
    /\ Goto(t, "delete")
    /\ UNCHANGED <<tree, worldVars, taskVars, owed>>

BugAlwaysStores(t) ==
    /\ pc[t] = "delete"
    /\ tree' = tree \ {gone[t]}
    /\ Goto(t, "store")
    /\ UNCHANGED <<index, worldVars, taskVars, owed>>

Delete(t) ==
    /\ pc[t] = "delete"
    /\ tree' = tree \ {gone[t]}
    /\ IF new[t] = NoMsg THEN Return(t) ELSE Goto(t, "store") /\ UNCHANGED taskVars
    /\ UNCHANGED <<index, worldVars, owed>>

-----------------------------------------------------------------------------
(* cleanup_expired                                                         *)

CleanUp(t) ==
    /\ pc[t] = "idle"
    /\ ids' = [ids EXCEPT ![t] = index]
    /\ Goto(t, "sift")
    /\ UNCHANGED <<storeVars, worldVars, new, gone, owed>>

(* Looking up every id it has found the expired messages, E; one is missed *)
(* that expired after its turn, was deleted before it, or could not be     *)
(* read.  The index is written only if there are any.                      *)
Sift(t) ==
    /\ pc[t] = "sift"
    /\ \E E \in SUBSET {m \in Range(ids[t]) : Expired(m)} :
          /\ \/ E = {} /\ Return(t) /\ UNCHANGED index
             \/ /\ E # {}
                /\ index' = Without(ids[t], E)
                /\ ids' = [ids EXCEPT ![t] = Keep(@, E)]
                /\ Goto(t, "sweep")
                /\ UNCHANGED <<new, gone>>
    /\ UNCHANGED <<tree, worldVars, owed>>

(* The expired messages are deleted; failures are ignored.                 *)
Sweep(t) ==
    /\ pc[t] = "sweep"
    /\ \E F \in SUBSET Range(ids[t]) : tree' = tree \ F
    /\ Return(t)
    /\ UNCHANGED <<index, worldVars, owed>>

-----------------------------------------------------------------------------
(* clear_offline_messages: the Janitor clears the queue of an expired      *)
(* ghost, and a login does after it has read the queue and sent what it    *)
(* found, whether or not the sends succeeded.                              *)

Clear(t) ==
    /\ pc[t] = "idle"
    /\ ids' = [ids EXCEPT ![t] = index]
    /\ owed' = {}
    /\ Goto(t, "purge")
    /\ UNCHANGED <<storeVars, worldVars, new, gone>>

(* Message by message, then the index.                                     *)
Purge(t) ==
    /\ pc[t] = "purge"
    /\ \/ /\ ids[t] # <<>>
          /\ tree' = tree \ {Head(ids[t])}
          /\ ids' = [ids EXCEPT ![t] = Tail(@)]
          /\ UNCHANGED <<index, pc, new, gone>>
       \/ /\ ids[t] = <<>>
          /\ index' = <<>>
          /\ Return(t)
          /\ UNCHANGED tree
    /\ UNCHANGED <<worldVars, owed>>

-----------------------------------------------------------------------------
(* Any sled operation may fail: the store returns the error, the port logs *)
(* it and the caller goes on.                                              *)
Abort(t) ==
    /\ pc[t] \notin {"idle", "sweep"}
    /\ Return(t)
    /\ UNCHANGED <<storeVars, worldVars, owed>>

(* The oldest message passes message_ttl, long after it was queued.        *)
Expire ==
    /\ old < count
    /\ \A t \in Tasks : new[t] # old + 1
    /\ old' = old + 1
    /\ owed' = owed \ {old + 1}
    /\ UNCHANGED <<storeVars, disk, count, crashes, pc, taskVars>>

(* sled flushes its log in the order of the writes; without a crash to     *)
(* come it does not matter.                                                *)
Flush ==
    /\ crashes < MaxCrash
    /\ disk' = [index |-> index, tree |-> tree]
    /\ UNCHANGED <<storeVars, count, old, crashes, pc, taskVars, owed>>

Crash ==
    /\ crashes < MaxCrash
    /\ crashes' = crashes + 1
    /\ index' = disk.index
    /\ tree' = disk.tree
    /\ pc' = [t \in Tasks |-> "idle"]
    /\ new' = [t \in Tasks |-> NoMsg]
    /\ gone' = [t \in Tasks |-> NoMsg]
    /\ ids' = [t \in Tasks |-> <<>>]
    /\ owed' = {}
    /\ UNCHANGED <<disk, count, old>>

Writer(t) ==
    \/ Queue(t) \/ FindOldest(t) \/ Store(t) \/ ReadIndex(t) \/ WriteIndex(t)
    \/ \E m \in 1 .. count : RemoveMessage(t, m)
    \/ Retain(t) \/ Rewrite(t) \/ Delete(t)
    \/ CleanUp(t) \/ Sift(t) \/ Sweep(t)

Clearer(t) == Clear(t) \/ Purge(t)

Next ==
    \/ \E t \in Writers : Writer(t)
    \/ \E t \in Clearers : Clearer(t)
    \/ \E t \in Tasks : Abort(t)
    \/ Expire \/ Flush \/ Crash

Spec == Init /\ [][Next]_vars

-----------------------------------------------------------------------------
OneWriter == \A s, t \in Writers : s = t

(* With one task that queues, a client's index holds at most               *)
(* max_queue_size ids, although add_offline_message checks the size before *)
(* it reads the index again and clears and crashes come in between.        *)
QueueBounded == OneWriter => Len(index) <= MaxQueue

(* What get_offline_messages returns.                                      *)
OfflineMessages == Keep(index, {m \in tree : ~Expired(m)})

Increasing(s) == \A i, j \in 1 .. Len(s) : i < j => s[i] < s[j]

(* "Order is FIFO": with one task that queues, a client gets its messages  *)
(* in the order they were queued, and none twice.                          *)
FifoOrder == OneWriter => Increasing(OfflineMessages)

(* With one task that queues, a message whose add_offline_message returned *)
(* is what get_offline_messages finds, until it expires, is removed, makes *)
(* room as the oldest, or a clear or a crash takes the queue: no stale     *)
(* index written back over a newer one drops it.                           *)
OwedIsKept == OneWriter => owed \subseteq Range(OfflineMessages)
=============================================================================
