------------------------- MODULE OfflineStoreProofs -------------------------
(***************************************************************************)
(* Proofs about the offline queue of OfflineStore, for any number of tasks *)
(* and messages and any max_queue_size.                                    *)
(*                                                                         *)
(* What Keep computes is shown first, by induction on the length of the    *)
(* list; then three invariants, each a claim about what a task holds       *)
(* between two of its sled operations: BoundInv (the room it has checked), *)
(* OrderInv (no list holds an id as new as the one it is to enter) and     *)
(* OwedInv (the index it writes back holds what is owed).                  *)
(***************************************************************************)
EXTENDS OfflineStore, TLAPS, WellFoundedInduction, NaturalsInduction

-----------------------------------------------------------------------------
(* Induction, without a predicate for a parameter: the set of the numbers  *)
(* at which a claim fails has no least element.                            *)

(* A set of numbers that holds neither 0 nor the first number after one    *)
(* outside of it is empty.                                                 *)
LEMMA NoBadNumber ==
  ASSUME NEW B \in SUBSET Nat, 0 \notin B,
         \A n \in Nat : n + 1 \in B => n \in B
  PROVE  B = {}
<1> DEFINE R == OpToRel(<, Nat)
<1>1. SUFFICES ASSUME B # {} PROVE FALSE
  OBVIOUS
<1>2. \E n \in B : \A m \in B : ~(<<m, n>> \in R)
  <2>1. IsWellFoundedOn(R, Nat)
    BY NatLessThanWellFounded, Zenon
  <2> HIDE DEF R
  <2> QED BY <1>1, <2>1, WFMin, Zenon
<1>3. PICK n \in B : \A m \in B : ~(<<m, n>> \in R)
  BY <1>2, Zenon
<1>4. \A m \in B : ~(m < n)
  BY <1>3, Zenon DEF OpToRel
<1>5. n - 1 \in Nat /\ (n - 1) + 1 = n
  OBVIOUS
<1>6. n - 1 \in B
  BY <1>5, Zenon
<1> QED
  BY <1>4, <1>5, <1>6

-----------------------------------------------------------------------------
(* What Keep returns.                                                      *)

KeptValue(s, S, f, k) ==
    IF k = 0 THEN <<>>
    ELSE IF s[k] \in S THEN Append(f[k - 1], s[k])
    ELSE f[k - 1]

KeptUpTo(s, S, n, f) == [k \in 0 .. n |-> KeptValue(s, S, f, k)]

(* The recursive function of Keep, cut off at n, at one of its arguments.  *)
LEMMA KeptAt ==
  ASSUME NEW s, NEW S, NEW n, NEW f, f = KeptUpTo(s, S, n, f),
         NEW k \in 0 .. n
  PROVE  f[k] = KeptValue(s, S, f, k)
  BY Zenon DEF KeptUpTo

(* Keep is the last value of such a function, if there is one.             *)
LEMMA KeepUnfold ==
  ASSUME NEW s, NEW S, NEW f, f = KeptUpTo(s, S, Len(s), f)
  PROVE  \E g : g = KeptUpTo(s, S, Len(s), g) /\ Keep(s, S) = g[Len(s)]
  BY Zenon DEF Keep, KeptUpTo, KeptValue

(* There is one for every list.                                            *)
LEMMA KeepExists ==
  ASSUME NEW s \in Seq(Msgs), NEW S
  PROVE  \E f : f = KeptUpTo(s, S, Len(s), f)
<1> DEFINE B == {n \in Nat : ~ \E f : f = KeptUpTo(s, S, n, f)}
<1>1. 0 \notin B
  <2> DEFINE g == [k \in 0 .. 0 |-> <<>>]
  <2>1. g = KeptUpTo(s, S, 0, g)
    BY DEF KeptUpTo, KeptValue
  <2> QED BY <2>1, Zenon
<1>2. ASSUME NEW n \in Nat, n \notin B PROVE n + 1 \notin B
  <2>1. PICK f : f = KeptUpTo(s, S, n, f)
    BY <1>2, Zenon
  <2> DEFINE g == [k \in 0 .. n + 1 |->
                     IF k <= n THEN f[k] ELSE KeptValue(s, S, f, k)]
  <2>2. ASSUME NEW k \in 0 .. n + 1
        PROVE  g[k] = KeptValue(s, S, g, k)
    <3>1. g[k] = KeptValue(s, S, f, k)
      <4>1. CASE k \in 0 .. n
        BY <4>1, <2>1, KeptAt, Zenon
      <4>2. CASE k \notin 0 .. n
        BY <4>2
      <4> QED BY <4>1, <4>2, Zenon
    <3>2. k # 0 => g[k - 1] = f[k - 1]
      OBVIOUS
    <3> QED BY <3>1, <3>2, Zenon DEF KeptValue
  <2>3. g = KeptUpTo(s, S, n + 1, g)
    BY <2>2, Zenon DEF KeptUpTo
  <2> QED BY <2>3, Zenon
<1>3. B = {}
  <2> HIDE DEF B
  <2>1. B \in SUBSET Nat BY Zenon DEF B
  <2> QED BY <1>1, <1>2, <2>1, NoBadNumber, Zenon
<1>4. Len(s) \in Nat
  OBVIOUS
<1> QED BY <1>3, <1>4, Zenon

(* The ids of a list after one is appended.                                *)
LEMMA RangeAppend ==
  ASSUME NEW T, NEW r \in Seq(T), NEW x \in T
  PROVE  Range(Append(r, x)) = Range(r) \cup {x}
<1> DEFINE q == Append(r, x)
<1>1. DOMAIN q = 1 .. Len(r) + 1 /\ DOMAIN r = 1 .. Len(r) /\ Len(r) \in Nat
  OBVIOUS
<1>2. q[Len(r) + 1] = x /\ \A i \in 1 .. Len(r) : q[i] = r[i]
  OBVIOUS
<1>3. \A i \in 1 .. Len(r) + 1 : i \in 1 .. Len(r) \/ i = Len(r) + 1
  BY <1>1
<1>4. Len(r) + 1 \in 1 .. Len(r) + 1 /\ \A i \in 1 .. Len(r) : i \in 1 .. Len(r) + 1
  BY <1>1
<1> HIDE DEF q
<1>5. Range(q) = Range(r) \cup {x}
  BY <1>1, <1>2, <1>3, <1>4, Zenon DEF Range
<1> QED BY <1>5, Zenon DEF q

(* r keeps the elements of S among the first n of s.                       *)
KeepsOf(s, S, n, r) ==
    /\ r \in Seq(Msgs)
    /\ Len(r) <= n
    /\ \A i \in 1 .. n : s[i] \notin S => Len(r) < n
    /\ Range(r) = {s[i] : i \in 1 .. n} \cap S
    /\ Increasing(s) => Increasing(r)

(* One more element of s considered.                                       *)
LEMMA KeepsNext ==
  ASSUME NEW s \in Seq(Msgs), NEW S, NEW n \in Nat, n + 1 <= Len(s),
         NEW r, KeepsOf(s, S, n, r),
         NEW q, q = IF s[n + 1] \in S THEN Append(r, s[n + 1]) ELSE r
  PROVE  KeepsOf(s, S, n + 1, q)
<1>1. r \in Seq(Msgs) /\ Len(r) <= n /\ Len(r) \in Nat /\ s[n + 1] \in Msgs
  BY DEF KeepsOf
<1>2. {s[i] : i \in 1 .. n + 1} = {s[i] : i \in 1 .. n} \cup {s[n + 1]}
  OBVIOUS
<1>3. CASE s[n + 1] \in S
  <2>1. q = Append(r, s[n + 1])
    BY <1>3, Zenon
  <2>2. q \in Seq(Msgs) /\ Len(q) = Len(r) + 1
    BY <2>1, <1>1
  <2>3. \A i \in 1 .. n + 1 : s[i] \notin S => Len(q) < n + 1
    BY <2>2, <1>1, <1>3 DEF KeepsOf
  <2>4. Range(q) = {s[i] : i \in 1 .. n + 1} \cap S
    <3>1. Range(q) = Range(r) \cup {s[n + 1]}
      BY <2>1, <1>1, RangeAppend
    <3>2. Range(r) = {s[i] : i \in 1 .. n} \cap S
      BY Zenon DEF KeepsOf
    <3> QED BY <3>1, <3>2, <1>2, <1>3, Zenon
  <2>5. ASSUME Increasing(s) PROVE Increasing(q)
    <3>1. Increasing(r)
      BY <2>5, Zenon DEF KeepsOf
    <3>2. ASSUME NEW i \in 1 .. Len(r) PROVE r[i] < s[n + 1]
      <4>1. r[i] \in Range(r)
        BY <1>1 DEF Range
      <4>2. PICK j \in 1 .. n : r[i] = s[j]
        BY <4>1, Zenon DEF KeepsOf
      <4> QED BY <4>2, <2>5 DEF Increasing
    <3> QED BY <3>1, <3>2, <2>1, <2>2, <1>1 DEF Increasing
  <2> QED BY <2>2, <2>3, <2>4, <2>5, <1>1 DEF KeepsOf
<1>4. CASE s[n + 1] \notin S
  <2>1. q = r
    BY <1>4, Zenon
  <2>2. Range(q) = {s[i] : i \in 1 .. n + 1} \cap S
    BY <1>2, <1>4, <2>1, Zenon DEF KeepsOf
  <2> QED BY <1>1, <1>4, <2>1, <2>2 DEF KeepsOf
<1> QED BY <1>3, <1>4, Zenon

(* Keep(s, S) is a sequence of the elements of s that are in S: not longer *)
(* than s, shorter if an element is left out, increasing if s is.          *)
Kept(s, S, r) ==
    /\ r \in Seq(Msgs)
    /\ Len(r) <= Len(s)
    /\ (\E m \in Range(s) : m \notin S) => Len(r) < Len(s)
    /\ Range(r) = Range(s) \cap S
    /\ Increasing(s) => Increasing(r)

LEMMA KeepKeeps ==
  ASSUME NEW s \in Seq(Msgs), NEW S
  PROVE  Kept(s, S, Keep(s, S))
<1>1. PICK f : f = KeptUpTo(s, S, Len(s), f) /\ Keep(s, S) = f[Len(s)]
  BY KeepExists, KeepUnfold, Zenon
<1> DEFINE B == {n \in Nat : n <= Len(s) /\ ~ KeepsOf(s, S, n, f[n])}
<1>2. 0 \notin B
  <2>1. f[0] = <<>>
    BY <1>1 DEF KeptUpTo, KeptValue
  <2>2. KeepsOf(s, S, 0, <<>>)
    BY DEF KeepsOf, Range, Increasing
  <2> QED BY <2>1, <2>2, Zenon
<1>3. ASSUME NEW n \in Nat, n + 1 \in B PROVE n \in B
  <2>1. n + 1 <= Len(s) /\ ~ KeepsOf(s, S, n + 1, f[n + 1])
    BY <1>3, Zenon
  <2>2. f[n + 1] = IF s[n + 1] \in S THEN Append(f[n], s[n + 1]) ELSE f[n]
    <3>1. n + 1 \in 0 .. Len(s) /\ n + 1 # 0 /\ (n + 1) - 1 = n
      BY <2>1
    <3> QED BY <1>1, <3>1, KeptAt DEF KeptValue
  <2>3. ~ KeepsOf(s, S, n, f[n])
    BY <2>1, <2>2, KeepsNext, Zenon
  <2> QED BY <2>1, <2>3
<1>4. B = {}
  <2> HIDE DEF B
  <2>1. B \in SUBSET Nat BY Zenon DEF B
  <2> QED BY <1>2, <1>3, <2>1, NoBadNumber, Zenon
<1>5. KeepsOf(s, S, Len(s), f[Len(s)])
  BY <1>4
<1>6. Range(s) = {s[i] : i \in 1 .. Len(s)}
  BY DEF Range
<1> QED BY <1>1, <1>5, <1>6, Zenon DEF KeepsOf, Kept

-----------------------------------------------------------------------------
(* Types.                                                                  *)

(* The initial state is well typed.                                        *)
LEMMA TypeInit == Init => TypeOK
  BY ConstantsAssumption DEF Init, TypeOK, Msgs

(* A task that is to store a message or to put it in the index has one,    *)
(* and it has been created.                                                *)
NewInHand ==
    \A t \in Tasks :
       /\ new[t] <= count
       /\ pc[t] \in {"find", "store", "read", "write"} => new[t] # NoMsg

(* A task that returns leaves its local variables well typed.              *)
LEMMA ReturnTypes ==
  ASSUME TypeOK, NEW t \in Tasks, Return(t)
  PROVE  /\ pc' \in [Tasks -> {"idle", "find", "retain", "rewrite", "delete",
                               "store", "read", "write", "sift", "sweep", "purge"}]
         /\ new' \in [Tasks -> Msgs \cup {NoMsg}]
         /\ gone' \in [Tasks -> Msgs \cup {NoMsg}]
         /\ ids' \in [Tasks -> Seq(Msgs)]
<1>1. <<>> \in Seq(Msgs)
  OBVIOUS
<1> QED BY <1>1, Zenon DEF TypeOK, Return, Goto

(* An operation of a task that queues, removes or cleans up keeps types.   *)
LEMMA WriterTypes ==
  ASSUME TypeOK, NewInHand, NEW t \in Writers, Writer(t)
  PROVE  TypeOK'
<1> USE DEF storeVars, worldVars, taskVars
<1>0. t \in Tasks
  BY Zenon DEF Tasks
<1>1. CASE Queue(t)
  <2>1. count + 1 \in Msgs
    BY <1>1, ConstantsAssumption DEF Queue, TypeOK, Msgs
  <2> QED BY <1>0, <1>1, <2>1, ConstantsAssumption DEF Queue, Goto, TypeOK
<1>2. CASE FindOldest(t)
  <2>1. index # <<>> => Head(index) \in Msgs
    BY DEF TypeOK
  <2>2. CASE index = <<>>
    <3>1. /\ pc' = [pc EXCEPT ![t] = "store"]
          /\ UNCHANGED <<index, tree, disk, count, old, crashes, new, gone, ids, owed>>
      BY <1>2, <2>2, ZenonT(40) DEF FindOldest, Goto
    <3> QED BY <1>0, <3>1 DEF TypeOK
  <2>3. CASE index # <<>>
    <3>1. /\ pc' = [pc EXCEPT ![t] = "retain"]
          /\ gone' = [gone EXCEPT ![t] = Head(index)]
          /\ owed' \subseteq owed
          /\ UNCHANGED <<index, tree, disk, count, old, crashes, new, ids>>
      BY <1>2, <2>3, Zenon DEF FindOldest, Goto
    <3> QED BY <1>0, <2>1, <2>3, <3>1 DEF TypeOK
  <2> QED BY <2>2, <2>3
<1>3. CASE Store(t)
  <2>1. new[t] \in Msgs
    BY <1>0, <1>3, Zenon DEF Store, NewInHand, TypeOK
  <2> QED BY <1>0, <1>3, <2>1, Zenon DEF Store, Goto, TypeOK
<1>4. CASE ReadIndex(t)
  BY <1>0, <1>4, Zenon DEF ReadIndex, Goto, TypeOK
<1>5. CASE WriteIndex(t)
  <2>1. new[t] \in Msgs
    BY <1>0, <1>5, Zenon DEF WriteIndex, NewInHand, TypeOK
  <2>2. Append(ids[t], new[t]) \in Seq(Msgs)
    BY <1>0, <2>1 DEF TypeOK
  <2>3. owed' \subseteq 1 .. count
    <3>1. new[t] \in 1 .. count
      BY <1>0, <2>1 DEF NewInHand, TypeOK, Msgs
    <3>2. owed \subseteq 1 .. count /\ owed' \subseteq owed \cup {new[t]}
      BY <1>5, Zenon DEF WriteIndex, TypeOK
    <3> QED BY <3>1, <3>2, Zenon
  <2> QED BY <1>0, <1>5, <2>2, <2>3, ReturnTypes, Zenon DEF WriteIndex, TypeOK
<1>6. ASSUME NEW m \in 1 .. count, RemoveMessage(t, m) PROVE TypeOK'
  <2>1. m \in Msgs
    BY ConstantsAssumption DEF TypeOK, Msgs
  <2> QED BY <1>0, <1>6, <2>1, Zenon DEF RemoveMessage, Goto, TypeOK
<1>7. CASE Retain(t)
  <2>1. Without(index, {gone[t]}) \in Seq(Msgs)
    BY KeepKeeps, Zenon DEF TypeOK, Without, Kept
  <2> QED BY <1>0, <1>7, <2>1, Zenon DEF Retain, Goto, TypeOK
<1>8. CASE Rewrite(t)
  BY <1>0, <1>8, Zenon DEF Rewrite, Goto, TypeOK
<1>9. CASE Delete(t)
  <2>1. CASE new[t] = NoMsg
    BY <1>0, <1>9, <2>1, ReturnTypes, Zenon DEF Delete, TypeOK
  <2>2. CASE new[t] # NoMsg
    BY <1>0, <1>9, <2>2, Zenon DEF Delete, Goto, TypeOK
  <2> QED BY <2>1, <2>2, Zenon
<1>10. CASE CleanUp(t)
  BY <1>0, <1>10, Zenon DEF CleanUp, Goto, TypeOK
<1>11. CASE Sift(t)
  <2>1. PICK E \in SUBSET {m \in Range(ids[t]) : Expired(m)} :
           \/ E = {} /\ Return(t) /\ UNCHANGED index
           \/ /\ E # {}
              /\ index' = Without(ids[t], E)
              /\ ids' = [ids EXCEPT ![t] = Keep(@, E)]
              /\ Goto(t, "sweep")
              /\ UNCHANGED <<new, gone>>
    BY <1>11, Zenon DEF Sift
  <2>2. Without(ids[t], E) \in Seq(Msgs) /\ Keep(ids[t], E) \in Seq(Msgs)
    BY <1>0, KeepKeeps, Zenon DEF TypeOK, Without, Kept
  <2>3. CASE E = {} /\ Return(t) /\ UNCHANGED index
    BY <1>0, <1>11, <2>3, ReturnTypes, Zenon DEF Sift, TypeOK
  <2>4. CASE E # {} /\ index' = Without(ids[t], E)
              /\ ids' = [ids EXCEPT ![t] = Keep(@, E)]
              /\ Goto(t, "sweep") /\ UNCHANGED <<new, gone>>
    BY <1>0, <1>11, <2>4, <2>2, Zenon DEF Sift, Goto, TypeOK
  <2> QED BY <2>1, <2>3, <2>4, Zenon
<1>12. CASE Sweep(t)
  <2>1. tree' \subseteq tree
    BY <1>12, Zenon DEF Sweep
  <2> QED BY <1>0, <1>12, <2>1, ReturnTypes, Zenon DEF Sweep, TypeOK
<1> QED BY <1>1, <1>2, <1>3, <1>4, <1>5, <1>6, <1>7, <1>8, <1>9, <1>10, <1>11, <1>12, Zenon
        DEF Writer

(* So does a clear.                                                        *)
LEMMA ClearerTypes ==
  ASSUME TypeOK, NEW t \in Clearers, Clearer(t)
  PROVE  TypeOK'
<1> USE DEF storeVars, worldVars, taskVars
<1>0. t \in Tasks
  BY Zenon DEF Tasks
<1>1. CASE Clear(t)
  BY <1>0, <1>1, Zenon DEF Clear, Goto, TypeOK
<1>2. CASE Purge(t) /\ ids[t] # <<>>
  <2>1. Tail(ids[t]) \in Seq(Msgs)
    BY <1>0, <1>2 DEF TypeOK
  <2>2. /\ tree' \subseteq tree
        /\ ids' = [ids EXCEPT ![t] = Tail(ids[t])]
        /\ UNCHANGED <<index, disk, count, old, crashes, pc, new, gone, owed>>
    BY <1>2, ZenonT(40) DEF Purge
  <2> QED BY <1>0, <2>1, <2>2 DEF TypeOK
<1>3. CASE Purge(t) /\ ids[t] = <<>>
  BY <1>0, <1>3, ReturnTypes DEF Purge, TypeOK
<1> QED BY <1>1, <1>2, <1>3, Zenon DEF Clearer

(* And every other step.                                                   *)
LEMMA TypeStep == TypeOK /\ NewInHand /\ [Next]_vars => TypeOK'
<1> SUFFICES ASSUME TypeOK, NewInHand, [Next]_vars PROVE TypeOK'
  OBVIOUS
<1> USE DEF storeVars, worldVars, taskVars
<1>1. ASSUME NEW t \in Tasks, Abort(t) PROVE TypeOK'
  BY <1>1, ReturnTypes, Zenon DEF Abort, TypeOK
<1>2. CASE Expire
  <2>1. old + 1 \in 0 .. count /\ owed \ {old + 1} \subseteq 1 .. count
    BY <1>2 DEF Expire, TypeOK
  <2> QED BY <1>2, <2>1, Zenon DEF Expire, TypeOK
<1>3. CASE Flush
  BY <1>3, Zenon DEF Flush, TypeOK
<1>4. CASE Crash
  BY <1>4, ConstantsAssumption DEF Crash, TypeOK
<1>5. CASE UNCHANGED vars
  BY <1>5, Zenon DEF vars, TypeOK
<1> QED BY <1>1, <1>2, <1>3, <1>4, <1>5, WriterTypes, ClearerTypes, Zenon DEF Next

(* NewInHand is kept by every step.                                        *)
LEMMA NewInHandStep == TypeOK /\ NewInHand /\ [Next]_vars => NewInHand'
<1> SUFFICES ASSUME TypeOK, NewInHand, [Next]_vars PROVE NewInHand'
  OBVIOUS
<1> USE DEF storeVars, worldVars, taskVars, Tasks
<1>0. NoMsg <= count /\ count \in Nat
  BY DEF TypeOK, NoMsg
<1>1. ASSUME NEW t \in Tasks, Return(t), count' = count PROVE NewInHand'
  BY <1>0, <1>1, Zenon DEF Return, Goto, NewInHand, TypeOK
<1>2. ASSUME NEW t \in Writers, Writer(t) PROVE NewInHand'
  <2>1. CASE Queue(t)
    BY <1>0, <2>1 DEF Queue, Goto, NewInHand, TypeOK, NoMsg, Msgs
  <2>2. CASE FindOldest(t) \/ Store(t) \/ ReadIndex(t)
    BY <2>2 DEF FindOldest, Store, ReadIndex, Goto, NewInHand, TypeOK
  <2>3. CASE WriteIndex(t)
    BY <1>1, <2>3, Zenon DEF WriteIndex
  <2>4. ASSUME NEW m \in 1 .. count, RemoveMessage(t, m) PROVE NewInHand'
    BY <2>4, Zenon DEF RemoveMessage, Goto, NewInHand, TypeOK
  <2>5. CASE Retain(t) \/ Rewrite(t) \/ CleanUp(t)
    BY <2>5 DEF Retain, Rewrite, CleanUp, Goto, NewInHand, TypeOK
  <2>6. CASE Delete(t)
    <3>1. CASE new[t] = NoMsg
      BY <1>1, <2>6, <3>1, Zenon DEF Delete
    <3>2. CASE new[t] # NoMsg
      BY <2>6, <3>2, Zenon DEF Delete, Goto, NewInHand, TypeOK
    <3> QED BY <3>1, <3>2, Zenon
  <2>7. CASE Sift(t)
    <3>1. CASE Return(t)
      BY <1>1, <2>7, <3>1, Zenon DEF Sift
    <3>2. CASE Goto(t, "sweep") /\ UNCHANGED new
      BY <2>7, <3>2, Zenon DEF Sift, Goto, NewInHand, TypeOK
    <3> QED BY <2>7, <3>1, <3>2, Zenon DEF Sift
  <2>8. CASE Sweep(t)
    BY <1>1, <2>8, Zenon DEF Sweep
  <2> QED BY <1>2, <2>1, <2>2, <2>3, <2>4, <2>5, <2>6, <2>7, <2>8, Zenon DEF Writer
<1>3. ASSUME NEW t \in Clearers, Clearer(t) PROVE NewInHand'
  <2>1. CASE Clear(t)
    BY <2>1, Zenon DEF Clear, Goto, NewInHand, TypeOK
  <2>2. CASE Purge(t) /\ UNCHANGED <<pc, new>>
    BY <2>2, Zenon DEF Purge, NewInHand
  <2>3. CASE Purge(t) /\ Return(t)
    BY <1>1, <2>3, Zenon DEF Purge
  <2> QED BY <1>3, <2>1, <2>2, <2>3, Zenon DEF Clearer, Purge
<1>4. ASSUME NEW t \in Tasks, Abort(t) PROVE NewInHand'
  BY <1>1, <1>4, Zenon DEF Abort
<1>5. CASE Expire \/ Flush \/ UNCHANGED vars
  BY <1>5, Zenon DEF Expire, Flush, vars, NewInHand
<1>6. CASE Crash
  BY <1>0, <1>6, Zenon DEF Crash, NewInHand
<1> QED BY <1>2, <1>3, <1>4, <1>5, <1>6, Zenon DEF Next

(* Types and NewInHand together are inductive.                             *)
LEMMA TypesInvariant == Spec => [](TypeOK /\ NewInHand)
<1>1. Init => NewInHand
  BY DEF Init, NewInHand, NoMsg
<1>2. TypeOK /\ NewInHand /\ [Next]_vars => (TypeOK /\ NewInHand)'
  BY TypeStep, NewInHandStep, Zenon
<1> QED BY <1>1, <1>2, TypeInit, PTL DEF Spec

(* Every variable of the store, of its tasks and of the disk keeps its     *)
(* shape, whatever the tasks do in between each other's sled operations.   *)
THEOREM OfflineTypes == Spec => []TypeOK
  BY TypesInvariant, PTL

-----------------------------------------------------------------------------
(* The bound.  The size add_offline_message has checked is one that only   *)
(* the task itself can make larger; until it writes the index there is     *)
(* room for one more, in the index or in the copy of it the task has read. *)

RoomAt(t) ==
    /\ pc[t] = "idle" => new[t] = NoMsg
    /\ pc[t] \in {"store", "read"} => Len(index) < MaxQueue
    /\ pc[t] = "write" => Len(ids[t]) < MaxQueue
    /\ pc[t] \in {"sift", "rewrite"} => Len(ids[t]) <= MaxQueue
    /\ new[t] # NoMsg =>
          /\ pc[t] = "retain" => index = <<>> \/ gone[t] \in Range(index)
          /\ pc[t] = "rewrite" => Len(ids[t]) < MaxQueue
          /\ pc[t] = "delete" => Len(index) < MaxQueue

BoundInv ==
    /\ Len(index) <= MaxQueue
    /\ Len(disk.index) <= MaxQueue
    /\ \A t \in Writers : RoomAt(t)

(* The one task that queues keeps the bound, operation by operation.       *)
LEMMA BoundWriter ==
  ASSUME TypeOK, OneWriter, BoundInv, NEW t \in Writers, Writer(t)
  PROVE  BoundInv'
<1> USE DEF storeVars, worldVars, taskVars
<1>0. t \in Tasks /\ RoomAt(t) /\ \A u \in Writers : u = t
  BY Zenon DEF Tasks, BoundInv, OneWriter
<1>1. SUFFICES Len(index') <= MaxQueue /\ RoomAt(t)'
  <2>1. disk' = disk
    BY Zenon DEF Writer, Queue, FindOldest, Store, ReadIndex, WriteIndex, RemoveMessage,
           Retain, Rewrite, Delete, CleanUp, Sift, Sweep
  <2> QED BY <1>0, <2>1, Zenon DEF BoundInv
<1>2. Len(index) \in Nat /\ Len(index) <= MaxQueue /\ MaxQueue \in Nat \ {0}
      /\ Len(ids[t]) \in Nat
  BY <1>0, ConstantsAssumption DEF TypeOK, BoundInv
<1>3. ASSUME Return(t), Len(index') <= MaxQueue PROVE RoomAt(t)'
  BY <1>0, <1>3, Zenon DEF Return, Goto, RoomAt, TypeOK
<1>4. CASE Queue(t)
  BY <1>0, <1>2, <1>4 DEF Queue, Goto, RoomAt, TypeOK
<1>5. CASE FindOldest(t)
  <2>1. CASE index = <<>>
    BY <1>0, <1>2, <1>5, <2>1 DEF FindOldest, Goto, RoomAt, TypeOK
  <2>2. CASE index # <<>>
    <3>1. Head(index) \in Range(index)
      BY <2>2 DEF TypeOK, Range
    <3> QED BY <1>0, <1>2, <1>5, <2>2, <3>1, Zenon DEF FindOldest, Goto, RoomAt, TypeOK
  <2> QED BY <2>1, <2>2, Zenon
<1>6. CASE Store(t)
  BY <1>0, <1>2, <1>6, Zenon DEF Store, Goto, RoomAt, TypeOK
<1>7. CASE ReadIndex(t)
  BY <1>0, <1>2, <1>7, Zenon DEF ReadIndex, Goto, RoomAt, TypeOK
<1>8. CASE WriteIndex(t)
  <2>1. Len(index') = Len(ids[t]) + 1 /\ Len(ids[t]) < MaxQueue
    BY <1>0, <1>8 DEF WriteIndex, RoomAt, TypeOK
  <2> QED BY <1>2, <1>3, <1>8, <2>1 DEF WriteIndex
<1>9. ASSUME NEW m \in 1 .. count, RemoveMessage(t, m)
      PROVE  Len(index') <= MaxQueue /\ RoomAt(t)'
  BY <1>0, <1>2, <1>9, Zenon DEF RemoveMessage, Goto, RoomAt, TypeOK
<1>10. CASE Retain(t)
  <2> DEFINE r == Without(index, {gone[t]})
  <2>1. /\ Len(r) \in Nat /\ Len(r) <= Len(index)
        /\ gone[t] \in Range(index) => Len(r) < Len(index)
    BY KeepKeeps DEF TypeOK, Without, Kept
  <2>2. index = <<>> => Len(r) < MaxQueue
    BY <1>2, <2>1
  <2>3. new[t] # NoMsg => Len(r) < MaxQueue
    BY <1>0, <1>2, <1>10, <2>1, <2>2 DEF Retain, RoomAt
  <2> HIDE DEF r
  <2>4. ids'[t] = r
    BY <1>0, <1>10, Zenon DEF Retain, TypeOK, r
  <2> QED BY <1>0, <1>2, <1>10, <2>1, <2>3, <2>4 DEF Retain, Goto, RoomAt, TypeOK
<1>11. CASE Rewrite(t)
  BY <1>0, <1>2, <1>11, Zenon DEF Rewrite, Goto, RoomAt, TypeOK
<1>12. CASE Delete(t)
  <2>1. CASE new[t] = NoMsg
    BY <1>2, <1>3, <1>12, <2>1, Zenon DEF Delete
  <2>2. CASE new[t] # NoMsg
    BY <1>0, <1>2, <1>12, <2>2, Zenon DEF Delete, Goto, RoomAt, TypeOK
  <2> QED BY <2>1, <2>2, Zenon
<1>13. CASE CleanUp(t)
  BY <1>0, <1>2, <1>13, Zenon DEF CleanUp, Goto, RoomAt, TypeOK
<1>14. CASE Sift(t)
  <2>1. CASE Return(t) /\ UNCHANGED index
    BY <1>2, <1>3, <2>1, Zenon
  <2>2. ASSUME NEW E, index' = Without(ids[t], E), Goto(t, "sweep"), UNCHANGED new
        PROVE  Len(index') <= MaxQueue /\ RoomAt(t)'
    <3>1. Len(index') \in Nat /\ Len(index') <= Len(ids[t])
      BY <1>0, <2>2, KeepKeeps DEF TypeOK, Without, Kept
    <3>2. Len(ids[t]) <= MaxQueue
      BY <1>0, <1>14, Zenon DEF Sift, RoomAt
    <3>3. Len(index') <= MaxQueue
      BY <1>2, <3>1, <3>2
    <3> QED BY <1>0, <2>2, <3>3, Zenon DEF Goto, RoomAt, TypeOK
  <2> QED BY <1>14, <2>1, <2>2, Zenon DEF Sift
<1>15. CASE Sweep(t)
  BY <1>2, <1>3, <1>15, Zenon DEF Sweep
<1> QED BY <1>4, <1>5, <1>6, <1>7, <1>8, <1>9, <1>10, <1>11, <1>12, <1>13, <1>14, <1>15, Zenon
        DEF Writer

(* A clear leaves the index alone or empties it.                           *)
LEMMA BoundClearer ==
  ASSUME TypeOK, BoundInv, NEW t \in Clearers, Clearer(t)
  PROVE  BoundInv'
<1> USE DEF storeVars, worldVars, taskVars
<1>1. \A u \in Writers : u \in Tasks /\ u # t
  BY ConstantsAssumption, Zenon DEF Tasks
<1>2. \A u \in Writers : pc'[u] = pc[u] /\ new'[u] = new[u] /\ gone'[u] = gone[u]
                          /\ ids'[u] = ids[u]
  BY <1>1, Zenon DEF Clearer, Clear, Purge, Return, Goto, TypeOK
<1>3. disk' = disk /\ (index' = index \/ index' = <<>>)
  BY Zenon DEF Clearer, Clear, Purge
<1>4. CASE index' = index
  BY <1>2, <1>3, <1>4, ZenonT(40) DEF BoundInv, RoomAt
<1>5. CASE index' = <<>>
  <2>1. Len(index') < MaxQueue /\ Len(index') <= MaxQueue
    BY <1>5, ConstantsAssumption
  <2> QED BY <1>2, <1>3, <1>5, <2>1, Zenon DEF BoundInv, RoomAt
<1> QED BY <1>3, <1>4, <1>5, Zenon

(* Every step keeps the bound; a crash goes back to a bounded index.       *)
LEMMA BoundStep == TypeOK /\ OneWriter /\ BoundInv /\ [Next]_vars => BoundInv'
<1> SUFFICES ASSUME TypeOK, OneWriter, BoundInv, [Next]_vars PROVE BoundInv'
  OBVIOUS
<1> USE DEF storeVars, worldVars, taskVars
<1>1. ASSUME NEW t \in Tasks, Abort(t) PROVE BoundInv'
  BY <1>1, Zenon DEF Abort, Return, Goto, BoundInv, RoomAt, TypeOK, Tasks
<1>2. CASE Expire
  BY <1>2, Zenon DEF Expire, BoundInv, RoomAt
<1>3. CASE Flush
  BY <1>3, Zenon DEF Flush, BoundInv, RoomAt
<1>4. CASE Crash
  BY <1>4, Zenon DEF Crash, BoundInv, RoomAt, Tasks
<1>5. CASE UNCHANGED vars
  BY <1>5, Zenon DEF vars, BoundInv, RoomAt
<1> QED BY <1>1, <1>2, <1>3, <1>4, <1>5, BoundWriter, BoundClearer, Zenon DEF Next

(* With one task that queues, a client's index never holds more than       *)
(* max_queue_size ids: add_offline_message checks the size before it reads *)
(* the index again, and only what makes the index shorter comes between.   *)
THEOREM BoundedQueue == Spec => []QueueBounded
<1>1. Init => BoundInv
  BY ConstantsAssumption DEF Init, BoundInv, RoomAt, Tasks
<1>2. TypeOK /\ NewInHand /\ (OneWriter => BoundInv) /\ [Next]_vars
        => (OneWriter => BoundInv)'
  BY BoundStep, Zenon DEF OneWriter
<1>3. (OneWriter => BoundInv) => QueueBounded
  BY Zenon DEF BoundInv, QueueBounded
<1> QED BY <1>1, <1>2, <1>3, TypesInvariant, PTL DEF Spec

-----------------------------------------------------------------------------
(* The order.  Every list of ids, on the disk and in the hands of the task *)
(* that queues too, is increasing, and a message that is still to be       *)
(* entered is newer than all that is in any of them.                       *)

Indexed == Range(index) \cup Range(disk.index) \cup UNION {Range(ids[t]) : t \in Tasks}

OrderInv ==
    /\ Increasing(index)
    /\ Increasing(disk.index)
    /\ \A t \in Writers :
          /\ Increasing(ids[t])
          /\ new[t] # NoMsg => new[t] = count
    /\ \A m \in Indexed :
          /\ m \in 1 .. count
          /\ \A t \in Writers : new[t] # NoMsg => m < new[t]

(* The empty list is increasing.                                           *)
LEMMA EmptyIncreasing == Increasing(<<>>) /\ Range(<<>>) = {}
  BY DEF Increasing, Range

(* A newer id at the end keeps a list increasing.                          *)
LEMMA IncreasingAppend ==
  ASSUME NEW s \in Seq(Msgs), NEW x \in Msgs, Increasing(s), \A m \in Range(s) : m < x
  PROVE  Increasing(Append(s, x))
<1>1. \A i \in 1 .. Len(s) : s[i] < x
  BY DEF Range
<1> QED BY <1>1 DEF Increasing

(* What Purge takes from its list.                                         *)
LEMMA TailPart ==
  ASSUME NEW s \in Seq(Msgs), s # <<>>
  PROVE  Range(Tail(s)) \subseteq Range(s) /\ Head(s) \in Range(s)
<1>1. Len(s) \in Nat \ {0} /\ DOMAIN s = 1 .. Len(s)
  OBVIOUS
<1>2. DOMAIN Tail(s) = 1 .. Len(s) - 1
  BY <1>1
<1>3. \A i \in 1 .. Len(s) - 1 : Tail(s)[i] = s[i + 1] /\ i + 1 \in 1 .. Len(s)
  BY <1>1
<1>4. Range(Tail(s)) \subseteq Range(s)
  BY <1>1, <1>2, <1>3, Zenon DEF Range
<1> QED BY <1>1, <1>4 DEF Range

(* A task that changes its own list and the index enters no id that was in *)
(* none of the lists, if it takes both from one of them.                   *)
LEMMA IndexedPart ==
  ASSUME TypeOK, NEW t \in Tasks, NEW x, NEW S,
         ids' = [ids EXCEPT ![t] = x], disk' = disk,
         Range(x) \subseteq S, Range(index') \subseteq S, Indexed \subseteq S
  PROVE  Indexed' \subseteq S
<1>1. ASSUME NEW u \in Tasks PROVE Range(ids'[u]) \subseteq S
  <2>1. CASE u = t
    BY <2>1, Zenon DEF TypeOK
  <2>2. CASE u # t
    <3>1. ids'[u] = ids[u]
      BY <2>2, Zenon DEF TypeOK
    <3> QED BY <3>1, Zenon DEF Indexed
  <2> QED BY <2>1, <2>2, Zenon
<1>2. Range(disk'.index) \subseteq S
  BY Zenon DEF Indexed
<1> QED BY <1>1, <1>2, Zenon DEF Indexed

(* The one task that queues keeps the order, operation by operation.       *)
LEMMA OrderWriter ==
  ASSUME TypeOK, NewInHand, OneWriter, OrderInv, NEW t \in Writers, Writer(t)
  PROVE  OrderInv'
<1> USE DEF storeVars, worldVars, taskVars
<1>0. t \in Tasks /\ \A u \in Writers : u = t
  BY Zenon DEF Tasks, OneWriter
<1>1. disk' = disk
  BY Zenon DEF Writer, Queue, FindOldest, Store, ReadIndex, WriteIndex, RemoveMessage,
         Retain, Rewrite, Delete, CleanUp, Sift, Sweep
<1>2. /\ index \in Seq(Msgs) /\ Increasing(index) /\ Range(index) \subseteq Indexed
      /\ ids[t] \in Seq(Msgs) /\ Increasing(ids[t]) /\ Range(ids[t]) \subseteq Indexed
  BY <1>0, Zenon DEF OrderInv, Indexed, TypeOK
<1>3. ASSUME count' = count, new'[t] \in {new[t], NoMsg}, Increasing(index'),
             NEW x, ids' = [ids EXCEPT ![t] = x], Increasing(x),
             Range(x) \subseteq Indexed, Range(index') \subseteq Indexed
      PROVE  OrderInv'
  <2>1. Indexed' \subseteq Indexed
    BY <1>0, <1>1, <1>3, IndexedPart, Zenon
  <2>2. ids'[t] = x
    BY <1>0, <1>3, Zenon DEF TypeOK
  <2> QED BY <1>0, <1>1, <1>3, <2>1, <2>2, Zenon DEF OrderInv
<1>4. ids = [ids EXCEPT ![t] = ids[t]]
  BY <1>0, Zenon DEF TypeOK
<1>5. ASSUME count' = count, Return(t), index' = index PROVE OrderInv'
  <2>1. new'[t] = NoMsg
    BY <1>0, <1>5, Zenon DEF Return, TypeOK
  <2> QED BY <1>2, <1>3, <1>5, <2>1, EmptyIncreasing, Zenon DEF Return
<1>6. CASE Queue(t)
  <2>1. /\ count' = count + 1 /\ count \in Nat /\ new'[t] = count + 1
        /\ index' = index /\ ids' = ids
    BY <1>0, <1>6 DEF Queue, TypeOK
  <2>2. Indexed' = Indexed
    BY <1>1, <2>1, Zenon DEF Indexed
  <2>3. \A m \in Indexed : m \in 1 .. count + 1 /\ m < count + 1
    BY <2>1 DEF OrderInv
  <2> QED BY <1>0, <1>1, <2>1, <2>2, <2>3, Zenon DEF OrderInv
<1>7. CASE FindOldest(t) \/ Store(t)
  BY <1>2, <1>3, <1>4, <1>7, Zenon DEF FindOldest, Store
<1>8. CASE ReadIndex(t) \/ CleanUp(t)
  BY <1>2, <1>3, <1>8, Zenon DEF ReadIndex, CleanUp
<1>9. CASE WriteIndex(t)
  <2> DEFINE S == Indexed \cup {new[t]}
  <2>1. new[t] \in Msgs /\ new[t] # NoMsg /\ new[t] = count
    BY <1>0, <1>9, Zenon DEF WriteIndex, NewInHand, TypeOK, OrderInv
  <2>2. \A m \in Range(ids[t]) : m < new[t]
    BY <1>2, <2>1, Zenon DEF OrderInv
  <2>3. Increasing(index') /\ Range(index') \subseteq S
    <3>1. Range(index') = Range(ids[t]) \cup {new[t]}
      BY <1>2, <1>9, <2>1, RangeAppend DEF WriteIndex
    <3> QED BY <1>2, <1>9, <2>1, <2>2, <3>1, IncreasingAppend, Zenon DEF WriteIndex
  <2>4. count' = count /\ new'[t] = NoMsg /\ ids' = [ids EXCEPT ![t] = <<>>]
        /\ ids'[t] = <<>>
    BY <1>0, <1>9, Zenon DEF WriteIndex, Return, TypeOK
  <2>5. Indexed' \subseteq S
    BY <1>0, <1>1, <2>3, <2>4, IndexedPart, EmptyIncreasing, Zenon
  <2>6. \A m \in S : m \in 1 .. count
    BY <2>1 DEF OrderInv, Msgs
  <2> HIDE DEF S
  <2> QED BY <1>0, <1>1, <2>3, <2>4, <2>5, <2>6, EmptyIncreasing, Zenon DEF OrderInv
<1>10. ASSUME NEW m \in 1 .. count, RemoveMessage(t, m) PROVE OrderInv'
  BY <1>2, <1>3, <1>4, <1>10, Zenon DEF RemoveMessage
<1>11. CASE Retain(t)
  <2> DEFINE x == Without(index, {gone[t]})
  <2>1. Increasing(x) /\ Range(x) \subseteq Range(index)
    BY <1>2, KeepKeeps, ZenonT(40) DEF Without, Kept
  <2> HIDE DEF x
  <2>2. ids' = [ids EXCEPT ![t] = x]
    BY <1>11, Zenon DEF Retain, x
  <2> QED BY <1>2, <1>3, <1>11, <2>1, <2>2, Zenon DEF Retain
<1>12. CASE Rewrite(t)
  BY <1>2, <1>3, <1>4, <1>12, Zenon DEF Rewrite
<1>13. CASE Delete(t)
  <2>1. CASE new[t] = NoMsg
    BY <1>5, <1>13, <2>1, Zenon DEF Delete
  <2>2. CASE new[t] # NoMsg
    BY <1>2, <1>3, <1>4, <1>13, <2>2, Zenon DEF Delete
  <2> QED BY <2>1, <2>2, Zenon
<1>14. CASE Sift(t)
  <2>1. CASE Return(t) /\ UNCHANGED index
    BY <1>5, <1>14, <2>1, Zenon DEF Sift
  <2>2. ASSUME NEW E, index' = Without(ids[t], E), UNCHANGED new,
               ids' = [ids EXCEPT ![t] = Keep(@, E)]
        PROVE  OrderInv'
    <3> DEFINE x == Keep(ids[t], E)
    <3>1. Increasing(x) /\ Range(x) \subseteq Range(ids[t])
      BY <1>2, KeepKeeps, Zenon DEF Kept
    <3>2. Increasing(index') /\ Range(index') \subseteq Range(ids[t])
      BY <1>2, <2>2, KeepKeeps, Zenon DEF Without, Kept
    <3>3. ids' = [ids EXCEPT ![t] = x]
      BY <2>2, Zenon
    <3> HIDE DEF x
    <3>4. count' = count
      BY <1>14, Zenon DEF Sift
    <3> QED BY <1>2, <1>3, <2>2, <3>1, <3>2, <3>3, <3>4, Zenon
  <2> QED BY <1>14, <2>1, <2>2, Zenon DEF Sift
<1>15. CASE Sweep(t)
  BY <1>5, <1>15, Zenon DEF Sweep
<1> QED BY <1>6, <1>7, <1>8, <1>9, <1>10, <1>11, <1>12, <1>13, <1>14, <1>15, Zenon DEF Writer

(* A clear enters no id anywhere.                                          *)
LEMMA OrderClearer ==
  ASSUME TypeOK, OrderInv, NEW t \in Clearers, Clearer(t)
  PROVE  OrderInv'
<1> USE DEF storeVars, worldVars, taskVars
<1>0. t \in Tasks /\ \A u \in Writers : u \in Tasks /\ u # t
  BY ConstantsAssumption, Zenon DEF Tasks
<1>1. \A u \in Writers : ids'[u] = ids[u] /\ new'[u] = new[u]
  BY <1>0, Zenon DEF Clearer, Clear, Purge, Return, TypeOK
<1>2. disk' = disk /\ count' = count /\ (index' = index \/ index' = <<>>)
  BY Zenon DEF Clearer, Clear, Purge
<1>3. Range(index) \subseteq Indexed /\ Range(ids[t]) \subseteq Indexed
  BY <1>0, Zenon DEF Indexed
<1>4. Increasing(index') /\ Range(index') \subseteq Indexed
  BY <1>2, <1>3, EmptyIncreasing, Zenon DEF OrderInv
<1>5. \E x : ids' = [ids EXCEPT ![t] = x] /\ Range(x) \subseteq Indexed
  <2>1. CASE Clear(t)
    BY <1>3, <2>1, Zenon DEF Clear
  <2>2. CASE Purge(t) /\ ids[t] # <<>>
    BY <1>0, <1>3, <2>2, TailPart, Zenon DEF Purge, TypeOK
  <2>3. CASE Purge(t) /\ ids[t] = <<>>
    BY <2>3, EmptyIncreasing, Zenon DEF Purge, Return
  <2> QED BY <2>1, <2>2, <2>3, Zenon DEF Clearer
<1>6. Indexed' \subseteq Indexed
  BY <1>0, <1>2, <1>4, <1>5, IndexedPart, Zenon
<1> QED BY <1>1, <1>2, <1>4, <1>6, Zenon DEF OrderInv

(* Every step keeps the order; a crash goes back to a list in order.       *)
LEMMA OrderStep ==
  TypeOK /\ NewInHand /\ OneWriter /\ OrderInv /\ [Next]_vars => OrderInv'
<1> SUFFICES ASSUME TypeOK, NewInHand, OneWriter, OrderInv, [Next]_vars PROVE OrderInv'
  OBVIOUS
<1> USE DEF storeVars, worldVars, taskVars
<1>0. Writers \subseteq Tasks
  BY Zenon DEF Tasks
<1>1. ASSUME NEW t \in Tasks, Abort(t) PROVE OrderInv'
  <2>1. /\ index' = index /\ disk' = disk /\ count' = count
        /\ ids' = [ids EXCEPT ![t] = <<>>] /\ new' = [new EXCEPT ![t] = NoMsg]
    BY <1>1, Zenon DEF Abort, Return
  <2>2. Indexed' \subseteq Indexed
    <3>1. Range(index) \subseteq Indexed
      BY Zenon DEF Indexed
    <3> QED BY <2>1, <3>1, IndexedPart, EmptyIncreasing, Zenon
  <2>3. \A u \in Writers : /\ ids'[u] = ids[u] \/ ids'[u] = <<>>
                           /\ new'[u] = new[u] \/ new'[u] = NoMsg
    BY <1>0, <2>1, Zenon DEF TypeOK
  <2> QED BY <2>1, <2>2, <2>3, EmptyIncreasing, Zenon DEF OrderInv
<1>2. CASE Expire \/ UNCHANGED vars
  BY <1>2, Zenon DEF Expire, vars, OrderInv, Indexed
<1>3. CASE Flush
  <2>1. index' = index /\ ids' = ids /\ new' = new /\ count' = count /\ disk'.index = index
    BY <1>3, Zenon DEF Flush
  <2>2. Indexed' \subseteq Indexed
    BY <2>1, Zenon DEF Indexed
  <2> QED BY <2>1, <2>2, Zenon DEF OrderInv
<1>4. CASE Crash
  <2>1. /\ index' = disk.index /\ disk' = disk /\ count' = count
        /\ \A u \in Tasks : ids'[u] = <<>> /\ new'[u] = NoMsg
    BY <1>4, Zenon DEF Crash
  <2>2. Indexed' \subseteq Indexed
    BY <2>1, EmptyIncreasing, ZenonT(40) DEF Indexed
  <2> QED BY <1>0, <2>1, <2>2, EmptyIncreasing, Zenon DEF OrderInv
<1> QED BY <1>1, <1>2, <1>3, <1>4, OrderWriter, OrderClearer, Zenon DEF Next

(* "Order is FIFO": with one task that queues, what get_offline_messages   *)
(* returns is in the order the messages were queued, none of them twice,   *)
(* also after clears, clean-ups and a crash that goes back to an older     *)
(* index.                                                                  *)
THEOREM FifoDelivery == Spec => []FifoOrder
<1>1. Init => OrderInv
  BY EmptyIncreasing DEF Init, OrderInv, Indexed, Tasks
<1>2. TypeOK /\ NewInHand /\ (OneWriter => OrderInv) /\ [Next]_vars
        => (OneWriter => OrderInv)'
  BY OrderStep, Zenon DEF OneWriter
<1>3. TypeOK /\ (OneWriter => OrderInv) => FifoOrder
  BY KeepKeeps, Zenon DEF OrderInv, FifoOrder, OfflineMessages, Kept, TypeOK
<1> QED BY <1>1, <1>2, <1>3, TypesInvariant, PTL DEF Spec

-----------------------------------------------------------------------------
(* What is owed.  A copy of the index that is about to be written back     *)
(* holds every message that is owed, and what is about to be deleted is    *)
(* not owed: it was given up when the operation began, or a clear, which   *)
(* gives up all, is under way.                                             *)

OwedAt(t) ==
    /\ new[t] # NoMsg => new[t] > old
    /\ pc[t] \in {"read", "write"} => new[t] \in tree
    /\ pc[t] \in {"write", "rewrite", "sift"} => owed \subseteq Range(ids[t])
    /\ pc[t] \in {"retain", "rewrite", "delete"} => gone[t] \notin owed
    /\ pc[t] = "sweep" => \A m \in Range(ids[t]) : m <= old

OwedInv ==
    /\ owed \subseteq Range(index) \cap tree
    /\ \A m \in owed : m > old
    /\ Clearing => owed = {}
    /\ \A t \in Writers : OwedAt(t)

(* The one task that queues loses nothing that is owed.                    *)
LEMMA OwedWriter ==
  ASSUME TypeOK, NewInHand, OneWriter, OwedInv, NEW t \in Writers, Writer(t)
  PROVE  OwedInv'
<1> USE DEF storeVars, worldVars, taskVars
<1>0. /\ t \in Tasks /\ t \notin Clearers /\ Clearers \subseteq Tasks
      /\ \A u \in Writers : u = t
  BY ConstantsAssumption, Zenon DEF Tasks, OneWriter
<1>1. OwedAt(t) /\ owed \subseteq Range(index) /\ owed \subseteq tree
  BY Zenon DEF OwedInv
<1>2. old' = old /\ (Clearing' => Clearing)
  <2>1. old' = old
    BY Zenon DEF Writer, Queue, FindOldest, Store, ReadIndex, WriteIndex, RemoveMessage,
           Retain, Rewrite, Delete, CleanUp, Sift, Sweep
  <2>2. \E l : pc' = [pc EXCEPT ![t] = l]
    BY Zenon DEF Writer, Queue, FindOldest, Store, ReadIndex, WriteIndex, RemoveMessage,
           Retain, Rewrite, Delete, CleanUp, Sift, Sweep, Return, Goto
  <2> QED BY <1>0, <2>1, <2>2, Zenon DEF Clearing, TypeOK
<1>3. ASSUME owed' \subseteq owed, owed' \subseteq Range(index'), owed' \subseteq tree',
             OwedAt(t)'
      PROVE  OwedInv'
  BY <1>0, <1>2, <1>3, Zenon DEF OwedInv
<1>4. ASSUME Return(t) PROVE OwedAt(t)'
  BY <1>0, <1>4, Zenon DEF Return, Goto, OwedAt, TypeOK
<1>5. CASE Queue(t)
  <2>1. new'[t] > old
    BY <1>0, <1>5 DEF Queue, TypeOK
  <2>2. OwedAt(t)'
    BY <1>0, <1>2, <1>5, <2>1, Zenon DEF Queue, Goto, OwedAt, TypeOK
  <2> QED BY <1>1, <1>3, <1>5, <2>2, Zenon DEF Queue
<1>6. CASE FindOldest(t)
  <2>1. OwedAt(t)'
    BY <1>0, <1>1, <1>2, <1>6 DEF FindOldest, Goto, OwedAt, TypeOK
  <2> QED BY <1>1, <1>3, <1>6, <2>1, Zenon DEF FindOldest
<1>7. CASE Store(t)
  <2>1. OwedAt(t)'
    BY <1>0, <1>1, <1>2, <1>7, Zenon DEF Store, Goto, OwedAt, TypeOK
  <2> QED BY <1>1, <1>3, <1>7, <2>1, Zenon DEF Store
<1>8. CASE ReadIndex(t)
  <2>1. OwedAt(t)'
    BY <1>0, <1>1, <1>2, <1>8, Zenon DEF ReadIndex, Goto, OwedAt, TypeOK
  <2> QED BY <1>1, <1>3, <1>8, <2>1, Zenon DEF ReadIndex
<1>9. CASE WriteIndex(t)
  <2>1. /\ new[t] \in Msgs /\ new[t] # NoMsg /\ new[t] > old /\ new[t] \in tree
        /\ owed \subseteq Range(ids[t]) /\ ids[t] \in Seq(Msgs)
    BY <1>0, <1>1, <1>9, Zenon DEF WriteIndex, NewInHand, OwedAt, TypeOK
  <2>2. Range(index') = Range(ids[t]) \cup {new[t]}
    BY <1>9, <2>1, RangeAppend DEF WriteIndex
  <2>3. /\ owed' \subseteq owed \cup {new[t]} /\ tree' = tree
        /\ Clearing => owed' = owed
    BY <1>9, Zenon DEF WriteIndex
  <2>4. OwedAt(t)'
    BY <1>4, <1>9, Zenon DEF WriteIndex
  <2> QED BY <1>0, <1>2, <2>1, <2>2, <2>3, <2>4, Zenon DEF OwedInv
<1>10. ASSUME NEW m \in 1 .. count, RemoveMessage(t, m) PROVE OwedInv'
  <2>1. OwedAt(t)'
    BY <1>0, <1>1, <1>2, <1>10, Zenon DEF RemoveMessage, Goto, OwedAt, TypeOK
  <2> QED BY <1>1, <1>3, <1>10, <2>1, Zenon DEF RemoveMessage
<1>11. CASE Retain(t)
  <2> DEFINE x == Without(index, {gone[t]})
  <2>1. Range(x) = Range(index) \cap (Msgs \ {gone[t]})
    BY KeepKeeps, Zenon DEF Without, Kept, TypeOK
  <2>2. owed \subseteq Range(x)
    <3>1. Range(index) \subseteq Msgs
      BY DEF TypeOK, Range
    <3> QED BY <1>1, <1>11, <2>1, <3>1, Zenon DEF Retain, OwedAt
  <2> HIDE DEF x
  <2>3. ids'[t] = x
    BY <1>0, <1>11, Zenon DEF Retain, TypeOK, x
  <2>4. OwedAt(t)'
    BY <1>0, <1>1, <1>2, <1>11, <2>2, <2>3, Zenon DEF Retain, Goto, OwedAt, TypeOK
  <2> QED BY <1>1, <1>3, <1>11, <2>4, Zenon DEF Retain
<1>12. CASE Rewrite(t)
  <2>1. OwedAt(t)'
    BY <1>0, <1>1, <1>2, <1>12, Zenon DEF Rewrite, Goto, OwedAt, TypeOK
  <2>2. owed \subseteq Range(index')
    BY <1>1, <1>12, Zenon DEF Rewrite, OwedAt
  <2> QED BY <1>1, <1>3, <1>12, <2>1, <2>2, Zenon DEF Rewrite
<1>13. CASE Delete(t)
  <2>1. owed \subseteq tree'
    BY <1>1, <1>13, Zenon DEF Delete, OwedAt
  <2>2. OwedAt(t)'
    <3>1. CASE new[t] = NoMsg
      BY <1>4, <1>13, <3>1, Zenon DEF Delete
    <3>2. CASE new[t] # NoMsg
      BY <1>0, <1>1, <1>2, <1>13, <3>2, ZenonT(40) DEF Delete, Goto, OwedAt, TypeOK
    <3> QED BY <3>1, <3>2, Zenon
  <2> QED BY <1>1, <1>3, <1>13, <2>1, <2>2, Zenon DEF Delete
<1>14. CASE CleanUp(t)
  <2>1. OwedAt(t)'
    BY <1>0, <1>1, <1>2, <1>14, Zenon DEF CleanUp, Goto, OwedAt, TypeOK
  <2> QED BY <1>1, <1>3, <1>14, <2>1, Zenon DEF CleanUp
<1>15. CASE Sift(t)
  <2>1. PICK E \in SUBSET {m \in Range(ids[t]) : Expired(m)} :
           \/ E = {} /\ Return(t) /\ UNCHANGED index
           \/ /\ E # {}
              /\ index' = Without(ids[t], E)
              /\ ids' = [ids EXCEPT ![t] = Keep(@, E)]
              /\ Goto(t, "sweep")
              /\ UNCHANGED <<new, gone>>
    BY <1>15, Zenon DEF Sift
  <2>2. tree' = tree /\ owed' = owed
    BY <1>15, Zenon DEF Sift
  <2>3. CASE Return(t) /\ UNCHANGED index
    BY <1>1, <1>3, <1>4, <2>2, <2>3, Zenon
  <2>4. CASE /\ index' = Without(ids[t], E)
             /\ ids' = [ids EXCEPT ![t] = Keep(@, E)]
             /\ Goto(t, "sweep") /\ UNCHANGED new
    <3>1. ids[t] \in Seq(Msgs) /\ Range(ids[t]) \subseteq Msgs /\ owed \subseteq Range(ids[t])
      BY <1>0, <1>1, <1>15 DEF Sift, OwedAt, TypeOK, Range
    <3>2. Range(index') = Range(ids[t]) \cap (Msgs \ E)
      BY <2>4, <3>1, KeepKeeps, Zenon DEF Without, Kept
    <3>3. \A m \in owed : m \notin E
      <4>1. \A m \in E : m <= old
        BY Zenon DEF Expired
      <4>2. \A m \in owed : m > old /\ m \in Nat /\ old \in Nat
        BY <3>1 DEF OwedInv, TypeOK, Msgs
      <4> QED BY <4>1, <4>2
    <3>4. owed \subseteq Range(index')
      BY <3>1, <3>2, <3>3, Zenon
    <3> DEFINE x == Keep(ids[t], E)
    <3>5. \A m \in Range(x) : m <= old
      BY <3>1, KeepKeeps, Zenon DEF Kept, Expired
    <3> HIDE DEF x
    <3>6. ids'[t] = x
      BY <1>0, <2>4, Zenon DEF TypeOK, x
    <3>7. OwedAt(t)'
      BY <1>0, <1>1, <1>2, <2>4, <3>5, <3>6, ZenonT(40) DEF Goto, OwedAt, TypeOK
    <3> QED BY <1>1, <1>3, <2>2, <3>4, <3>7, ZenonT(40)
  <2> QED BY <2>1, <2>3, <2>4, Zenon
<1>16. CASE Sweep(t)
  <2>1. \A m \in Range(ids[t]) : m \notin owed
    <3>1. \A m \in Range(ids[t]) : m <= old
      BY <1>1, <1>16, Zenon DEF Sweep, OwedAt
    <3>2. \A m \in owed : m > old /\ m \in Nat /\ old \in Nat
      BY <1>1 DEF OwedInv, TypeOK, Msgs
    <3> QED BY <3>1, <3>2
  <2>2. owed \subseteq tree'
    BY <1>1, <1>16, <2>1, Zenon DEF Sweep
  <2> QED BY <1>1, <1>3, <1>4, <1>16, <2>2, Zenon DEF Sweep
<1> QED BY <1>5, <1>6, <1>7, <1>8, <1>9, <1>10, <1>11, <1>12, <1>13, <1>14, <1>15, <1>16, Zenon
        DEF Writer

(* A clear gives up what was owed, and never the message being queued: it  *)
(* was not in the index the clear has read.                                *)
LEMMA OwedClearer ==
  ASSUME TypeOK, NewInHand, OrderInv, OwedInv, NEW t \in Clearers, Clearer(t)
  PROVE  OwedInv'
<1> USE DEF storeVars, worldVars, taskVars
<1>0. t \in Tasks /\ \A u \in Writers : u \in Tasks /\ u # t
  BY ConstantsAssumption, Zenon DEF Tasks
<1>1. \A u \in Writers : /\ pc'[u] = pc[u] /\ new'[u] = new[u]
                         /\ gone'[u] = gone[u] /\ ids'[u] = ids[u]
  BY <1>0, Zenon DEF Clearer, Clear, Purge, Return, Goto, TypeOK
<1>2. owed' = {} /\ old' = old
  BY Zenon DEF Clearer, Clear, Purge, OwedInv, Clearing
<1>3. ASSUME NEW u \in Writers, pc[u] \in {"read", "write"} PROVE new[u] \in tree'
  <2>1. new[u] \in tree /\ new[u] # NoMsg
    BY <1>0, <1>3, Zenon DEF OwedInv, OwedAt, NewInHand
  <2>2. CASE Purge(t) /\ ids[t] # <<>>
    <3>1. Head(ids[t]) \in Indexed
      BY <1>0, <2>2, TailPart DEF Indexed, TypeOK
    <3>2. Head(ids[t]) < new[u] /\ Head(ids[t]) \in Nat /\ new[u] \in Nat
      BY <1>0, <2>1, <3>1 DEF OrderInv, TypeOK, Msgs
    <3> QED BY <2>1, <2>2, <3>2 DEF Purge
  <2> QED BY <2>1, <2>2, Zenon DEF Clearer, Clear, Purge
<1> QED BY <1>1, <1>2, <1>3, Zenon DEF OwedInv, OwedAt

(* Every step keeps what is owed.                                          *)
LEMMA OwedStep ==
  TypeOK /\ NewInHand /\ OneWriter /\ OrderInv /\ OwedInv /\ [Next]_vars => OwedInv'
<1> SUFFICES ASSUME TypeOK, NewInHand, OneWriter, OrderInv, OwedInv, [Next]_vars
             PROVE  OwedInv'
  OBVIOUS
<1> USE DEF storeVars, worldVars, taskVars
<1>0. Writers \subseteq Tasks /\ Clearers \subseteq Tasks
  BY Zenon DEF Tasks
<1>1. ASSUME NEW t \in Tasks, Abort(t) PROVE OwedInv'
  <2>1. owed' = owed /\ index' = index /\ tree' = tree /\ old' = old
    BY <1>1, Zenon DEF Abort
  <2>2. Clearing' => Clearing
    BY <1>0, <1>1, ZenonT(40) DEF Abort, Return, Goto, Clearing, TypeOK
  <2>3. ASSUME NEW u \in Writers PROVE OwedAt(u)'
    BY <1>0, <1>1, <2>1, <2>3 DEF Abort, Return, Goto, OwedAt, OwedInv, TypeOK
  <2> QED BY <2>1, <2>2, <2>3, Zenon DEF OwedInv
<1>2. CASE Expire
  <2>1. /\ old' = old + 1 /\ owed' = owed \ {old + 1} /\ old \in Nat
        /\ index' = index /\ tree' = tree /\ pc' = pc /\ new' = new
        /\ gone' = gone /\ ids' = ids /\ \A t \in Tasks : new[t] # old + 1
    BY <1>2 DEF Expire, TypeOK
  <2>2. \A m \in owed' : m > old'
    <3>1. \A m \in owed : m \in Nat
      BY DEF TypeOK
    <3> QED BY <2>1, <3>1 DEF OwedInv
  <2>3. ASSUME NEW t \in Writers PROVE OwedAt(t)'
    <3>1. new[t] # NoMsg => new[t] > old'
      BY <1>0, <2>1 DEF OwedInv, OwedAt, TypeOK, Msgs
    <3>2. ids[t] \in Seq(Msgs)
      BY <1>0, Zenon DEF TypeOK
    <3>3. pc[t] = "sweep" => \A m \in Range(ids[t]) : m <= old'
      <4>1. \A m \in Range(ids[t]) : m \in Nat
        <5>1. Msgs \subseteq Nat
          BY ConstantsAssumption DEF Msgs
        <5>2. Range(ids[t]) \subseteq Msgs
          BY <3>2 DEF Range
        <5> QED BY <5>1, <5>2, Zenon
      <4> QED BY <2>1, <4>1 DEF OwedInv, OwedAt
    <3> QED BY <2>1, <3>1, <3>3, Zenon DEF OwedInv, OwedAt
  <2> QED BY <2>1, <2>2, <2>3, Zenon DEF OwedInv, Clearing
<1>3. CASE Flush \/ UNCHANGED vars
  BY <1>3, Zenon DEF Flush, vars, OwedInv, OwedAt, Clearing
<1>4. CASE Crash
  BY <1>0, <1>4, Zenon DEF Crash, OwedInv, OwedAt
<1> QED BY <1>1, <1>2, <1>3, <1>4, OwedWriter, OwedClearer, Zenon DEF Next

(* With one task that queues, a message whose add_offline_message returned *)
(* stays in the queue until it expires, is removed, makes room as the      *)
(* oldest, or a clear or a crash takes the queue: add, remove and clean-up *)
(* write an index back that they read before, but never over a newer one   *)
(* that holds a message they would lose.                                   *)
THEOREM OwedMessagesKept == Spec => []OwedIsKept
<1>1. Init => OrderInv /\ OwedInv
  BY EmptyIncreasing DEF Init, OrderInv, Indexed, Tasks, OwedInv, OwedAt
<1>2. TypeOK /\ NewInHand /\ (OneWriter => OrderInv /\ OwedInv) /\ [Next]_vars
        => (OneWriter => OrderInv /\ OwedInv)'
  BY OrderStep, OwedStep, Zenon DEF OneWriter
<1>3. TypeOK /\ (OneWriter => OrderInv /\ OwedInv) => OwedIsKept
  <2> SUFFICES ASSUME TypeOK, OneWriter, OwedInv PROVE owed \subseteq Range(OfflineMessages)
    BY Zenon DEF OwedIsKept
  <2>1. Range(OfflineMessages) = Range(index) \cap {m \in tree : ~Expired(m)}
    BY KeepKeeps, Zenon DEF OfflineMessages, Kept, TypeOK
  <2>2. \A m \in owed : ~Expired(m)
    <3>1. \A m \in owed : m \in Nat /\ old \in Nat
      BY DEF TypeOK
    <3> QED BY <3>1 DEF OwedInv, Expired
  <2> QED BY <2>1, <2>2, Zenon DEF OwedInv
<1> QED BY <1>1, <1>2, <1>3, TypesInvariant, PTL DEF Spec
=============================================================================
