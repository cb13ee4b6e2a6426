-------------------------- MODULE RouteTableProofs --------------------------
(***************************************************************************)
(* Proofs about RouteTable: what a ring holds after nodes were added, that *)
(* the owner of a title is a node, that two rings of the same members      *)
(* agree on the owner of every title, that get_n names the owners a title  *)
(* has as they leave one by one, and that a node that joins moves titles   *)
(* only to itself.                                                         *)
(***************************************************************************)
EXTENDS RouteTable, FiniteSetTheorems, WellFoundedInduction, TLAPS

(* A non-empty set of natural numbers has a least element.                 *)
LEMMA LeastExists ==
  ASSUME NEW S \in SUBSET Nat, S # {}
  PROVE  Least(S) \in S /\ \A k \in S : Least(S) <= k
<1> DEFINE R == OpToRel(<, Nat)
<1>1. \E x \in S : \A y \in S : ~(<<y, x>> \in R)
  <2>1. IsWellFoundedOn(R, Nat)
    BY NatLessThanWellFounded, Zenon
  <2> HIDE DEF R
  <2> QED BY <2>1, WFMin, Zenon
<1>2. PICK x \in S : \A y \in S : ~(<<y, x>> \in R)
  BY <1>1, Zenon
<1>3. \A y \in S : ~(y < x)
  BY <1>2, Zenon DEF OpToRel
<1>4. \E h \in S : \A k \in S : h <= k
  BY <1>3
<1> QED BY <1>4, Zenon DEF Least

(* A ring holds the virtual nodes of its members, all of them and no       *)
(* others, in some order.                                                  *)
RingOK(r) ==
  /\ r \in Seq(Entry)
  /\ \A i \in DOMAIN r :
       \E j \in DOMAIN Positions[r[i].node] : r[i].hash = Positions[r[i].node][j]
  /\ \A m \in Members(r) : \A j \in DOMAIN Positions[m] :
       \E i \in DOMAIN r : r[i].hash = Positions[m][j] /\ r[i].node = m

LEMMA EntryFields ==
  ASSUME NEW r \in Seq(Entry), NEW i \in DOMAIN r
  PROVE  r[i].node \in Nodes /\ r[i].hash \in Nat
<1>1. r[i] \in Entry
  OBVIOUS
<1> QED BY <1>1, Zenon DEF Entry

LEMMA MembersAreNodes ==
  ASSUME NEW r \in Seq(Entry) PROVE Members(r) \subseteq Nodes
  BY EntryFields, Zenon DEF Members

(* The virtual nodes add_node pushes. *)
LEMMA VirtualNodes ==
  ASSUME NEW P \in Seq(Nat), NEW n \in Nodes, NEW v,
         v = [i \in DOMAIN P |-> [hash |-> P[i], node |-> n]]
  PROVE  /\ v \in Seq(Entry) /\ Len(v) = Len(P)
         /\ \A i \in DOMAIN P : v[i].hash = P[i] /\ v[i].node = n
<1>1. DOMAIN P = 1 .. Len(P) /\ Len(P) \in Nat /\ \A i \in DOMAIN P : P[i] \in Nat
  OBVIOUS
<1>2. \A i \in DOMAIN P : v[i] = [hash |-> P[i], node |-> n]
  OBVIOUS
<1>3. \A i \in DOMAIN P : v[i] \in Entry
  BY <1>1, <1>2, Zenon DEF Entry
<1>4. \A i \in DOMAIN P : v[i].hash = P[i] /\ v[i].node = n
  BY <1>2, Zenon
<1>5. DOMAIN v = 1 .. Len(P) /\ v = [i \in 1 .. Len(P) |-> v[i]]
  BY <1>1, Zenon
<1>6. v \in Seq(Entry) /\ Len(v) = Len(P)
  BY <1>1, <1>3, <1>5
<1> QED BY <1>4, <1>6, Zenon

(* q is r followed by v. *)
Appended(r, v, q) ==
  /\ q \in Seq(Entry)
  /\ \A i \in DOMAIN r : i \in DOMAIN q /\ q[i] = r[i]
  /\ \A i \in DOMAIN v : Len(r) + i \in DOMAIN q /\ q[Len(r) + i] = v[i]
  /\ \A i \in DOMAIN q : i \in DOMAIN r \/ \E j \in DOMAIN v : i = Len(r) + j

LEMMA Concat ==
  ASSUME NEW r \in Seq(Entry), NEW v \in Seq(Entry), NEW q, q = r \o v
  PROVE  Appended(r, v, q)
<1>1. q \in Seq(Entry) /\ Len(q) = Len(r) + Len(v)
  OBVIOUS
<1>2. ASSUME NEW i \in DOMAIN r PROVE i \in DOMAIN q /\ q[i] = r[i]
  OBVIOUS
<1>3. ASSUME NEW i \in DOMAIN v PROVE Len(r) + i \in DOMAIN q /\ q[Len(r) + i] = v[i]
  OBVIOUS
<1>4. ASSUME NEW i \in DOMAIN q, i \notin DOMAIN r PROVE \E j \in DOMAIN v : i = Len(r) + j
  <2>1. i - Len(r) \in DOMAIN v
    BY <1>1, <1>4
  <2> WITNESS i - Len(r) \in DOMAIN v
  <2> QED BY <1>1
<1> QED BY <1>1, <1>2, <1>3, <1>4, Zenon DEF Appended

LEMMA AddNodeOK ==
  ASSUME NEW r, RingOK(r), NEW n \in Nodes PROVE RingOK(AddNode(r, n))
<1>1. CASE n \in Members(r)
  BY <1>1, Zenon DEF AddNode
<1>2. CASE n \notin Members(r)
  <2> DEFINE P == Positions[n]
             v == [i \in DOMAIN P |-> [hash |-> P[i], node |-> n]]
             q == r \o v
  <2>1. P \in Seq(Nat)
    BY PositionsAssumption, Zenon
  <2>2. r \in Seq(Entry)
    BY Zenon DEF RingOK
  <2>3. AddNode(r, n) = q
    BY <1>2, Zenon DEF AddNode
  <2>4. /\ v \in Seq(Entry) /\ DOMAIN v = DOMAIN P
        /\ \A i \in DOMAIN P : v[i].hash = P[i] /\ v[i].node = n
    BY <2>1, VirtualNodes, Zenon
  <2>q. q = r \o v
    OBVIOUS
  <2> HIDE DEF v, q
  <2>5. Appended(r, v, q)
    BY <2>2, <2>4, <2>q, Concat, Zenon
  <2>6. ASSUME NEW i \in DOMAIN q
        PROVE  \E j \in DOMAIN Positions[q[i].node] : q[i].hash = Positions[q[i].node][j]
    <3>1. CASE i \in DOMAIN r
      <4>1. q[i] = r[i]
        BY <3>1, <2>5, Zenon DEF Appended
      <4> QED BY <3>1, <4>1 DEF RingOK
    <3>2. CASE \E j \in DOMAIN v : i = Len(r) + j
      <4>1. PICK j \in DOMAIN v : i = Len(r) + j
        BY <3>2, Zenon
      <4>2. q[i].hash = P[j] /\ q[i].node = n
        BY <4>1, <2>4, <2>5 DEF Appended
      <4> QED BY <4>2, <2>4, Zenon
    <3> QED BY <3>1, <3>2, <2>5, Zenon DEF Appended
  <2>7. ASSUME NEW m \in Members(q), NEW j \in DOMAIN Positions[m]
        PROVE  \E i \in DOMAIN q : q[i].hash = Positions[m][j] /\ q[i].node = m
    <3>1. CASE m = n
      <4>1. Len(r) + j \in DOMAIN q /\ q[Len(r) + j] = v[j]
        BY <3>1, <2>4, <2>5, Zenon DEF Appended
      <4>2. v[j].hash = Positions[m][j] /\ v[j].node = m
        BY <3>1, <2>4, Zenon
      <4> QED BY <4>1, <4>2, Zenon
    <3>2. CASE m # n
      <4>1. PICK i \in DOMAIN q : q[i].node = m
        BY Zenon DEF Members
      <4>2. ASSUME NEW x \in DOMAIN v, i = Len(r) + x PROVE FALSE
        BY <4>1, <4>2, <3>2, <2>4, <2>5 DEF Appended
      <4>3. i \in DOMAIN r /\ r[i].node = m
        BY <4>1, <4>2, <2>5, Zenon DEF Appended
      <4>4. m \in Members(r)
        BY <4>3, Zenon DEF Members
      <4>5. PICK k \in DOMAIN r : r[k].hash = Positions[m][j] /\ r[k].node = m
        BY <4>4, Zenon DEF RingOK
      <4>6. k \in DOMAIN q /\ q[k] = r[k]
        BY <2>5, Zenon DEF Appended
      <4> QED BY <4>5, <4>6, Zenon
    <3> QED BY <3>1, <3>2, Zenon
  <2> QED BY <2>3, <2>5, <2>6, <2>7 DEF RingOK, Appended
<1> QED BY <1>1, <1>2, Zenon

LEMMA SuccessorExists ==
  ASSUME NEW hs \in SUBSET Nat, hs # {}, NEW key \in Nat
  PROVE  Successor(hs, key) \in hs
<1>1. CASE {h \in hs : h >= key} = {}
  BY <1>1, LeastExists, Zenon DEF Successor
<1>2. CASE {h \in hs : h >= key} # {}
  <2>1. {h \in hs : h >= key} \in SUBSET Nat
    BY Zenon
  <2> QED BY <1>2, <2>1, LeastExists, Zenon DEF Successor
<1> QED BY <1>1, <1>2, Zenon

LEMMA NodeAtEntry ==
  ASSUME NEW r \in Seq(Entry), NEW h \in Hashes(r)
  PROVE  \E i \in DOMAIN r : r[i].hash = h /\ NodeAt(r, h) = r[i].node
<1> DEFINE S == {i \in DOMAIN r : r[i].hash = h}
<1>1. S \in SUBSET Nat /\ S # {}
  BY DEF Hashes
<1>2. Least(S) \in S
  BY <1>1, LeastExists, Zenon
<1>3. NodeAt(r, h) = r[Least(S)].node
  BY Zenon DEF NodeAt
<1> QED BY <1>2, <1>3, Zenon

(* The owner of a title is a node.                                         *)
LEMMA OwnerIsNode ==
  ASSUME NEW r \in Seq(Entry), NEW key \in Nat
  PROVE  GetByHash(r, key) \subseteq Nodes
<1>1. CASE r = EmptyRing
  BY <1>1, Zenon DEF GetByHash
<1>2. CASE r # EmptyRing
  <2>1. Hashes(r) \in SUBSET Nat /\ Hashes(r) # {}
    <3>1. 1 \in DOMAIN r
      BY <1>2 DEF EmptyRing
    <3> QED BY <3>1, EntryFields, Zenon DEF Hashes
  <2>2. PICK i \in DOMAIN r : NodeAt(r, Successor(Hashes(r), key)) = r[i].node
    BY <2>1, SuccessorExists, NodeAtEntry, Zenon
  <2> QED BY <1>2, <2>2, EntryFields, Zenon DEF GetByHash
<1> QED BY <1>1, <1>2, Zenon

(* Two rings of the same members have the same owner for every title.      *)
DistinctPositions ==
  \A a, b \in Nodes : \A i \in DOMAIN Positions[a], j \in DOMAIN Positions[b] :
    Positions[a][i] = Positions[b][j] => a = b

LEMMA SameHashes ==
  ASSUME NEW r, NEW s, RingOK(r), RingOK(s), Members(r) \subseteq Members(s)
  PROVE  Hashes(r) \subseteq Hashes(s)
<1> SUFFICES ASSUME NEW h \in Hashes(r) PROVE h \in Hashes(s)
  OBVIOUS
<1>1. PICK i \in DOMAIN r : h = r[i].hash
  BY Zenon DEF Hashes
<1>2. PICK j \in DOMAIN Positions[r[i].node] : h = Positions[r[i].node][j]
  BY <1>1 DEF RingOK
<1>3. r[i].node \in Members(s)
  BY Zenon DEF Members
<1>4. PICK k \in DOMAIN s : s[k].hash = Positions[r[i].node][j]
  BY <1>2, <1>3 DEF RingOK
<1> QED BY <1>2, <1>4, Zenon DEF Hashes

LEMMA SameOwner ==
  ASSUME DistinctPositions, NEW r, NEW s, RingOK(r), RingOK(s), Members(r) = Members(s),
         NEW key \in Nat
  PROVE  GetByHash(r, key) = GetByHash(s, key)
<1>1. r \in Seq(Entry) /\ s \in Seq(Entry)
  BY Zenon DEF RingOK
<1>2. \A q \in Seq(Entry) : q = EmptyRing <=> Members(q) = {}
  <2> SUFFICES ASSUME NEW q \in Seq(Entry) PROVE q = EmptyRing <=> Members(q) = {}
    OBVIOUS
  <2>1. CASE q = EmptyRing
    BY <2>1 DEF EmptyRing, Members
  <2>2. CASE q # EmptyRing
    <3>1. 1 \in DOMAIN q
      BY <2>2 DEF EmptyRing
    <3>2. q[1].node \in Members(q)
      BY <3>1, Zenon DEF Members
    <3> QED BY <2>2, <3>2, Zenon
  <2> QED BY <2>1, <2>2, Zenon
<1>3. CASE r = EmptyRing
  BY <1>1, <1>2, <1>3, Zenon DEF GetByHash
<1>4. CASE r # EmptyRing
  <2>1. s # EmptyRing
    BY <1>1, <1>2, <1>4, Zenon
  <2>2. Hashes(r) = Hashes(s)
    BY SameHashes
  <2>3. Hashes(r) \in SUBSET Nat /\ Hashes(r) # {}
    <3>1. 1 \in DOMAIN r
      BY <1>1, <1>4 DEF EmptyRing
    <3> QED BY <1>1, <3>1, EntryFields, Zenon DEF Hashes
  <2> DEFINE h == Successor(Hashes(r), key)
  <2>4. h \in Hashes(r)
    BY <2>3, SuccessorExists, Zenon
  <2> HIDE DEF h
  <2>5. PICK i \in DOMAIN r : r[i].hash = h /\ NodeAt(r, h) = r[i].node
    BY <1>1, <2>4, NodeAtEntry, Zenon
  <2>6. PICK j \in DOMAIN s : s[j].hash = h /\ NodeAt(s, h) = s[j].node
    BY <1>1, <2>2, <2>4, NodeAtEntry
  <2>7. r[i].node = s[j].node
    <3>1. PICK x \in DOMAIN Positions[r[i].node] : h = Positions[r[i].node][x]
      BY <2>5, Zenon DEF RingOK
    <3>2. PICK y \in DOMAIN Positions[s[j].node] : h = Positions[s[j].node][y]
      BY <2>6, Zenon DEF RingOK
    <3>3. r[i].node \in Nodes /\ s[j].node \in Nodes
      BY <1>1, EntryFields, Zenon
    <3> QED BY <3>1, <3>2, <3>3, Zenon DEF DistinctPositions
  <2>8. GetByHash(r, key) = {NodeAt(r, h)} /\ GetByHash(s, key) = {NodeAt(s, h)}
    BY <1>4, <2>1, <2>2, Zenon DEF GetByHash, h
  <2> QED BY <2>5, <2>6, <2>7, <2>8, Zenon
<1> QED BY <1>3, <1>4, Zenon

-----------------------------------------------------------------------------
(* Recursive functions.  Induction without a predicate for a parameter: V  *)
(* gives for every number the set of the values allowed there.             *)

LEMMA Along ==
  ASSUME NEW n \in Nat, NEW V, NEW f, f[0] \in V[0],
         \A i \in 1 .. n : f[i - 1] \in V[i - 1] => f[i] \in V[i]
  PROVE  \A i \in 0 .. n : f[i] \in V[i]
<1> DEFINE B == {i \in 0 .. n : f[i] \notin V[i]}
<1>1. SUFFICES ASSUME B # {} PROVE FALSE
  BY Zenon
<1>2. B \in SUBSET Nat
  OBVIOUS
<1>3. Least(B) \in B /\ \A k \in B : Least(B) <= k
  BY <1>1, <1>2, LeastExists, Zenon
<1> DEFINE i == Least(B)
<1> HIDE DEF i
<1>4. i \in 0 .. n /\ f[i] \notin V[i] /\ \A k \in B : i <= k
  BY <1>3, Zenon DEF i
<1>5. i # 0
  BY <1>4, Zenon
<1>6. i \in 1 .. n /\ i - 1 \in 0 .. n /\ ~(i <= i - 1)
  BY <1>4, <1>5
<1>7. i - 1 \notin B
  BY <1>4, <1>6, Zenon
<1>8. f[i - 1] \in V[i - 1]
  BY <1>6, <1>7, Zenon
<1> QED BY <1>4, <1>6, <1>8, Zenon

Recursive(f, n, v, step) ==
  f = [i \in 0 .. n |-> IF i = 0 THEN v ELSE step[i][f[i - 1]]]

LEMMA RecursionExists ==
  ASSUME NEW n \in Nat, NEW v, NEW step
  PROVE  \E f : Recursive(f, n, v, step)
<1> DEFINE B == {k \in Nat : ~ \E f : Recursive(f, k, v, step)}
<1>1. SUFFICES ASSUME B # {} PROVE FALSE
  BY Zenon
<1>2. B \in SUBSET Nat
  BY Zenon
<1>3. Least(B) \in B /\ \A k \in B : Least(B) <= k
  BY <1>1, <1>2, LeastExists, Zenon
<1> DEFINE m == Least(B)
<1> HIDE DEF m
<1>4. m \in Nat /\ (~ \E f : Recursive(f, m, v, step)) /\ \A k \in B : m <= k
  BY <1>3, Zenon DEF m
<1>5. CASE m = 0
  <2> DEFINE g == [i \in 0 .. 0 |-> v]
  <2>1. Recursive(g, 0, v, step)
    BY DEF Recursive
  <2> QED BY <1>4, <1>5, <2>1, Zenon
<1>6. CASE m # 0
  <2> DEFINE k == m - 1
  <2>1. k \in Nat /\ m = k + 1 /\ ~(m <= k)
    BY <1>4, <1>6
  <2> HIDE DEF k
  <2>2. k \notin B
    BY <1>4, <2>1, Zenon
  <2>3. PICK f : Recursive(f, k, v, step)
    BY <2>1, <2>2, Zenon
  <2>4. \A i \in 0 .. k : f[i] = IF i = 0 THEN v ELSE step[i][f[i - 1]]
    BY <2>3, Zenon DEF Recursive
  <2> DEFINE g == [i \in 0 .. m |-> IF i \in 0 .. k THEN f[i] ELSE step[i][f[i - 1]]]
  <2>5. ASSUME NEW i \in 0 .. m PROVE g[i] = IF i = 0 THEN v ELSE step[i][g[i - 1]]
    <3>1. i # 0 => i - 1 \in 0 .. k /\ i - 1 \in 0 .. m
      BY <2>1
    <3>2. i # 0 => g[i - 1] = f[i - 1]
      BY <3>1, Zenon
    <3>3. i \in 0 .. k \/ i # 0
      BY <2>1
    <3>4. g[i] = IF i \in 0 .. k THEN f[i] ELSE step[i][f[i - 1]]
      BY Zenon
    <3> HIDE DEF g
    <3>5. CASE i \in 0 .. k
      BY <3>5, <3>4, <3>2, <2>4, Zenon
    <3>6. CASE i \notin 0 .. k
      BY <3>6, <3>3, <3>4, <3>2, Zenon
    <3> QED BY <3>5, <3>6, Zenon
  <2>6. Recursive(g, m, v, step)
    BY <2>5, Zenon DEF Recursive
  <2> QED BY <1>4, <2>6, Zenon
<1> QED BY <1>5, <1>6, Zenon

-----------------------------------------------------------------------------
(* import_state.                                                           *)

LEMMA AddMembers ==
  ASSUME NEW r \in Seq(Entry), NEW n \in Nodes, Positions[n] # << >>
  PROVE  Members(AddNode(r, n)) = Members(r) \cup {n}
<1>1. CASE n \in Members(r)
  BY <1>1, Zenon DEF AddNode
<1>2. CASE n \notin Members(r)
  <2> DEFINE P == Positions[n]
             v == [i \in DOMAIN P |-> [hash |-> P[i], node |-> n]]
             q == r \o v
  <2>1. P \in Seq(Nat)
    BY PositionsAssumption, Zenon
  <2>2. AddNode(r, n) = q
    BY <1>2, Zenon DEF AddNode
  <2>3. /\ v \in Seq(Entry) /\ DOMAIN v = DOMAIN P
        /\ \A i \in DOMAIN P : v[i].hash = P[i] /\ v[i].node = n
    BY <2>1, VirtualNodes, Zenon
  <2>4. 1 \in DOMAIN P
    BY <2>1
  <2>q. q = r \o v
    OBVIOUS
  <2> HIDE DEF v, q, P
  <2>5. Appended(r, v, q)
    BY <2>3, <2>q, Concat, Zenon
  <2>6. \A m \in Members(r) : m \in Members(q)
    BY <2>5, Zenon DEF Appended, Members
  <2>7. n \in Members(q)
    <3>1. Len(r) + 1 \in DOMAIN q /\ q[Len(r) + 1] = v[1] /\ v[1].node = n
      BY <2>3, <2>4, <2>5, Zenon DEF Appended
    <3>2. q[Len(r) + 1].node = n
      BY <3>1, Zenon
    <3> QED BY <3>1, <3>2, Zenon DEF Members
  <2>8. ASSUME NEW i \in DOMAIN q PROVE q[i].node \in Members(r) \cup {n}
    <3>1. CASE i \in DOMAIN r
      <4>1. q[i] = r[i]
        BY <3>1, <2>5, Zenon DEF Appended
      <4> QED BY <3>1, <4>1, Zenon DEF Members
    <3>2. CASE \E j \in DOMAIN v : i = Len(r) + j
      <4>1. PICK j \in DOMAIN v : i = Len(r) + j
        BY <3>2, Zenon
      <4>2. q[i] = v[j] /\ v[j].node = n
        BY <4>1, <2>3, <2>5, Zenon DEF Appended
      <4> QED BY <4>2, Zenon
    <3> QED BY <3>1, <3>2, <2>5, Zenon DEF Appended
  <2>9. \A m \in Members(q) : m \in Members(r) \cup {n}
    BY <2>8, Zenon DEF Members
  <2> QED BY <2>2, <2>6, <2>7, <2>9, Zenon
<1> QED BY <1>1, <1>2, Zenon

(* A member has a virtual node. *)
LEMMA MemberHasPosition ==
  ASSUME NEW r, RingOK(r), NEW n \in Members(r)
  PROVE  n \in Nodes /\ Positions[n] # << >>
<1>1. r \in Seq(Entry) /\ n \in Nodes
  BY MembersAreNodes, Zenon DEF RingOK
<1>2. PICK i \in DOMAIN r : r[i].node = n
  BY Zenon DEF Members
<1>3. PICK j \in DOMAIN Positions[n] : TRUE
  BY <1>2, Zenon DEF RingOK
<1> QED BY <1>1, <1>3

(* The ring imported from nodes that have virtual nodes. *)
LEMMA ImportedRing ==
  ASSUME NEW order \in Seq(Nodes), \A i \in DOMAIN order : Positions[order[i]] # << >>
  PROVE  RingOK(ImportState(order)) /\ Members(ImportState(order)) = Range(order)
<1> DEFINE n == Len(order)
           V == [i \in 0 .. n |-> {q \in Seq(Entry) : RingOK(q) /\ Members(q) = {order[j] : j \in 1 .. i}}]
           step == [i \in 1 .. n |-> [q \in Seq(Entry) |-> AddNode(q, order[i])]]
           IsAdd(f) == f = [i \in 0 .. n |-> IF i = 0 THEN EmptyRing ELSE AddNode(f[i - 1], order[i])]
<1>1. n \in Nat /\ DOMAIN order = 1 .. n /\ \A i \in 1 .. n : order[i] \in Nodes
  OBVIOUS
<1>2. EmptyRing \in V[0]
  <2>1. EmptyRing \in Seq(Entry) /\ RingOK(EmptyRing) /\ Members(EmptyRing) = {}
    BY DEF EmptyRing, RingOK, Members
  <2>2. 0 \in 0 .. n /\ {order[j] : j \in 1 .. 0} = {}
    BY <1>1
  <2> QED BY <2>1, <2>2, Zenon
<1>3. ASSUME NEW i \in 1 .. n, NEW q \in V[i - 1] PROVE AddNode(q, order[i]) \in V[i] /\ q \in Seq(Entry)
  <2>1. i - 1 \in 0 .. n /\ i \in 0 .. n /\ order[i] \in Nodes /\ Positions[order[i]] # << >>
    BY <1>1
  <2>2. q \in Seq(Entry) /\ RingOK(q) /\ Members(q) = {order[j] : j \in 1 .. i - 1}
    BY <1>3, <2>1, Zenon
  <2>3. RingOK(AddNode(q, order[i])) /\ Members(AddNode(q, order[i])) = Members(q) \cup {order[i]}
    BY <2>1, <2>2, AddNodeOK, AddMembers, Zenon
  <2>4. \A j : j \in 1 .. i <=> j \in 1 .. i - 1 \/ j = i
    BY <1>1
  <2>5. {order[j] : j \in 1 .. i} = {order[j] : j \in 1 .. i - 1} \cup {order[i]}
    BY <2>4, Zenon
  <2> QED BY <2>1, <2>2, <2>3, <2>5, Zenon DEF RingOK
<1>4. PICK f : Recursive(f, n, EmptyRing, step)
  BY <1>1, RecursionExists, Zenon
<1>5. /\ f = [i \in 0 .. n |-> IF i = 0 THEN EmptyRing ELSE step[i][f[i - 1]]]
      /\ f[0] = EmptyRing /\ \A i \in 1 .. n : f[i] = step[i][f[i - 1]]
  <2>1. f = [i \in 0 .. n |-> IF i = 0 THEN EmptyRing ELSE step[i][f[i - 1]]]
    BY <1>4, Zenon DEF Recursive
  <2>2. 0 \in 0 .. n /\ \A i \in 1 .. n : i \in 0 .. n /\ i # 0
    BY <1>1
  <2> HIDE DEF step, n
  <2> QED BY <2>1, <2>2, Zenon
<1>6. \A i \in 1 .. n : \A q \in V[i - 1] : step[i][q] = AddNode(q, order[i])
  BY <1>3, Zenon
<1> HIDE DEF V, step, n
<1>7. ASSUME NEW i \in 1 .. n, f[i - 1] \in V[i - 1] PROVE f[i] \in V[i]
  <2>1. f[i] = step[i][f[i - 1]] /\ step[i][f[i - 1]] = AddNode(f[i - 1], order[i])
    BY <1>5, <1>6, <1>7, Zenon
  <2> QED BY <1>3, <1>7, <2>1, Zenon
<1>8. \A i \in 0 .. n : f[i] \in V[i]
  BY <1>1, <1>2, <1>5, <1>7, Along, Zenon
<1>9. IsAdd(f)
  <2>1. ASSUME NEW i \in 0 .. n, i # 0 PROVE step[i][f[i - 1]] = AddNode(f[i - 1], order[i])
    <3>1. i \in 1 .. n /\ i - 1 \in 0 .. n
      BY <1>1, <2>1
    <3> QED BY <3>1, <1>6, <1>8, Zenon
  <2> QED BY <1>5, <2>1, Zenon
<1> HIDE DEF IsAdd
<1>10. PICK g : IsAdd(g) /\ ImportState(order) = g[n]
  BY <1>9, Zenon DEF ImportState, IsAdd, n
<1>11. g[0] = EmptyRing /\ \A i \in 1 .. n : g[i] = AddNode(g[i - 1], order[i])
  <2>1. 0 \in 0 .. n /\ \A i \in 1 .. n : i \in 0 .. n /\ i # 0
    BY <1>1
  <2> QED BY <1>10, <2>1, Zenon DEF IsAdd
<1>12. \A i \in 0 .. n : g[i] \in V[i]
  BY <1>1, <1>2, <1>3, <1>11, Along, Zenon
<1>13. n \in 0 .. n /\ g[n] \in V[n]
  BY <1>1, <1>12
<1>14. RingOK(g[n]) /\ Members(g[n]) = {order[j] : j \in 1 .. n}
  BY <1>13, Zenon DEF V
<1> QED BY <1>1, <1>10, <1>14, Zenon DEF Range

-----------------------------------------------------------------------------
(* remove_node.                                                            *)

(* q holds the first i entries of r that are not of n. *)
Sifted(r, n, i, q) ==
  /\ q \in Seq(Entry)
  /\ \A k \in DOMAIN q : \E j \in 1 .. i : q[k] = r[j] /\ r[j].node # n
  /\ \A j \in 1 .. i : r[j].node # n => \E k \in DOMAIN q : q[k] = r[j]

LEMMA SiftedNext ==
  ASSUME NEW r \in Seq(Entry), NEW n, NEW i \in 1 .. Len(r), NEW q, Sifted(r, n, i - 1, q),
         NEW p, p = IF r[i].node = n THEN q ELSE Append(q, r[i])
  PROVE  Sifted(r, n, i, p)
<1>1. \A j : j \in 1 .. i <=> j \in 1 .. i - 1 \/ j = i
  OBVIOUS
<1>2. q \in Seq(Entry) /\ r[i] \in Entry /\ i \in 1 .. i
  BY DEF Sifted
<1>3. CASE r[i].node = n
  <2>1. p = q
    BY <1>3, Zenon
  <2>2. ASSUME NEW k \in DOMAIN p PROVE \E j \in 1 .. i : p[k] = r[j] /\ r[j].node # n
    <3>1. k \in DOMAIN q
      BY <2>1, Zenon
    <3>2. PICK j \in 1 .. i - 1 : q[k] = r[j] /\ r[j].node # n
      BY <3>1, Zenon DEF Sifted
    <3> QED BY <1>1, <2>1, <3>2, Zenon
  <2>3. ASSUME NEW j \in 1 .. i, r[j].node # n PROVE \E k \in DOMAIN p : p[k] = r[j]
    BY <1>1, <1>3, <2>1, <2>3, Zenon DEF Sifted
  <2> QED BY <1>2, <2>1, <2>2, <2>3, Zenon DEF Sifted
<1>4. CASE r[i].node # n
  <2>1. p = Append(q, r[i])
    BY <1>4, Zenon
  <2>2. p \in Seq(Entry) /\ DOMAIN p = 1 .. Len(q) + 1 /\ DOMAIN q = 1 .. Len(q) /\ Len(q) \in Nat
    BY <1>2, <2>1
  <2>3. Len(q) + 1 \in DOMAIN p /\ p[Len(q) + 1] = r[i]
    BY <1>2, <2>1
  <2>4. \A k \in DOMAIN q : k \in DOMAIN p /\ p[k] = q[k]
    BY <1>2, <2>1
  <2>5. \A k \in DOMAIN p : k \in DOMAIN q \/ k = Len(q) + 1
    BY <2>2
  <2>6. ASSUME NEW k \in DOMAIN p PROVE \E j \in 1 .. i : p[k] = r[j] /\ r[j].node # n
    <3>1. CASE k = Len(q) + 1
      BY <3>1, <1>2, <1>4, <2>3, Zenon
    <3>2. CASE k \in DOMAIN q
      <4>1. PICK j \in 1 .. i - 1 : q[k] = r[j] /\ r[j].node # n
        BY <3>2, Zenon DEF Sifted
      <4> QED BY <3>2, <4>1, <1>1, <2>4, Zenon
    <3> QED BY <3>1, <3>2, <2>5, Zenon
  <2>7. ASSUME NEW j \in 1 .. i, r[j].node # n PROVE \E k \in DOMAIN p : p[k] = r[j]
    <3>1. CASE j = i
      BY <3>1, <2>3, Zenon
    <3>2. CASE j \in 1 .. i - 1
      <4>1. PICK k \in DOMAIN q : q[k] = r[j]
        BY <3>2, <2>7, Zenon DEF Sifted
      <4> QED BY <4>1, <2>4, Zenon
    <3> QED BY <3>1, <3>2, <1>1, Zenon
  <2> QED BY <2>2, <2>6, <2>7, Zenon DEF Sifted
<1> QED BY <1>3, <1>4, Zenon

LEMMA RemoveSifts ==
  ASSUME NEW r \in Seq(Entry), NEW n
  PROVE  Sifted(r, n, Len(r), RemoveNode(r, n))
<1> DEFINE m == Len(r)
           Next(q, i) == IF r[i].node = n THEN q ELSE Append(q, r[i])
           V == [i \in 0 .. m |-> {q \in Seq(Entry) : Sifted(r, n, i, q)}]
           step == [i \in 1 .. m |-> [q \in Seq(Entry) |-> Next(q, i)]]
           IsLeft(f) == f = [i \in 0 .. m |-> IF i = 0 THEN EmptyRing ELSE Next(f[i - 1], i)]
<1>1. m \in Nat /\ 0 \in 0 .. m /\ m \in 0 .. m /\ \A i \in 1 .. m : i \in 0 .. m /\ i # 0 /\ i - 1 \in 0 .. m
  OBVIOUS
<1>2. EmptyRing \in V[0]
  <2>1. Sifted(r, n, 0, EmptyRing)
    BY DEF EmptyRing, Sifted
  <2> QED BY <1>1, <2>1, Zenon DEF Sifted
<1>3. ASSUME NEW i \in 1 .. m, NEW q \in V[i - 1] PROVE Next(q, i) \in V[i] /\ q \in Seq(Entry)
  <2>1. Sifted(r, n, i - 1, q)
    BY <1>1, <1>3, Zenon
  <2>2. Sifted(r, n, i, Next(q, i))
    BY <2>1, SiftedNext, Zenon
  <2> HIDE DEF Next
  <2> QED BY <1>1, <2>1, <2>2, Zenon DEF Sifted
<1>4. PICK f : Recursive(f, m, EmptyRing, step)
  BY <1>1, RecursionExists, Zenon
<1> HIDE DEF Next
<1>6. \A i \in 1 .. m : \A q \in V[i - 1] : step[i][q] = Next(q, i)
  BY <1>3, Zenon
<1> HIDE DEF V, step, m
<1>5. /\ f = [i \in 0 .. m |-> IF i = 0 THEN EmptyRing ELSE step[i][f[i - 1]]]
      /\ f[0] = EmptyRing /\ \A i \in 1 .. m : f[i] = step[i][f[i - 1]]
  <2>1. f = [i \in 0 .. m |-> IF i = 0 THEN EmptyRing ELSE step[i][f[i - 1]]]
    BY <1>4, Zenon DEF Recursive
  <2> QED BY <2>1, <1>1, Zenon
<1>7. ASSUME NEW i \in 1 .. m, f[i - 1] \in V[i - 1] PROVE f[i] \in V[i]
  <2>1. f[i] = step[i][f[i - 1]] /\ step[i][f[i - 1]] = Next(f[i - 1], i)
    BY <1>5, <1>6, <1>7, Zenon
  <2> QED BY <1>3, <1>7, <2>1, Zenon
<1>8. \A i \in 0 .. m : f[i] \in V[i]
  BY <1>1, <1>2, <1>5, <1>7, Along, Zenon
<1>9. IsLeft(f)
  <2>1. ASSUME NEW i \in 0 .. m, i # 0 PROVE step[i][f[i - 1]] = Next(f[i - 1], i)
    <3>1. i \in 1 .. m /\ i - 1 \in 0 .. m
      BY <1>1, <2>1
    <3> QED BY <3>1, <1>6, <1>8, Zenon
  <2> QED BY <1>5, <2>1, Zenon
<1> HIDE DEF IsLeft
<1>10. PICK g : IsLeft(g) /\ RemoveNode(r, n) = g[m]
  BY <1>9, Zenon DEF RemoveNode, IsLeft, m, Next
<1>11. g[0] = EmptyRing /\ \A i \in 1 .. m : g[i] = Next(g[i - 1], i)
  BY <1>10, <1>1, Zenon DEF IsLeft
<1>12. \A i \in 0 .. m : g[i] \in V[i]
  BY <1>1, <1>2, <1>3, <1>11, Along, Zenon
<1> QED BY <1>1, <1>10, <1>12, Zenon DEF V, m

(* A ring without a node is the ring of the others. *)
LEMMA RemovedRing ==
  ASSUME NEW r, RingOK(r), NEW n
  PROVE  RingOK(RemoveNode(r, n)) /\ Members(RemoveNode(r, n)) = Members(r) \ {n}
<1> DEFINE q == RemoveNode(r, n)
<1>1. r \in Seq(Entry) /\ DOMAIN r = 1 .. Len(r)
  BY DEF RingOK
<1>2. /\ q \in Seq(Entry)
      /\ \A k \in DOMAIN q : \E j \in DOMAIN r : q[k] = r[j] /\ r[j].node # n
      /\ \A j \in DOMAIN r : r[j].node # n => \E k \in DOMAIN q : q[k] = r[j]
  <2>1. Sifted(r, n, Len(r), q)
    BY <1>1, RemoveSifts, Zenon
  <2> HIDE DEF q
  <2> QED BY <1>1, <2>1, Zenon DEF Sifted
<1> HIDE DEF q
<1>3. Members(q) = Members(r) \ {n}
  <2>1. ASSUME NEW m \in Members(q) PROVE m \in Members(r) \ {n}
    <3>1. PICK k \in DOMAIN q : q[k].node = m
      BY Zenon DEF Members
    <3>2. PICK j \in DOMAIN r : q[k] = r[j] /\ r[j].node # n
      BY <1>2, Zenon
    <3> QED BY <3>1, <3>2, Zenon DEF Members
  <2>2. ASSUME NEW m \in Members(r) \ {n} PROVE m \in Members(q)
    <3>1. PICK j \in DOMAIN r : r[j].node = m
      BY Zenon DEF Members
    <3>2. PICK k \in DOMAIN q : q[k] = r[j]
      BY <1>2, <3>1, Zenon
    <3> QED BY <3>1, <3>2, Zenon DEF Members
  <2> QED BY <2>1, <2>2, Zenon
<1>4. ASSUME NEW k \in DOMAIN q
      PROVE  \E j \in DOMAIN Positions[q[k].node] : q[k].hash = Positions[q[k].node][j]
  <2>1. PICK j \in DOMAIN r : q[k] = r[j]
    BY <1>2, Zenon
  <2>2. \E x \in DOMAIN Positions[r[j].node] : r[j].hash = Positions[r[j].node][x]
    BY Zenon DEF RingOK
  <2> QED BY <2>1, <2>2, Zenon
<1>5. ASSUME NEW m \in Members(q), NEW x \in DOMAIN Positions[m]
      PROVE  \E k \in DOMAIN q : q[k].hash = Positions[m][x] /\ q[k].node = m
  <2>1. m \in Members(r) /\ m # n
    BY <1>3, Zenon
  <2>2. PICK j \in DOMAIN r : r[j].hash = Positions[m][x] /\ r[j].node = m
    BY <2>1, Zenon DEF RingOK
  <2>3. PICK k \in DOMAIN q : q[k] = r[j]
    BY <1>2, <2>1, <2>2, Zenon
  <2> QED BY <2>2, <2>3, Zenon
<1>6. RingOK(q)
  BY <1>2, <1>4, <1>5, Zenon DEF RingOK
<1> QED BY <1>3, <1>6, Zenon DEF q

-----------------------------------------------------------------------------
(* sorted_ring.                                                            *)

Below(r, t) == {i \in DOMAIN r : r[i].hash < t}
Count(r, t) == Cardinality(Below(r, t))

LEMMA CountRange ==
  ASSUME NEW r \in Seq(Entry), NEW t \in Nat
  PROVE  IsFiniteSet(Below(r, t)) /\ Count(r, t) \in Nat /\ Count(r, t) <= Len(r)
<1>1. DOMAIN r = 1 .. Len(r) /\ Len(r) \in Nat
  OBVIOUS
<1>2. IsFiniteSet(1 .. Len(r)) /\ Cardinality(1 .. Len(r)) = Len(r)
  BY <1>1, FS_Interval
<1>3. Below(r, t) \in SUBSET (1 .. Len(r))
  BY <1>1, Zenon DEF Below
<1>4. IsFiniteSet(Below(r, t)) /\ Cardinality(Below(r, t)) <= Len(r)
  BY <1>2, <1>3, FS_Subset, Zenon
<1> QED BY <1>4, FS_CardinalityType, Zenon DEF Count

LEMMA CountMonotone ==
  ASSUME NEW r \in Seq(Entry), NEW s \in Nat, NEW t \in Nat, s <= t
  PROVE  Count(r, s) <= Count(r, t)
<1>1. \A i \in DOMAIN r : r[i].hash < s => r[i].hash < t
  <2> SUFFICES ASSUME NEW i \in DOMAIN r, r[i].hash < s PROVE r[i].hash < t
    BY Zenon
  <2>1. r[i].hash \in Nat
    BY EntryFields, Zenon
  <2> QED BY <2>1
<1>2. Below(r, s) \in SUBSET Below(r, t)
  BY <1>1, Zenon DEF Below
<1> QED BY <1>2, CountRange, FS_Subset, Zenon DEF Count

LEMMA CountSteps ==
  ASSUME NEW r \in Seq(Entry), NEW h \in Nat
  PROVE  h \in Hashes(r) <=> Count(r, h) < Count(r, h + 1)
<1>1. h + 1 \in Nat /\ h <= h + 1
  OBVIOUS
<1>2. Count(r, h) \in Nat /\ Count(r, h + 1) \in Nat /\ Count(r, h) <= Count(r, h + 1)
  BY <1>1, CountRange, CountMonotone, Zenon
<1>3. \A i \in DOMAIN r : r[i].hash < h + 1 <=> r[i].hash < h \/ r[i].hash = h
  <2> SUFFICES ASSUME NEW i \in DOMAIN r PROVE r[i].hash < h + 1 <=> r[i].hash < h \/ r[i].hash = h
    BY Zenon
  <2>1. r[i].hash \in Nat
    BY EntryFields, Zenon
  <2> QED BY <2>1
<1>4. CASE h \in Hashes(r)
  <2>1. PICK i \in DOMAIN r : r[i].hash = h
    BY <1>4, Zenon DEF Hashes
  <2>2. ~(h < h)
    OBVIOUS
  <2>3. i \in Below(r, h + 1) /\ i \notin Below(r, h)
    BY <1>3, <2>1, <2>2, Zenon DEF Below
  <2>4. Below(r, h) \in SUBSET Below(r, h + 1)
    BY <1>3, Zenon DEF Below
  <2>5. Count(r, h) # Count(r, h + 1)
    BY <1>1, <2>3, <2>4, CountRange, FS_Subset, Zenon DEF Count
  <2> QED BY <1>2, <1>4, <2>5
<1>5. CASE h \notin Hashes(r)
  <2>1. Below(r, h + 1) = Below(r, h)
    BY <1>3, <1>5, Zenon DEF Below, Hashes
  <2>2. Count(r, h + 1) = Count(r, h)
    BY <2>1, Zenon DEF Count
  <2> QED BY <1>2, <1>5, <2>2
<1> QED BY <1>4, <1>5, Zenon

(* The hashes are bounded. *)
LEMMA CountFull ==
  ASSUME NEW r \in Seq(Entry)
  PROVE  \E t \in Nat : Count(r, t) = Len(r)
<1> DEFINE Bounded(i) == \E t \in Nat : \A j \in 1 .. i : r[j].hash < t
           V == [i \in 0 .. Len(r) |-> IF Bounded(i) THEN {0} ELSE {}]
           f == [i \in 0 .. Len(r) |-> 0]
<1>1. Len(r) \in Nat /\ DOMAIN r = 1 .. Len(r) /\ Len(r) \in 0 .. Len(r) /\ 0 \in 0 .. Len(r)
      /\ 0 \in Nat /\ \A j : j \notin 1 .. 0
  OBVIOUS
<1>2. Bounded(0)
  BY <1>1, Zenon
<1>3. ASSUME NEW i \in 1 .. Len(r), Bounded(i - 1) PROVE Bounded(i)
  <2>1. PICK t \in Nat : \A j \in 1 .. i - 1 : r[j].hash < t
    BY <1>3, Zenon
  <2> DEFINE u == t + r[i].hash + 1
  <2>2. r[i].hash \in Nat /\ \A j \in 1 .. i - 1 : r[j].hash \in Nat
    <3>1. i \in DOMAIN r /\ \A j \in 1 .. i - 1 : j \in DOMAIN r
      BY <1>1
    <3> QED BY <3>1, EntryFields, Zenon
  <2>3. u \in Nat /\ r[i].hash < u /\ \A x \in Nat : x < t => x < u
    BY <2>2
  <2>4. \A j \in 1 .. i : j \in 1 .. i - 1 \/ j = i
    OBVIOUS
  <2> HIDE DEF u
  <2> QED BY <2>1, <2>2, <2>3, <2>4, Zenon
<1> HIDE DEF Bounded
<1>4. f[0] \in V[0]
  BY <1>1, <1>2, Zenon
<1>5. ASSUME NEW i \in 1 .. Len(r), f[i - 1] \in V[i - 1] PROVE f[i] \in V[i]
  <2>1. i \in 0 .. Len(r) /\ i - 1 \in 0 .. Len(r)
    OBVIOUS
  <2> QED BY <1>3, <1>5, <2>1, Zenon
<1>6. \A i \in 0 .. Len(r) : f[i] \in V[i]
  <2> HIDE DEF f, V
  <2> QED BY <1>1, <1>4, <1>5, Along, Zenon
<1>7. Bounded(Len(r))
  BY <1>1, <1>6, Zenon
<1>8. PICK t \in Nat : \A j \in 1 .. Len(r) : r[j].hash < t
  BY <1>7, Zenon DEF Bounded
<1>9. Below(r, t) = 1 .. Len(r)
  BY <1>1, <1>8, Zenon DEF Below
<1>10. Cardinality(1 .. Len(r)) = Len(r)
  BY <1>1, FS_Interval
<1> QED BY <1>9, <1>10, Zenon DEF Count

(* The hash at a place of the sorted vector. *)
LEMMA SortedEntry ==
  ASSUME NEW r \in Seq(Entry), NEW p \in 1 .. Len(r)
  PROVE  /\ SortedRing(r)[p] \in Hashes(r)
         /\ SortedRing(r)[p] \in Nat
         /\ Count(r, SortedRing(r)[p]) < p
         /\ p <= Count(r, SortedRing(r)[p] + 1)
<1> DEFINE T == {t \in Nat : p <= Count(r, t)}
<1>1. T \in SUBSET Nat /\ T # {}
  <2>1. PICK t \in Nat : Count(r, t) = Len(r)
    BY CountFull, Zenon
  <2>2. p <= Count(r, t)
    BY <2>1
  <2> QED BY <2>2, Zenon
<1>2. Least(T) \in T /\ \A k \in T : Least(T) <= k
  BY <1>1, LeastExists, Zenon
<1>3. PICK t \in Nat : p <= Count(r, t) /\ \A k \in T : t <= k
  BY <1>2, Zenon
<1>4. Count(r, 0) = 0
  <2>1. \A i \in DOMAIN r : ~(r[i].hash < 0)
    <3> SUFFICES ASSUME NEW i \in DOMAIN r PROVE ~(r[i].hash < 0)
      BY Zenon
    <3>1. r[i].hash \in Nat
      BY EntryFields, Zenon
    <3> QED BY <3>1
  <2>2. Below(r, 0) = {}
    BY <2>1, Zenon DEF Below
  <2> QED BY <2>2, FS_EmptySet, Zenon DEF Count
<1>5. t # 0
  BY <1>3, <1>4
<1> DEFINE g == t - 1
<1>6. g \in Nat /\ t = g + 1 /\ ~(t <= g) /\ p \in Nat
  BY <1>3, <1>5
<1> HIDE DEF g
<1>7. g \notin T
  BY <1>3, <1>6, Zenon
<1>8. Count(r, g) < p /\ p <= Count(r, g + 1) /\ Count(r, g) < Count(r, g + 1)
  <2>1. Count(r, g) \in Nat /\ Count(r, t) \in Nat
    BY <1>6, CountRange, Zenon
  <2>2. ~(p <= Count(r, g))
    BY <1>6, <1>7, Zenon
  <2> QED BY <1>3, <1>6, <2>1, <2>2
<1>9. g \in Hashes(r)
  BY <1>6, <1>8, CountSteps, Zenon
<1>10. \A h \in Hashes(r) : h \in Nat /\ Below(r, h + 1) = {i \in DOMAIN r : r[i].hash <= h}
  <2> SUFFICES ASSUME NEW h \in Hashes(r)
               PROVE  h \in Nat /\ Below(r, h + 1) = {i \in DOMAIN r : r[i].hash <= h}
    BY Zenon
  <2>1. h \in Nat
    BY EntryFields, Zenon DEF Hashes
  <2>2. \A x \in Nat : x < h + 1 <=> x <= h
    BY <2>1
  <2>3. \A i \in DOMAIN r : r[i].hash \in Nat
    BY EntryFields, Zenon
  <2> QED BY <2>1, <2>2, <2>3, Zenon DEF Below
<1> DEFINE Place(h) == Count(r, h) < p /\ p <= Count(r, h + 1)
           c == CHOOSE h \in Hashes(r) : Place(h)
<1>11. SortedRing(r)[p] = CHOOSE h \in Hashes(r) :
         /\ Cardinality({i \in DOMAIN r : r[i].hash < h}) < p
         /\ p <= Cardinality({i \in DOMAIN r : r[i].hash <= h})
  BY Zenon DEF SortedRing
<1> DEFINE Put(h) == /\ Cardinality({i \in DOMAIN r : r[i].hash < h}) < p
                     /\ p <= Cardinality({i \in DOMAIN r : r[i].hash <= h})
<1>12. \A h \in Hashes(r) : Put(h) <=> Place(h)
  BY <1>10, Zenon DEF Count, Below
<1>13. Put(g)
  BY <1>8, <1>9, <1>12, Zenon
<1>14. SortedRing(r)[p] \in Hashes(r) /\ Put(SortedRing(r)[p])
  BY <1>9, <1>11, <1>13, Zenon
<1> HIDE DEF Put
<1> QED BY <1>10, <1>12, <1>14, Zenon

LEMMA SortedAscends ==
  ASSUME NEW r \in Seq(Entry), NEW p \in 1 .. Len(r), NEW q \in 1 .. Len(r), p <= q
  PROVE  SortedRing(r)[p] <= SortedRing(r)[q]
<1> DEFINE a == SortedRing(r)[p]
           b == SortedRing(r)[q]
<1>1. a \in Nat /\ b \in Nat /\ Count(r, a) < p /\ q <= Count(r, b + 1)
  BY SortedEntry, Zenon
<1> HIDE DEF a, b
<1>2. SUFFICES ASSUME b < a PROVE FALSE
  BY <1>1 DEF a, b
<1>3. b + 1 \in Nat /\ b + 1 <= a
  BY <1>1, <1>2
<1>4. Count(r, b + 1) <= Count(r, a) /\ Count(r, a) \in Nat /\ Count(r, b + 1) \in Nat
  BY <1>1, <1>3, CountMonotone, CountRange, Zenon
<1> QED BY <1>1, <1>4

LEMMA SortedHasAll ==
  ASSUME NEW r \in Seq(Entry), NEW h \in Hashes(r)
  PROVE  \E p \in 1 .. Len(r) : SortedRing(r)[p] = h
<1> DEFINE p == Count(r, h + 1)
           b == SortedRing(r)[p]
<1>1. h \in Nat /\ h + 1 \in Nat
  <2>1. h \in Nat
    BY EntryFields, Zenon DEF Hashes
  <2> QED BY <2>1
<1>2. Count(r, h) \in Nat /\ p \in Nat /\ p <= Len(r) /\ Count(r, h) < p
  BY <1>1, CountRange, CountSteps, Zenon
<1> HIDE DEF p
<1>3. p \in 1 .. Len(r)
  BY <1>2
<1>4. b \in Nat /\ Count(r, b) < p /\ p <= Count(r, b + 1)
  BY <1>3, SortedEntry, Zenon
<1> HIDE DEF b
<1>5. b + 1 \in Nat
  BY <1>4
<1>6. Count(r, b) \in Nat /\ Count(r, b + 1) \in Nat
  BY <1>4, <1>5, CountRange, Zenon
<1>7. ~(b < h)
  <2> SUFFICES ASSUME b < h PROVE FALSE
    OBVIOUS
  <2>1. b + 1 <= h
    BY <1>1, <1>4
  <2>2. Count(r, b + 1) <= Count(r, h)
    BY <1>1, <1>5, <2>1, CountMonotone, Zenon
  <2> QED BY <1>2, <1>4, <1>6, <2>2
<1>8. ~(h < b)
  <2> SUFFICES ASSUME h < b PROVE FALSE
    OBVIOUS
  <2>1. h + 1 <= b
    BY <1>1, <1>4
  <2>2. p <= Count(r, b)
    BY <1>1, <1>4, <2>1, CountMonotone, Zenon DEF p
  <2> QED BY <1>2, <1>4, <1>6, <2>2
<1>9. b = h
  BY <1>1, <1>4, <1>7, <1>8
<1> QED BY <1>3, <1>9, Zenon DEF b

-----------------------------------------------------------------------------
(* The walk of get_n around the ring.                                      *)

(* a is met before b, or with it, on a walk that starts at key. *)
Earlier(key, a, b) ==
  \/ a >= key /\ b < key
  \/ a >= key /\ b >= key /\ a <= b
  \/ a < key /\ b < key /\ a <= b

Place(r, key, i) == ((StartPos(r, key) + i - 2) % Len(r)) + 1

At(r, key, i) == SortedRing(r)[Place(r, key, i)]

LEMMA StartsRight ==
  ASSUME NEW r \in Seq(Entry), Len(r) # 0, NEW key \in Nat
  PROVE  /\ StartPos(r, key) \in 1 .. Len(r)
         /\ \A p \in 1 .. Len(r) : p < StartPos(r, key) => SortedRing(r)[p] < key
         /\ \/ \A p \in 1 .. Len(r) : p >= StartPos(r, key) => SortedRing(r)[p] >= key
            \/ StartPos(r, key) = 1 /\ \A p \in 1 .. Len(r) : SortedRing(r)[p] < key
<1> DEFINE sorted == SortedRing(r)
           above == {p \in 1 .. Len(r) : sorted[p] >= key}
<1>1. DOMAIN sorted = 1 .. Len(r)
  BY Zenon DEF SortedRing
<1>2. \A p \in 1 .. Len(r) : sorted[p] \in Nat
  BY SortedEntry, Zenon
<1>3. \A p, q \in 1 .. Len(r) : p <= q => sorted[p] <= sorted[q]
  BY SortedAscends, Zenon
<1>4. StartPos(r, key) = IF above = {} THEN 1 ELSE Least(above)
  BY <1>1, Zenon DEF StartPos
<1> HIDE DEF sorted
<1>5. CASE above = {}
  <2>1. StartPos(r, key) = 1
    BY <1>4, <1>5, Zenon
  <2>2. \A p \in 1 .. Len(r) : sorted[p] < key
    <3>1. \A p \in 1 .. Len(r) : ~(sorted[p] >= key)
      BY <1>5, Zenon
    <3> QED BY <1>2, <3>1
  <2>3. 1 \in 1 .. Len(r) /\ \A p \in 1 .. Len(r) : ~(p < 1)
    OBVIOUS
  <2> QED BY <2>1, <2>2, <2>3, Zenon DEF sorted
<1>6. CASE above # {}
  <2>1. above \in SUBSET Nat
    OBVIOUS
  <2>2. Least(above) \in above /\ \A k \in above : Least(above) <= k
    BY <1>6, <2>1, LeastExists, Zenon
  <2>3. PICK s : s = StartPos(r, key)
    OBVIOUS
  <2>4. s \in 1 .. Len(r) /\ sorted[s] >= key /\ \A k \in above : s <= k
    BY <1>4, <1>6, <2>2, <2>3, Zenon
  <2>5. \A p \in 1 .. Len(r) : p < s => sorted[p] < key
    <3> SUFFICES ASSUME NEW p \in 1 .. Len(r), p < s PROVE sorted[p] < key
      BY Zenon
    <3>1. ~(s <= p)
      BY <2>4
    <3>2. ~(sorted[p] >= key)
      BY <2>4, <3>1, Zenon
    <3> QED BY <1>2, <3>2
  <2>6. \A p \in 1 .. Len(r) : p >= s => sorted[p] >= key
    <3> SUFFICES ASSUME NEW p \in 1 .. Len(r), p >= s PROVE sorted[p] >= key
      BY Zenon
    <3>1. s <= p
      BY <2>4
    <3>2. sorted[s] <= sorted[p] /\ sorted[s] \in Nat /\ sorted[p] \in Nat
      BY <1>2, <1>3, <2>4, <3>1, Zenon
    <3> QED BY <2>4, <3>2
  <2> QED BY <2>3, <2>4, <2>5, <2>6, Zenon DEF sorted
<1> QED BY <1>5, <1>6, Zenon

LEMMA PlaceIs ==
  ASSUME NEW r \in Seq(Entry), Len(r) # 0, NEW key \in Nat, NEW i \in 1 .. Len(r)
  PROVE  /\ Place(r, key, i) \in 1 .. Len(r)
         /\ Place(r, key, i) = IF StartPos(r, key) + i - 1 <= Len(r)
                               THEN StartPos(r, key) + i - 1
                               ELSE StartPos(r, key) + i - 1 - Len(r)
<1>1. PICK s \in 1 .. Len(r) : s = StartPos(r, key)
  BY StartsRight, Zenon
<1>2. PICK L \in Nat \ {0} : L = Len(r)
  OBVIOUS
<1>3. PICK a \in Nat : a = s + i - 2 /\ a < L + L
  BY <1>1, <1>2
<1>4. a < L => a % L = a
  BY <1>2, <1>3
<1>5. L <= a => a % L = a - L
  BY <1>2, <1>3
<1>6. Place(r, key, i) = (a % L) + 1
  BY <1>1, <1>2, <1>3, Zenon DEF Place
<1>7. PICK m : m = a % L
  OBVIOUS
<1>8. (a < L => m = a) /\ (L <= a => m = a - L)
  BY <1>4, <1>5, <1>7, Zenon
<1>9. m + 1 \in 1 .. L /\ m + 1 = IF s + i - 1 <= L THEN s + i - 1 ELSE s + i - 1 - L
  <2>1. s \in 1 .. L /\ i \in 1 .. L
    BY <1>2, Zenon
  <2>2. CASE a < L
    BY <1>3, <1>8, <2>1, <2>2
  <2>3. CASE L <= a
    BY <1>3, <1>8, <2>1, <2>3
  <2> QED BY <1>3, <2>2, <2>3
<1> QED BY <1>1, <1>2, <1>6, <1>7, <1>9, Zenon

LEMMA WalkOrder ==
  ASSUME NEW r \in Seq(Entry), Len(r) # 0, NEW key \in Nat,
         NEW i \in 1 .. Len(r), NEW j \in 1 .. Len(r), i <= j
  PROVE  Earlier(key, At(r, key, i), At(r, key, j))
<1> DEFINE s == StartPos(r, key)
           sorted == SortedRing(r)
<1>1. PICK p \in 1 .. Len(r) : p = Place(r, key, i)
  BY PlaceIs, Zenon
<1>2. PICK q \in 1 .. Len(r) : q = Place(r, key, j)
  BY PlaceIs, Zenon
<1>3. s \in 1 .. Len(r)
  BY StartsRight, Zenon
<1>4. /\ p = IF s + i - 1 <= Len(r) THEN s + i - 1 ELSE s + i - 1 - Len(r)
      /\ q = IF s + j - 1 <= Len(r) THEN s + j - 1 ELSE s + j - 1 - Len(r)
  BY <1>1, <1>2, PlaceIs, Zenon
<1>5. /\ \A x \in 1 .. Len(r) : x < s => sorted[x] < key
      /\ \/ \A x \in 1 .. Len(r) : x >= s => sorted[x] >= key
         \/ s = 1 /\ \A x \in 1 .. Len(r) : sorted[x] < key
  BY StartsRight, Zenon
<1>6. sorted[p] \in Nat /\ sorted[q] \in Nat
  BY SortedEntry, Zenon
<1>7. p <= q => sorted[p] <= sorted[q]
  BY SortedAscends, Zenon
<1> HIDE DEF s, sorted
<1>8. \/ p >= s /\ q >= s /\ p <= q
      \/ p < s /\ q < s /\ p <= q
      \/ p >= s /\ q < s
  BY <1>3, <1>4
<1>9. Earlier(key, sorted[p], sorted[q])
  <2>1. CASE \A x \in 1 .. Len(r) : x >= s => sorted[x] >= key
    <3>1. CASE p >= s /\ q >= s /\ p <= q
      BY <1>7, <2>1, <3>1, Zenon DEF Earlier
    <3>2. CASE p < s /\ q < s /\ p <= q
      BY <1>5, <1>7, <3>2, Zenon DEF Earlier
    <3>3. CASE p >= s /\ q < s
      BY <1>5, <2>1, <3>3, Zenon DEF Earlier
    <3> QED BY <1>8, <3>1, <3>2, <3>3, Zenon
  <2>2. CASE s = 1 /\ \A x \in 1 .. Len(r) : sorted[x] < key
    <3>1. p <= q
      BY <1>8, <2>2
    <3> QED BY <1>7, <2>2, <3>1, Zenon DEF Earlier
  <2> QED BY <1>5, <2>1, <2>2, Zenon
<1> QED BY <1>1, <1>2, <1>9, Zenon DEF At, sorted

LEMMA WalkVisitsAll ==
  ASSUME NEW r \in Seq(Entry), Len(r) # 0, NEW key \in Nat
  PROVE  /\ \A i \in 1 .. Len(r) : At(r, key, i) \in Hashes(r)
         /\ \A h \in Hashes(r) : \E i \in 1 .. Len(r) : At(r, key, i) = h
<1>1. ASSUME NEW i \in 1 .. Len(r) PROVE At(r, key, i) \in Hashes(r)
  BY PlaceIs, SortedEntry, Zenon DEF At
<1>2. ASSUME NEW h \in Hashes(r) PROVE \E i \in 1 .. Len(r) : At(r, key, i) = h
  <2>1. PICK p \in 1 .. Len(r) : SortedRing(r)[p] = h
    BY SortedHasAll, Zenon
  <2>2. PICK s \in 1 .. Len(r) : s = StartPos(r, key)
    BY StartsRight, Zenon
  <2> DEFINE i == IF p >= s THEN p - s + 1 ELSE p + Len(r) - s + 1
  <2>3. i \in 1 .. Len(r)
    BY <2>2
  <2>4. p = IF s + i - 1 <= Len(r) THEN s + i - 1 ELSE s + i - 1 - Len(r)
    BY <2>2
  <2> HIDE DEF i
  <2>5. Place(r, key, i) = p
    BY <2>2, <2>3, <2>4, PlaceIs, Zenon
  <2> QED BY <2>1, <2>3, <2>5, Zenon DEF At
<1> QED BY <1>1, <1>2, Zenon

(* The position a key belongs to is the first one met on the walk. *)
LEMMA FirstMet ==
  ASSUME NEW hs \in SUBSET Nat, NEW key \in Nat, NEW h \in hs,
         \A g \in hs : Earlier(key, h, g)
  PROVE  Successor(hs, key) = h
<1> DEFINE above == {g \in hs : g >= key}
<1>1. h \in Nat /\ \A g \in hs : g \in Nat
  BY Zenon
<1>2. CASE h >= key
  <2>1. h \in above /\ above # {} /\ above \in SUBSET Nat
    BY <1>2, Zenon
  <2>2. Least(above) \in above /\ Least(above) <= h
    BY <2>1, LeastExists, Zenon
  <2>3. PICK g \in above : g = Least(above) /\ g <= h
    BY <2>2, Zenon
  <2>4. g \in Nat /\ g >= key /\ Earlier(key, h, g)
    BY <1>1, <2>3, Zenon
  <2>5. g = h
    BY <1>1, <1>2, <2>3, <2>4 DEF Earlier
  <2> QED BY <2>1, <2>3, <2>5, Zenon DEF Successor
<1>3. CASE ~(h >= key)
  <2>1. above = {}
    <3> SUFFICES ASSUME NEW g \in hs PROVE ~(g >= key)
      BY Zenon
    <3>1. g \in Nat /\ Earlier(key, h, g)
      BY <1>1, Zenon
    <3> QED BY <1>1, <1>3, <3>1 DEF Earlier
  <2>2. Least(hs) \in hs /\ Least(hs) <= h
    BY LeastExists, Zenon
  <2>3. PICK g \in hs : g = Least(hs) /\ g <= h
    BY <2>2, Zenon
  <2>4. g \in Nat /\ Earlier(key, h, g)
    BY <1>1, <2>3, Zenon
  <2>5. g = h
    BY <1>1, <1>3, <2>3, <2>4 DEF Earlier
  <2> QED BY <2>1, <2>3, <2>5, Zenon DEF Successor
<1> QED BY <1>2, <1>3, Zenon

-----------------------------------------------------------------------------
(* The owners in turn.                                                     *)

LEMMA MembersFinite ==
  ASSUME NEW r \in Seq(Entry)
  PROVE  IsFiniteSet(Members(r)) /\ Cardinality(Members(r)) \in Nat
<1> DEFINE f == [i \in DOMAIN r |-> r[i].node]
<1>1. f \in Surjection(DOMAIN r, Members(r))
  <2>1. f \in [DOMAIN r -> Members(r)] /\ \A m \in Members(r) : \E i \in DOMAIN r : f[i] = m
    BY Zenon DEF Members
  <2> QED BY <2>1, Zenon DEF Surjection
<1>2. IsFiniteSet(DOMAIN r)
  <2>1. DOMAIN r = 1 .. Len(r) /\ 1 \in Int /\ Len(r) \in Int
    OBVIOUS
  <2> QED BY <2>1, FS_Interval, Zenon
<1>3. IsFiniteSet(Members(r))
  BY <1>1, <1>2, FS_Surjection, Zenon
<1> QED BY <1>3, FS_CardinalityType, Zenon

(* The entries with one hash belong to one node. *)
LEMMA OneNodePerHash ==
  ASSUME DistinctPositions, NEW r, RingOK(r), NEW i \in DOMAIN r, NEW j \in DOMAIN r,
         r[i].hash = r[j].hash
  PROVE  r[i].node = r[j].node
<1>1. r \in Seq(Entry)
  BY Zenon DEF RingOK
<1>2. r[i].node \in Nodes /\ r[j].node \in Nodes
  BY <1>1, EntryFields, Zenon
<1>3. PICK x \in DOMAIN Positions[r[i].node] : r[i].hash = Positions[r[i].node][x]
  BY Zenon DEF RingOK
<1>4. PICK y \in DOMAIN Positions[r[j].node] : r[j].hash = Positions[r[j].node][y]
  BY Zenon DEF RingOK
<1> QED BY <1>2, <1>3, <1>4, Zenon DEF DistinctPositions

LEMMA OwnerEntry ==
  ASSUME NEW r \in Seq(Entry), Members(r) # {}, NEW key \in Nat
  PROVE  \E i \in DOMAIN r : /\ r[i].hash = Successor(Hashes(r), key)
                            /\ Owner(r, key) = r[i].node
                            /\ GetByHash(r, key) = {r[i].node}
<1>1. Hashes(r) \in SUBSET Nat /\ Hashes(r) # {} /\ r # EmptyRing
  <2>1. PICK i : i \in DOMAIN r
    BY Zenon DEF Members
  <2>2. r # EmptyRing
    BY <2>1 DEF EmptyRing
  <2> QED BY <2>1, <2>2, EntryFields, Zenon DEF Hashes
<1>2. PICK i \in DOMAIN r : /\ r[i].hash = Successor(Hashes(r), key)
                           /\ NodeAt(r, Successor(Hashes(r), key)) = r[i].node
  BY <1>1, SuccessorExists, NodeAtEntry, Zenon
<1>3. GetByHash(r, key) = {r[i].node}
  BY <1>1, <1>2, Zenon DEF GetByHash
<1>4. Owner(r, key) = r[i].node
  BY <1>3, Zenon DEF Owner
<1> QED BY <1>2, <1>3, <1>4, Zenon

(* The rings that are left when the owners of a title leave in turn. *)
IsTurns(r, key, left) ==
  /\ left[0] = r
  /\ \A k \in 1 .. Cardinality(Members(r)) :
       left[k] = RemoveNode(left[k - 1], Owner(left[k - 1], key))
  /\ OwnersInTurn(r, key) =
       [k \in 1 .. Cardinality(Members(r)) |-> Owner(left[k - 1], key)]

LEMMA TurnsExist ==
  ASSUME NEW r, RingOK(r), NEW key
  PROVE  \E left : IsTurns(r, key, left)
<1> DEFINE n == Cardinality(Members(r))
           Next(q) == RemoveNode(q, Owner(q, key))
           step == [i \in 1 .. n |-> [q \in Seq(Entry) |-> Next(q)]]
           V == [i \in 0 .. n |-> Seq(Entry)]
           IsLeft(f) == f = [k \in 0 .. n |-> IF k = 0 THEN r ELSE Next(f[k - 1])]
<1>0. r \in Seq(Entry)
  BY Zenon DEF RingOK
<1>1. n \in Nat
  BY <1>0, MembersFinite, Zenon
<1> HIDE DEF n
<1>2. 0 \in 0 .. n /\ \A i \in 1 .. n : i \in 0 .. n /\ i # 0 /\ i - 1 \in 0 .. n
  BY <1>1
<1>3. \A q \in Seq(Entry) : Next(q) \in Seq(Entry)
  BY RemoveSifts, Zenon DEF Sifted
<1> HIDE DEF Next
<1>4. PICK f : Recursive(f, n, r, step)
  BY <1>1, RecursionExists, Zenon
<1>5. \A i \in 1 .. n : \A q \in Seq(Entry) : step[i][q] = Next(q)
  BY Zenon
<1> HIDE DEF step
<1>6. f = [i \in 0 .. n |-> IF i = 0 THEN r ELSE step[i][f[i - 1]]]
  BY <1>4, Zenon DEF Recursive
<1>7. f[0] = r /\ \A i \in 1 .. n : f[i] = step[i][f[i - 1]]
  BY <1>2, <1>6, Zenon
<1>8. f[0] \in V[0]
  BY <1>0, <1>2, <1>7, Zenon
<1>9. ASSUME NEW i \in 1 .. n, f[i - 1] \in V[i - 1] PROVE f[i] \in V[i]
  <2>1. i \in 0 .. n /\ i - 1 \in 0 .. n
    BY <1>2, Zenon
  <2>2. f[i - 1] \in Seq(Entry)
    BY <1>9, <2>1, Zenon
  <2> QED BY <1>3, <1>5, <1>7, <2>1, <2>2, Zenon
<1>10. \A i \in 0 .. n : f[i] \in V[i]
  <2> HIDE DEF V
  <2> QED BY <1>1, <1>8, <1>9, Along, Zenon
<1>11. IsLeft(f)
  <2>1. ASSUME NEW i \in 0 .. n, i # 0 PROVE step[i][f[i - 1]] = Next(f[i - 1])
    <3>1. i \in 1 .. n /\ i - 1 \in 0 .. n
      BY <1>1, <2>1
    <3>2. f[i - 1] \in Seq(Entry)
      BY <1>10, <3>1, Zenon
    <3> QED BY <3>1, <3>2, <1>5, Zenon
  <2> QED BY <1>6, <2>1, Zenon
<1> HIDE DEF IsLeft
<1>12. PICK g : IsLeft(g) /\ OwnersInTurn(r, key) = [k \in 1 .. n |-> Owner(g[k - 1], key)]
  BY <1>11, ZenonT(40) DEF OwnersInTurn, IsLeft, n, Next
<1>13. g[0] = r /\ \A i \in 1 .. n : g[i] = Next(g[i - 1])
  BY <1>2, <1>12, Zenon DEF IsLeft
<1>14. IsTurns(r, key, g)
  BY <1>12, <1>13, Zenon DEF IsTurns, n, Next
<1> QED BY <1>14, Zenon

TurnOK(r, key, k, q) ==
  /\ RingOK(q)
  /\ Cardinality(Members(q)) = Cardinality(Members(r)) - k
  /\ Members(q) = Members(r) \ {OwnersInTurn(r, key)[j] : j \in 1 .. k}

LEMMA TurnsKeep ==
  ASSUME NEW r, RingOK(r), NEW key \in Nat, NEW left, IsTurns(r, key, left)
  PROVE  \A k \in 0 .. Cardinality(Members(r)) : TurnOK(r, key, k, left[k])
<1> DEFINE N == Cardinality(Members(r))
           owners == OwnersInTurn(r, key)
           Kept(k, q) == /\ RingOK(q)
                         /\ Cardinality(Members(q)) = N - k
                         /\ Members(q) = Members(r) \ {owners[j] : j \in 1 .. k}
           V == [k \in 0 .. N |-> {q \in Seq(Entry) : Kept(k, q)}]
<1>0. N \in Nat
  BY MembersFinite, Zenon DEF RingOK
<1>1. /\ left[0] = r
      /\ \A k \in 1 .. N : left[k] = RemoveNode(left[k - 1], Owner(left[k - 1], key))
      /\ owners = [k \in 1 .. N |-> Owner(left[k - 1], key)]
  BY Zenon DEF IsTurns
<1> HIDE DEF owners
<1>2. N - 0 = N /\ 0 \in 0 .. N /\ \A j : j \notin 1 .. 0
  BY <1>0
<1>3. Kept(0, r)
  <2>1. {owners[j] : j \in 1 .. 0} = {}
    BY <1>2, Zenon
  <2> QED BY <1>2, <2>1, Zenon
<1> HIDE DEF N
<1>4. ASSUME NEW k \in 1 .. N, NEW q, Kept(k - 1, q), q = left[k - 1] PROVE Kept(k, left[k])
  <2> DEFINE o == Owner(q, key)
  <2>1. q \in Seq(Entry)
    BY <1>4, Zenon DEF RingOK
  <2>2. IsFiniteSet(Members(q)) /\ Cardinality(Members(q)) \in Nat
    BY <2>1, MembersFinite, Zenon
  <2>3. Cardinality(Members(q)) = N - (k - 1)
    BY <1>4, Zenon
  <2>4. Cardinality(Members(q)) # 0 /\ Cardinality(Members(q)) - 1 = N - k
    BY <1>0, <2>3
  <2>5. Members(q) # {}
    BY <2>4, FS_EmptySet, Zenon
  <2>6. o \in Members(q)
    BY <2>1, <2>5, OwnerEntry, Zenon DEF Members
  <2>7. left[k] = RemoveNode(q, o) /\ owners[k] = o
    BY <1>1, <1>4, Zenon
  <2> HIDE DEF o
  <2>8. RingOK(left[k]) /\ Members(left[k]) = Members(q) \ {o}
    <3>1. RingOK(q)
      BY <1>4, Zenon
    <3>2. RingOK(RemoveNode(q, o)) /\ Members(RemoveNode(q, o)) = Members(q) \ {o}
      BY <3>1, RemovedRing, Zenon
    <3> QED BY <2>7, <3>2, Zenon
  <2>9. Cardinality(Members(left[k])) = N - k
    <3>1. Cardinality(Members(q) \ {o}) = Cardinality(Members(q)) - 1
      BY <2>2, <2>6, FS_RemoveElement, Zenon
    <3> QED BY <2>4, <2>8, <3>1, Zenon
  <2>10. Members(left[k]) = Members(r) \ {owners[j] : j \in 1 .. k}
    <3>1. \A j : j \in 1 .. k <=> j \in 1 .. k - 1 \/ j = k
      BY <1>0
    <3>2. {owners[j] : j \in 1 .. k} = {owners[j] : j \in 1 .. k - 1} \cup {o}
      BY <2>7, <3>1, Zenon
    <3>3. Members(q) = Members(r) \ {owners[j] : j \in 1 .. k - 1}
      BY <1>4, Zenon
    <3> QED BY <2>8, <3>2, <3>3, Zenon
  <2> QED BY <2>8, <2>9, <2>10, Zenon
<1> HIDE DEF Kept
<1>5. left[0] \in V[0]
  <2>1. r \in Seq(Entry)
    BY Zenon DEF RingOK
  <2> QED BY <1>1, <1>2, <1>3, <2>1, Zenon
<1>6. ASSUME NEW k \in 1 .. N, left[k - 1] \in V[k - 1] PROVE left[k] \in V[k]
  <2>1. k \in 0 .. N /\ k - 1 \in 0 .. N
    BY <1>0
  <2>2. Kept(k - 1, left[k - 1])
    BY <1>6, <2>1, Zenon
  <2>3. Kept(k, left[k])
    BY <1>4, <2>2, Zenon
  <2>4. left[k] \in Seq(Entry)
    BY <2>3, Zenon DEF Kept, RingOK
  <2> QED BY <2>1, <2>3, <2>4, Zenon
<1>7. \A k \in 0 .. N : left[k] \in V[k]
  <2> HIDE DEF V
  <2> QED BY <1>0, <1>5, <1>6, Along, Zenon
<1>8. \A k \in 0 .. N : Kept(k, left[k])
  BY <1>7, Zenon
<1> QED BY <1>8, Zenon DEF TurnOK, Kept, N, owners

LEMMA OwnersAreNodes ==
  ASSUME NEW r, RingOK(r), NEW key \in Nat
  PROVE  /\ OwnersInTurn(r, key) \in Seq(Nodes)
         /\ Len(OwnersInTurn(r, key)) = Cardinality(Members(r))
<1> DEFINE N == Cardinality(Members(r))
<1>0. N \in Nat
  BY MembersFinite, Zenon DEF RingOK
<1>1. PICK left : IsTurns(r, key, left)
  BY TurnsExist, Zenon
<1>2. OwnersInTurn(r, key) = [k \in 1 .. N |-> Owner(left[k - 1], key)]
  BY <1>1, Zenon DEF IsTurns
<1>6. \A k \in 0 .. N : RingOK(left[k]) /\ Cardinality(Members(left[k])) = N - k
  <2>1. \A k \in 0 .. N : TurnOK(r, key, k, left[k])
    BY <1>1, TurnsKeep, Zenon
  <2> QED BY <2>1, Zenon DEF TurnOK
<1> HIDE DEF N
<1>3. ASSUME NEW k \in 1 .. N PROVE Owner(left[k - 1], key) \in Nodes
  <2>1. k - 1 \in 0 .. N /\ N - (k - 1) # 0
    BY <1>0
  <2>2. RingOK(left[k - 1]) /\ Cardinality(Members(left[k - 1])) = N - (k - 1)
    BY <1>6, <2>1, Zenon
  <2>3. left[k - 1] \in Seq(Entry)
    BY <2>2, Zenon DEF RingOK
  <2>4. Members(left[k - 1]) # {}
    BY <2>1, <2>2, FS_EmptySet, Zenon
  <2> QED BY <2>3, <2>4, OwnerEntry, EntryFields, Zenon
<1>4. OwnersInTurn(r, key) \in [1 .. N -> Nodes]
  BY <1>2, <1>3, Zenon
<1>5. OwnersInTurn(r, key) \in Seq(Nodes) /\ Len(OwnersInTurn(r, key)) = N
  BY <1>0, <1>4
<1> QED BY <1>5, Zenon DEF N

-----------------------------------------------------------------------------
(* get_n.                                                                  *)

Met(r, key, n, i, q) == IF Len(q) >= n THEN q ELSE Visit(r, At(r, key, i), q)

IsWalk(r, key, n, walk) ==
  /\ walk[0] = << >>
  /\ \A i \in 1 .. Len(r) : walk[i] = Met(r, key, n, i, walk[i - 1])
  /\ GetN(r, key, n) = walk[Len(r)]

LEMMA VisitKeeps ==
  ASSUME NEW r \in Seq(Entry), NEW h, NEW q \in Seq(Nodes)
  PROVE  Visit(r, h, q) \in Seq(Nodes)
<1> DEFINE fresh == {i \in DOMAIN r : /\ r[i].hash = h
                                      /\ \A k \in DOMAIN q : q[k] # r[i].node}
<1>1. Visit(r, h, q) = IF fresh = {} THEN q ELSE Append(q, r[Least(fresh)].node)
  BY Zenon DEF Visit
<1>2. CASE fresh = {}
  BY <1>1, <1>2, Zenon
<1>3. CASE fresh # {}
  <2>1. fresh \in SUBSET Nat
    OBVIOUS
  <2>2. Least(fresh) \in DOMAIN r
    BY <1>3, <2>1, LeastExists, Zenon
  <2>3. r[Least(fresh)].node \in Nodes
    BY <2>2, EntryFields, Zenon
  <2>4. Append(q, r[Least(fresh)].node) \in Seq(Nodes)
    <3> HIDE DEF fresh
    <3> QED BY <2>3
  <2> QED BY <1>1, <1>3, <2>4, Zenon
<1> QED BY <1>2, <1>3, Zenon

LEMMA WalkExists ==
  ASSUME NEW r \in Seq(Entry), NEW key, NEW n
  PROVE  \E walk : IsWalk(r, key, n, walk)
<1> DEFINE m == Len(r)
           Next(q, i) == Met(r, key, n, i, q)
           step == [i \in 1 .. m |-> [q \in Seq(Nodes) |-> Next(q, i)]]
           V == [i \in 0 .. m |-> Seq(Nodes)]
           IsOne(f) == f = [i \in 0 .. m |-> IF i = 0 THEN << >> ELSE Next(f[i - 1], i)]
<1>1. m \in Nat /\ 0 \in 0 .. m /\ \A i \in 1 .. m : i \in 0 .. m /\ i # 0 /\ i - 1 \in 0 .. m
  OBVIOUS
<1> HIDE DEF m
<1>3. \A i \in 1 .. m : \A q \in Seq(Nodes) : Next(q, i) \in Seq(Nodes)
  BY VisitKeeps, Zenon DEF Met
<1> HIDE DEF Next
<1>4. PICK f : Recursive(f, m, << >>, step)
  BY <1>1, RecursionExists, Zenon
<1>5. \A i \in 1 .. m : \A q \in Seq(Nodes) : step[i][q] = Next(q, i)
  BY Zenon
<1> HIDE DEF step
<1>6. f = [i \in 0 .. m |-> IF i = 0 THEN << >> ELSE step[i][f[i - 1]]]
  BY <1>4, Zenon DEF Recursive
<1>7. f[0] = << >> /\ \A i \in 1 .. m : f[i] = step[i][f[i - 1]]
  BY <1>1, <1>6, Zenon
<1>8. f[0] \in V[0]
  <2>1. << >> \in Seq(Nodes)
    OBVIOUS
  <2> QED BY <2>1, <1>1, <1>7, Zenon
<1>9. ASSUME NEW i \in 1 .. m, f[i - 1] \in V[i - 1] PROVE f[i] \in V[i]
  <2>1. i \in 0 .. m /\ i - 1 \in 0 .. m
    BY <1>1, Zenon
  <2>2. f[i - 1] \in Seq(Nodes)
    BY <1>9, <2>1, Zenon
  <2> QED BY <1>3, <1>5, <1>7, <2>1, <2>2, Zenon
<1>10. \A i \in 0 .. m : f[i] \in V[i]
  <2> HIDE DEF V
  <2> QED BY <1>1, <1>8, <1>9, Along, Zenon
<1>11. IsOne(f)
  <2>1. ASSUME NEW i \in 0 .. m, i # 0 PROVE step[i][f[i - 1]] = Next(f[i - 1], i)
    <3>1. i \in 1 .. m /\ i - 1 \in 0 .. m
      BY <1>1, <2>1
    <3>2. f[i - 1] \in Seq(Nodes)
      BY <1>10, <3>1, Zenon
    <3> QED BY <3>1, <3>2, <1>5, Zenon
  <2> QED BY <1>6, <2>1, Zenon
<1> HIDE DEF IsOne
<1>12. PICK g : IsOne(g) /\ GetN(r, key, n) = g[m]
  BY <1>11, Zenon DEF GetN, IsOne, m, Next, Met, At, Place
<1>13. g[0] = << >> /\ \A i \in 1 .. m : g[i] = Next(g[i - 1], i)
  BY <1>1, <1>12, Zenon DEF IsOne
<1>14. IsWalk(r, key, n, g)
  BY <1>12, <1>13, Zenon DEF IsWalk, m, Next
<1> QED BY <1>14, Zenon

LEMMA Prefix ==
  ASSUME NEW s \in Seq(Nodes), NEW c \in 0 .. Len(s)
  PROVE  /\ SubSeq(s, 1, c) \in Seq(Nodes)
         /\ Len(SubSeq(s, 1, c)) = c
         /\ DOMAIN SubSeq(s, 1, c) = 1 .. c
         /\ \A k \in 1 .. c : SubSeq(s, 1, c)[k] = s[k]
         /\ c < Len(s) => SubSeq(s, 1, c + 1) = Append(SubSeq(s, 1, c), s[c + 1])
  OBVIOUS

(* None of the nodes at the first i places is a member of q. *)
PassedBy(r, key, i, q) ==
  \A j \in 1 .. i : \A x \in DOMAIN r :
    r[x].hash = At(r, key, j) => r[x].node \notin Members(q)

(* What the walk has collected after i places: the first c owners.  Unless *)
(* it has enough, the nodes at those places are all among them.            *)
Collected(r, key, n, left, i, q) ==
  \E c \in 0 .. Cardinality(Members(r)) :
    /\ c <= n
    /\ q = SubSeq(OwnersInTurn(r, key), 1, c)
    /\ c = n \/ PassedBy(r, key, i, left[c])

(* The next owner is the first node on the walk that did not leave.        *)
LEMMA NextOwner ==
  ASSUME DistinctPositions, NEW r, RingOK(r), NEW key \in Nat, NEW q, RingOK(q),
         Members(q) \subseteq Members(r), NEW i \in 1 .. Len(r), NEW x \in DOMAIN r,
         r[x].hash = At(r, key, i), r[x].node \in Members(q), PassedBy(r, key, i - 1, q)
  PROVE  Owner(q, key) = r[x].node
<1>1. r \in Seq(Entry) /\ q \in Seq(Entry) /\ Len(r) # 0 /\ Len(r) \in Nat
  BY DEF RingOK
<1> DEFINE h == r[x].hash
           m == r[x].node
<1>2. PICK z \in DOMAIN q : q[z].hash = h /\ q[z].node = m
  <2>1. PICK p \in DOMAIN Positions[m] : h = Positions[m][p]
    BY Zenon DEF RingOK
  <2>2. PICK z \in DOMAIN q : q[z].hash = Positions[m][p] /\ q[z].node = m
    BY Zenon DEF RingOK
  <2> QED BY <2>1, <2>2, Zenon
<1>3. ASSUME NEW g \in Hashes(q) PROVE Earlier(key, h, g)
  <2>1. PICK w \in DOMAIN q : g = q[w].hash
    BY Zenon DEF Hashes
  <2>2. PICK p \in DOMAIN Positions[q[w].node] : g = Positions[q[w].node][p]
    BY <2>1, Zenon DEF RingOK
  <2>3. q[w].node \in Members(q) /\ q[w].node \in Members(r)
    BY Zenon DEF Members
  <2>4. PICK y \in DOMAIN r : r[y].hash = Positions[q[w].node][p] /\ r[y].node = q[w].node
    BY <2>3, Zenon DEF RingOK
  <2>5. r[y].hash = g /\ r[y].node \in Members(q) /\ g \in Hashes(r)
    BY <2>2, <2>3, <2>4, Zenon DEF Hashes
  <2>6. PICK j \in 1 .. Len(r) : At(r, key, j) = g
    <3>1. \A f \in Hashes(r) : \E j \in 1 .. Len(r) : At(r, key, j) = f
      BY <1>1, WalkVisitsAll, Zenon
    <3> QED BY <2>5, <3>1, Zenon
  <2>7. j \notin 1 .. i - 1
    BY <2>5, <2>6, Zenon DEF PassedBy
  <2>8. i <= j
    BY <1>1, <2>7
  <2>9. Earlier(key, At(r, key, i), At(r, key, j))
    BY <1>1, <2>8, WalkOrder, Zenon
  <2> QED BY <2>6, <2>9, Zenon
<1>4. h \in Hashes(q) /\ Hashes(q) \in SUBSET Nat
  BY <1>1, <1>2, EntryFields, Zenon DEF Hashes
<1> HIDE DEF h, m
<1>5. Successor(Hashes(q), key) = h
  BY <1>3, <1>4, FirstMet, Zenon
<1>6. Members(q) # {}
  BY <1>2, Zenon DEF Members
<1>7. PICK w \in DOMAIN q : q[w].hash = h /\ Owner(q, key) = q[w].node
  BY <1>1, <1>5, <1>6, OwnerEntry, Zenon
<1>8. q[w].node = q[z].node
  BY <1>2, <1>7, OneNodePerHash, Zenon
<1> QED BY <1>2, <1>7, <1>8, Zenon DEF m

LEMMA WalkStep ==
  ASSUME DistinctPositions, NEW r, RingOK(r), NEW key \in Nat, NEW n \in Nat,
         NEW left, IsTurns(r, key, left), NEW i \in 1 .. Len(r),
         NEW q, Collected(r, key, n, left, i - 1, q)
  PROVE  Collected(r, key, n, left, i, Met(r, key, n, i, q))
<1> DEFINE N == Cardinality(Members(r))
           owners == OwnersInTurn(r, key)
           h == At(r, key, i)
           fresh == {x \in DOMAIN r : /\ r[x].hash = h
                                      /\ \A k \in DOMAIN q : q[k] # r[x].node}
<1>1. r \in Seq(Entry) /\ N \in Nat /\ owners \in Seq(Nodes) /\ Len(owners) = N
  BY MembersFinite, OwnersAreNodes, Zenon DEF RingOK
<1>2. PICK c \in 0 .. N :
        /\ c <= n
        /\ q = SubSeq(owners, 1, c)
        /\ c = n \/ PassedBy(r, key, i - 1, left[c])
  BY Zenon DEF Collected
<1>3. \A k \in 0 .. N :
        /\ RingOK(left[k])
        /\ Cardinality(Members(left[k])) = N - k
        /\ Members(left[k]) = Members(r) \ {owners[j] : j \in 1 .. k}
  <2>1. \A k \in 0 .. N : TurnOK(r, key, k, left[k])
    BY TurnsKeep, Zenon
  <2> QED BY <2>1, Zenon DEF TurnOK
<1>4. \A k \in 1 .. N : owners[k] = Owner(left[k - 1], key)
  BY Zenon DEF IsTurns
<1>5. Visit(r, h, q) = IF fresh = {} THEN q ELSE Append(q, r[Least(fresh)].node)
  BY Zenon DEF Visit
<1>6. \A d, p : d \in 0 .. N /\ d <= n /\ p = SubSeq(owners, 1, d) /\ (d = n \/ PassedBy(r, key, i, left[d]))
        => Collected(r, key, n, left, i, p)
  BY Zenon DEF Collected
<1> HIDE DEF N, owners
<1>7. q \in Seq(Nodes) /\ Len(q) = c /\ DOMAIN q = 1 .. c /\ \A k \in 1 .. c : q[k] = owners[k]
  BY <1>1, <1>2, Prefix, Zenon
<1>8. CASE c = n
  <2>1. Len(q) >= n
    BY <1>2, <1>7, <1>8
  <2>2. Met(r, key, n, i, q) = q
    BY <2>1, Zenon DEF Met
  <2> QED BY <1>2, <1>6, <1>8, <2>2, Zenon
<1>9. CASE c # n
  <2>1. ~(Len(q) >= n) /\ c + 1 <= n
    BY <1>1, <1>2, <1>7, <1>9
  <2>2. Met(r, key, n, i, q) = Visit(r, h, q)
    BY <2>1, Zenon DEF Met
  <2>3. \A j \in 1 .. i - 1 : \A x \in DOMAIN r :
          r[x].hash = At(r, key, j) => r[x].node \notin Members(left[c])
    BY <1>2, <1>9, Zenon DEF PassedBy
  <2>4. \A x \in DOMAIN r : (\A k \in DOMAIN q : q[k] # r[x].node) <=> r[x].node \in Members(left[c])
    <3> SUFFICES ASSUME NEW x \in DOMAIN r
                 PROVE  (\A k \in 1 .. c : q[k] # r[x].node) <=> r[x].node \in Members(left[c])
      BY <1>7, Zenon
    <3>1. r[x].node \in Members(r)
      BY Zenon DEF Members
    <3>2. Members(left[c]) = Members(r) \ {owners[j] : j \in 1 .. c}
      BY <1>3, Zenon
    <3> QED BY <1>7, <3>1, <3>2, Zenon
  <2>5. \A j : j \in 1 .. i <=> j \in 1 .. i - 1 \/ j = i
    BY <1>1
  <2>6. CASE fresh = {}
    <3>1. Met(r, key, n, i, q) = q
      BY <1>5, <2>2, <2>6, Zenon
    <3>2. \A x \in DOMAIN r : r[x].hash = At(r, key, i) => r[x].node \notin Members(left[c])
      BY <2>4, <2>6, Zenon
    <3>3. PassedBy(r, key, i, left[c])
      BY <2>3, <2>5, <3>2, Zenon DEF PassedBy
    <3> QED BY <1>2, <1>6, <3>1, <3>3, Zenon
  <2>7. CASE fresh # {}
    <3>1. fresh \in SUBSET Nat
      BY <1>1
    <3>2. PICK x \in fresh : x = Least(fresh)
      BY <2>7, <3>1, LeastExists, Zenon
    <3>3. x \in DOMAIN r /\ r[x].hash = h /\ r[x].node \in Members(left[c])
      BY <2>4, Zenon
    <3>4. Met(r, key, n, i, q) = Append(q, r[x].node)
      BY <1>5, <2>2, <2>7, <3>2, Zenon
    <3> HIDE DEF fresh
    <3>5. RingOK(left[c]) /\ Cardinality(Members(left[c])) = N - c /\ Members(left[c]) \subseteq Members(r)
      BY <1>3, Zenon
    <3>6. c + 1 \in 1 .. N /\ c + 1 \in 0 .. N /\ c < N /\ (c + 1) - 1 = c
      <4>1. left[c] \in Seq(Entry)
        BY <3>5, Zenon DEF RingOK
      <4>2. N - c # 0
        BY <3>3, <3>5, <4>1, MembersFinite, FS_EmptySet, Zenon
      <4> QED BY <1>1, <4>2
    <3>7. Owner(left[c], key) = r[x].node
      <4>1. PassedBy(r, key, i - 1, left[c])
        BY <1>2, <1>9, Zenon
      <4>2. PICK p : p = left[c]
        OBVIOUS
      <4> QED BY <3>3, <3>5, <4>1, <4>2, NextOwner, Zenon
    <3>8. owners[c + 1] = r[x].node
      BY <1>4, <3>6, <3>7, Zenon
    <3>9. SubSeq(owners, 1, c + 1) = Append(q, r[x].node)
      BY <1>1, <1>2, <3>6, <3>8, Prefix, Zenon
    <3>10. Members(left[c + 1]) \subseteq Members(left[c]) \ {r[x].node}
      <4>1. \A j \in 1 .. c : j \in 1 .. c + 1
        BY <1>1
      <4>2. Members(left[c]) = Members(r) \ {owners[j] : j \in 1 .. c}
        BY <1>3, Zenon
      <4>3. Members(left[c + 1]) = Members(r) \ {owners[j] : j \in 1 .. c + 1}
        BY <1>3, <3>6, Zenon
      <4>4. c + 1 \in 1 .. c + 1
        BY <1>1
      <4> QED BY <3>8, <4>1, <4>2, <4>3, <4>4, Zenon
    <3>11. ASSUME NEW j \in 1 .. i, NEW y \in DOMAIN r, r[y].hash = At(r, key, j)
           PROVE  r[y].node \notin Members(left[c + 1])
      <4>1. CASE j \in 1 .. i - 1
        BY <2>3, <3>10, <3>11, <4>1, Zenon
      <4>2. CASE j = i
        <5>1. r[y].node = r[x].node
          BY <3>3, <3>11, <4>2, OneNodePerHash, Zenon
        <5> QED BY <3>10, <5>1, Zenon
      <4> QED BY <2>5, <4>1, <4>2, Zenon
    <3>12. PassedBy(r, key, i, left[c + 1])
      BY <3>11, Zenon DEF PassedBy
    <3> QED BY <1>6, <2>1, <3>4, <3>6, <3>9, <3>12, Zenon
  <2> QED BY <2>6, <2>7, Zenon
<1> QED BY <1>8, <1>9, Zenon

(* get_n names the owners a title has in turn. *)
LEMMA GetNIsOwners ==
  ASSUME DistinctPositions, NEW r, RingOK(r), NEW key \in Nat, NEW n \in Nat
  PROVE  GetN(r, key, n) = SubSeq(OwnersInTurn(r, key), 1,
           IF n < Len(OwnersInTurn(r, key)) THEN n ELSE Len(OwnersInTurn(r, key)))
<1> DEFINE N == Cardinality(Members(r))
           owners == OwnersInTurn(r, key)
           L == Len(r)
<1>1. r \in Seq(Entry) /\ N \in Nat /\ owners \in Seq(Nodes) /\ Len(owners) = N
  BY MembersFinite, OwnersAreNodes, Zenon DEF RingOK
<1>2. PICK left : IsTurns(r, key, left)
  BY TurnsExist, Zenon
<1>3. PICK walk : IsWalk(r, key, n, walk)
  BY <1>1, WalkExists, Zenon
<1>4. /\ walk[0] = << >> /\ GetN(r, key, n) = walk[L]
      /\ \A i \in 1 .. L : walk[i] = Met(r, key, n, i, walk[i - 1])
  BY <1>3, Zenon DEF IsWalk
<1> DEFINE V == [i \in 0 .. L |-> {q \in {walk[i]} : Collected(r, key, n, left, i, q)}]
<1>5. L \in Nat /\ 0 \in 0 .. L /\ L \in 0 .. L /\ 0 \in 0 .. N /\ 0 <= n /\ \A j : j \notin 1 .. 0
  BY <1>1
<1>6. Collected(r, key, n, left, 0, walk[0])
  <2>1. SubSeq(owners, 1, 0) = << >>
    BY <1>1
  <2> QED BY <1>4, <1>5, <2>1, Zenon DEF Collected, PassedBy
<1>7. ASSUME NEW i \in 1 .. L, walk[i - 1] \in V[i - 1] PROVE walk[i] \in V[i]
  <2>1. i \in 0 .. L /\ i - 1 \in 0 .. L
    BY <1>5
  <2>2. Collected(r, key, n, left, i - 1, walk[i - 1])
    BY <1>7, <2>1, Zenon
  <2>3. Collected(r, key, n, left, i, Met(r, key, n, i, walk[i - 1]))
    BY <1>2, <2>2, WalkStep, Zenon
  <2> QED BY <1>4, <2>1, <2>3, Zenon
<1>8. walk[0] \in V[0]
  BY <1>5, <1>6, Zenon
<1>9. \A i \in 0 .. L : walk[i] \in V[i]
  <2> HIDE DEF V, L
  <2> QED BY <1>5, <1>7, <1>8, Along, Zenon
<1>10. Collected(r, key, n, left, L, GetN(r, key, n))
  BY <1>4, <1>5, <1>9, Zenon
<1>11. PICK c \in 0 .. N :
         /\ c <= n
         /\ GetN(r, key, n) = SubSeq(owners, 1, c)
         /\ c = n \/ PassedBy(r, key, L, left[c])
  BY <1>10, Zenon DEF Collected
<1>12. c = n \/ c = N
  <2> SUFFICES ASSUME c # n PROVE c = N
    BY Zenon
  <2>1. /\ RingOK(left[c]) /\ Cardinality(Members(left[c])) = N - c
        /\ Members(left[c]) = Members(r) \ {owners[j] : j \in 1 .. c}
    <3>1. TurnOK(r, key, c, left[c])
      BY <1>2, TurnsKeep, Zenon
    <3> QED BY <3>1, Zenon DEF TurnOK
  <2>2. Members(left[c]) = {}
    <3> SUFFICES ASSUME NEW m \in Members(left[c]) PROVE FALSE
      BY Zenon
    <3>1. m \in Members(r)
      BY <2>1, Zenon
    <3>2. PICK x \in DOMAIN r : r[x].node = m
      BY <3>1, Zenon DEF Members
    <3>3. r[x].hash \in Hashes(r) /\ L # 0
      <4>1. L # 0
        BY <1>1
      <4> QED BY <4>1, Zenon DEF Hashes
    <3>4. PICK j \in 1 .. L : At(r, key, j) = r[x].hash
      BY <1>1, <3>3, WalkVisitsAll, Zenon
    <3> QED BY <1>11, <3>2, <3>4, Zenon DEF PassedBy
  <2>3. N - c = 0
    BY <2>1, <2>2, FS_EmptySet, Zenon
  <2> QED BY <1>1, <2>3
<1>13. c = IF n < N THEN n ELSE N
  BY <1>1, <1>11, <1>12
<1> QED BY <1>1, <1>11, <1>13, Zenon

(* Every ring that holds the virtual nodes of its members agrees with its  *)
(* imported copies and with get_n on the owners of every title.            *)
LEMMA RingAgrees ==
  ASSUME DistinctPositions, NEW r, RingOK(r), NEW key \in Nat
  PROVE  Agrees(r, key)
<1> DEFINE N == Cardinality(Members(r))
           owners == OwnersInTurn(r, key)
<1>1. N \in Nat /\ Len(owners) = N
  BY MembersFinite, OwnersAreNodes, Zenon DEF RingOK
<1>2. ASSUME NEW order \in Bijection(1 .. N, Members(r))
      PROVE  GetByHash(ImportState(order), key) = GetByHash(r, key)
  <2>1. order \in [1 .. N -> Members(r)] /\ \A m \in Members(r) : \E i \in 1 .. N : order[i] = m
    BY Zenon DEF Bijection, Injection, Surjection
  <2>2. Members(r) \subseteq Nodes
    BY MembersAreNodes, Zenon DEF RingOK
  <2>3. order \in Seq(Nodes)
    <3>1. order \in [1 .. N -> Nodes]
      BY <2>1, <2>2, Zenon
    <3> HIDE DEF N
    <3> QED BY <1>1, <3>1
  <2>4. Range(order) = Members(r) /\ DOMAIN order = 1 .. N
    BY <2>1, Zenon DEF Range
  <2>5. \A i \in DOMAIN order : Positions[order[i]] # << >>
    BY <2>1, <2>4, MemberHasPosition, Zenon
  <2>6. RingOK(ImportState(order)) /\ Members(ImportState(order)) = Members(r)
    BY <2>3, <2>4, <2>5, ImportedRing, Zenon
  <2> QED BY <2>6, SameOwner, Zenon
<1>3. ASSUME NEW n \in 0 .. Len(owners) + 1
      PROVE  GetN(r, key, n) = SubSeq(owners, 1, IF n < Len(owners) THEN n ELSE Len(owners))
  <2>1. n \in Nat
    BY <1>1
  <2> QED BY <2>1, GetNIsOwners, Zenon
<1> QED BY <1>2, <1>3, Zenon DEF Agrees

-----------------------------------------------------------------------------
(* A node that joins takes titles over, and no title moves between others. *)

LEMMA SuccessorFirst ==
  ASSUME NEW hs \in SUBSET Nat, NEW key \in Nat, NEW g \in hs
  PROVE  Earlier(key, Successor(hs, key), g)
<1> DEFINE above == {x \in hs : x >= key}
<1>1. CASE above = {}
  <2>1. Successor(hs, key) = Least(hs)
    BY <1>1, Zenon DEF Successor
  <2>2. PICK h \in hs : h = Successor(hs, key) /\ h <= g
    BY <2>1, LeastExists, Zenon
  <2>3. ~(h >= key) /\ ~(g >= key) /\ h \in Nat /\ g \in Nat
    BY <1>1, Zenon
  <2>4. Earlier(key, h, g)
    BY <2>2, <2>3 DEF Earlier
  <2> QED BY <2>2, <2>4, Zenon
<1>2. CASE above # {}
  <2>1. Successor(hs, key) = Least(above) /\ above \in SUBSET Nat
    BY <1>2, Zenon DEF Successor
  <2>2. Least(above) \in above /\ \A k \in above : Least(above) <= k
    BY <1>2, <2>1, LeastExists, Zenon
  <2>3. PICK h \in hs : h = Successor(hs, key) /\ h >= key /\ (g >= key => h <= g)
    BY <2>1, <2>2, Zenon
  <2>4. Earlier(key, h, g)
    <3>1. h \in Nat /\ g \in Nat
      BY Zenon
    <3> QED BY <2>3, <3>1 DEF Earlier
  <2> QED BY <2>3, <2>4, Zenon
<1> QED BY <1>1, <1>2, Zenon

LEMMA JoinMoves ==
  ASSUME DistinctPositions, NEW r, RingOK(r), NEW n \in Nodes, NEW key \in Nat
  PROVE  \/ GetByHash(AddNode(r, n), key) = GetByHash(r, key)
         \/ n \in Members(AddNode(r, n)) \ Members(r) /\ GetByHash(AddNode(r, n), key) = {n}
<1>1. PICK s : s = AddNode(r, n)
  OBVIOUS
<1>2. RingOK(s) /\ r \in Seq(Entry) /\ s \in Seq(Entry)
  <2>1. RingOK(s)
    BY <1>1, AddNodeOK, Zenon
  <2> QED BY <2>1, Zenon DEF RingOK
<1>3. CASE n \in Members(r) \/ Members(s) = Members(r)
  BY <1>1, <1>2, <1>3, SameOwner, Zenon DEF AddNode
<1>4. CASE n \notin Members(r) /\ Members(s) # Members(r)
  <2>1. Members(s) = Members(r) \cup {n}
    <3>1. Positions[n] # << >>
      <4> SUFFICES ASSUME Positions[n] = << >> PROVE FALSE
        BY Zenon
      <4>1. s = r
        BY <1>1, <1>2, <1>4 DEF AddNode
      <4> QED BY <1>4, <4>1, Zenon
    <3> QED BY <1>1, <1>2, <3>1, AddMembers, Zenon
  <2>2. Hashes(r) \subseteq Hashes(s)
    BY <1>2, <2>1, SameHashes, Zenon
  <2>3. PICK z \in DOMAIN s : s[z].hash = Successor(Hashes(s), key) /\ GetByHash(s, key) = {s[z].node}
    BY <1>2, <2>1, OwnerEntry, Zenon
  <2>4. CASE s[z].node = n
    BY <1>1, <1>4, <2>1, <2>3, <2>4, Zenon
  <2>5. CASE s[z].node # n
    <3>1. s[z].node \in Members(r)
      BY <2>1, <2>5, Zenon DEF Members
    <3>2. PICK p \in DOMAIN Positions[s[z].node] : s[z].hash = Positions[s[z].node][p]
      BY <1>2, Zenon DEF RingOK
    <3>3. PICK y \in DOMAIN r : r[y].hash = Positions[s[z].node][p] /\ r[y].node = s[z].node
      BY <3>1, Zenon DEF RingOK
    <3>4. PICK h \in Hashes(r) : h = Successor(Hashes(s), key) /\ h = r[y].hash
      BY <2>3, <3>2, <3>3, Zenon DEF Hashes
    <3>5. Hashes(r) \in SUBSET Nat /\ Hashes(s) \in SUBSET Nat
      BY <1>2, EntryFields, Zenon DEF Hashes
    <3>6. \A g \in Hashes(r) : Earlier(key, h, g)
      BY <2>2, <3>4, <3>5, SuccessorFirst, Zenon
    <3>7. Successor(Hashes(r), key) = h
      BY <3>5, <3>6, FirstMet, Zenon
    <3>8. Members(r) # {}
      BY <3>1, Zenon
    <3>9. PICK x \in DOMAIN r : r[x].hash = h /\ GetByHash(r, key) = {r[x].node}
      BY <1>2, <3>7, <3>8, OwnerEntry, Zenon
    <3>10. r[x].node = r[y].node
      BY <3>4, <3>9, OneNodePerHash, Zenon
    <3> QED BY <1>1, <2>3, <3>3, <3>9, <3>10, Zenon
  <2> QED BY <2>4, <2>5, Zenon
<1> QED BY <1>3, <1>4, Zenon
=============================================================================
