----------------------------- MODULE RouteTable -----------------------------
(***************************************************************************)
(* The consistent-hash ring of crates/rex-cluster/src/hash_ring.rs and the *)
(* part of GlobalRouteTable (route_table.rs) that routes titles: which     *)
(* node a title belongs to, given the nodes in the order they were added.  *)
(*                                                                         *)
(* A ring is the vector of (hash, node) entries in the order of insertion; *)
(* the sorted vector of its hashes is what rebuild_sorted derives from it, *)
(* and is represented by the set of the hashes: binary_search finds the    *)
(* least one that is not below the key.                                    *)
(***************************************************************************)
EXTENDS Integers, Sequences, FiniteSets, Functions

CONSTANTS Nodes,       \* node ids
          Positions    \* Positions[n]: hashes of the virtual nodes of n, in order

ASSUME PositionsAssumption == Positions \in [Nodes -> Seq(Nat)]

Entry == [hash : Nat, node : Nodes]

EmptyRing == << >>

Members(ring) == {ring[i].node : i \in DOMAIN ring}

Hashes(ring) == {ring[i].hash : i \in DOMAIN ring}

(* Present nodes are left alone; the virtual nodes are pushed at the end. *)
AddNode(ring, n) ==
  IF n \in Members(ring) THEN ring
  ELSE ring \o [i \in DOMAIN Positions[n] |-> [hash |-> Positions[n][i], node |-> n]]

RemoveNode(ring, n) ==
  LET left[i \in 0 .. Len(ring)] ==
        IF i = 0 THEN EmptyRing
        ELSE IF ring[i].node = n THEN left[i - 1] ELSE Append(left[i - 1], ring[i])
  IN  left[Len(ring)]

Least(S) == CHOOSE h \in S : \A k \in S : h <= k

(* The ring position a key belongs to: the next one clockwise, or the      *)
(* first of the ring.                                                      *)
Successor(hs, key) ==
  LET above == {h \in hs : h >= key}
  IN  IF above = {} THEN Least(hs) ELSE Least(above)

(* get_by_hash: the first entry of the vector with that hash. *)
NodeAt(ring, h) ==
  ring[Least({i \in DOMAIN ring : ring[i].hash = h})].node

(* Mutant of GetByHash: the hashes are searched in the order of insertion. *)
BugUnsorted(ring, key) ==
  LET above == {i \in DOMAIN ring : ring[i].hash >= key}
  IN  IF ring = EmptyRing THEN {} ELSE {ring[IF above = {} THEN 1 ELSE Least(above)].node}

(* The set holding the answer of get: empty for None. *)
GetByHash(ring, key) ==
  IF ring = EmptyRing THEN {} ELSE {NodeAt(ring, Successor(Hashes(ring), key))}

(* sorted_ring, where a hash that occurs twice stands twice.               *)
SortedRing(ring) ==
  [p \in 1 .. Len(ring) |->
     CHOOSE h \in Hashes(ring) :
       /\ Cardinality({i \in DOMAIN ring : ring[i].hash < h}) < p
       /\ p <= Cardinality({i \in DOMAIN ring : ring[i].hash <= h})]

(* Where get_n starts: the first position not below the key, or the first  *)
(* of the ring.                                                            *)
StartPos(ring, key) ==
  LET sorted == SortedRing(ring)
      above == {p \in DOMAIN sorted : sorted[p] >= key}
  IN  IF above = {} THEN 1 ELSE Least(above)

(* One position of the walk: the first entry with that hash whose node was *)
(* not seen yet.                                                           *)
Visit(ring, h, result) ==
  LET fresh == {i \in DOMAIN ring : /\ ring[i].hash = h
                                    /\ \A k \in DOMAIN result : result[k] # ring[i].node}
  IN  IF fresh = {} THEN result ELSE Append(result, ring[Least(fresh)].node)

(* get_n: the first n nodes met on one walk around the ring, or all.       *)
GetN(ring, key, n) ==
  LET sorted == SortedRing(ring)
      start == StartPos(ring, key)
      walk[i \in 0 .. Len(ring)] ==
        IF i = 0 THEN << >>
        ELSE LET result == walk[i - 1] IN
             IF Len(result) >= n THEN result
             ELSE Visit(ring, sorted[((start + i - 2) % Len(ring)) + 1], result)
  IN  walk[Len(ring)]

(* import_state: the ring is rebuilt from the nodes in the order in which  *)
(* the exported address map was iterated.                                  *)
ImportState(order) ==
  LET add[i \in 0..Len(order)] ==
        IF i = 0 THEN EmptyRing ELSE AddNode(add[i - 1], order[i])
  IN  add[Len(order)]

-----------------------------------------------------------------------------
(* The owners a title has as they leave the ring one by one. *)
Owner(ring, key) == CHOOSE n \in GetByHash(ring, key) : TRUE

OwnersInTurn(ring, key) ==
  LET count == Cardinality(Members(ring))
      left[k \in 0 .. count] ==
        IF k = 0 THEN ring ELSE RemoveNode(left[k - 1], Owner(left[k - 1], key))
  IN  [k \in 1 .. count |-> Owner(left[k - 1], key)]

(* A title with the given hash has the same owner on the ring as on every  *)
(* ring imported from the same nodes, and get_n names the owners it has in *)
(* turn.                                                                   *)
Agrees(ring, key) ==
  LET members == Members(ring)
      owners == OwnersInTurn(ring, key) IN
  /\ \A order \in Bijection(1 .. Cardinality(members), members) :
       GetByHash(ImportState(order), key) = GetByHash(ring, key)
  /\ \A n \in 0 .. Len(owners) + 1 :
       GetN(ring, key, n) = SubSeq(owners, 1, IF n < Len(owners) THEN n ELSE Len(owners))
=============================================================================
