----------------------------- MODULE MCCluster -----------------------------
(* Instances of Cluster: a node with a subscriber and one that joins it. *)
EXTENDS Cluster

CONSTANTS node1, node2, m1, m2

(* Two virtual nodes each, interleaved, the ring wrapping around. *)
TwoEach == [n \in Nodes |-> IF n = node1 THEN <<3, 8>> ELSE <<6, 1>>]

(* node2 joins through node1, which has no seeds. *)
StarSeeds == [n \in Nodes |-> IF n = node1 THEN << >> ELSE <<node1>>]

(* One title belongs to node1, one to node2. *)
TwoKeys == [m \in Msgs |-> IF m = m1 THEN 2 ELSE 5]
=============================================================================
