--------------------------- MODULE MCRoutingTable ---------------------------
(* A TLC instance of RoutingTable: all nodes but one share a bucket.         *)
EXTENDS RoutingTable, TLC

CONSTANT Far   \* the one node of the other bucket

MCCPL == [n \in Nodes |-> IF n = Far THEN 0 ELSE 1]

\* Nodes of one bucket, addresses and pings are interchangeable.
TableSymmetry == Permutations(Nodes \ {Far}) \cup Permutations(Addrs) \cup Permutations(Slots)
=============================================================================
