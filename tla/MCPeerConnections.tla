------------------------- MODULE MCPeerConnections --------------------------
(* TLC instances of PeerConnections.                                         *)
EXTENDS PeerConnections, TLC

\* Identities, connections of one kind, and callers are interchangeable.
PeerSymmetry == Permutations(IDs) \cup Permutations(Inbound)
                  \cup Permutations(Conns \ Inbound) \cup Permutations(Callers)
=============================================================================
