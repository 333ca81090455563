--------------------------- MODULE MCRevokeGossip ---------------------------
(* A TLC instance of RevokeGossip: a chain of three nodes. *)
EXTENDS RevokeGossip, TLC

CONSTANTS n1, n2, n3

Chain == (n1 :> {n2}) @@ (n2 :> {n1, n3}) @@ (n3 :> {n2})
=============================================================================
