----------------------------- MODULE MCRequests -----------------------------
(* A TLC instance of Requests: one peer makes a request and repeats it if it *)
(* fails while the other peer makes one; or the first peer makes two at the  *)
(* same time.                                                                *)
EXTENDS Requests

CONSTANTS n1, n2, a1, a2, a3, b1

MCOwner == [q \in Reqs |-> IF q = b1 THEN n2 ELSE n1]
MCPrev == [q \in Reqs |-> IF q = a2 THEN a1 ELSE None]
MCRivals == {{a3, a2}, {a3, b1}}
=============================================================================
