------------------------------ MODULE PeerPair ------------------------------
(***************************************************************************)
(* Two peers that dial each other (core/peer/peer.go): each keeps the      *)
(* connection tables of PeerConnections for the one identity of the other, *)
(* and a socket has an end at each of them.  Closing an end is how the     *)
(* other peer learns of it; besides, the network may break a socket, which *)
(* both ends notice (TCP keepalive, the handshake's deadline).             *)
(***************************************************************************)
EXTENDS Naturals, FiniteSets

CONSTANTS
  Nodes,      \* the two peers
  Socks,      \* sockets; each is dialled once
  MaxBreaks,  \* how many sockets the network may break
  None

ASSUME PairAssumption ==
  /\ \E a, b \in Nodes : a # b /\ Nodes = {a, b}
  /\ None \notin Nodes \cup Socks
  /\ MaxBreaks \in Nat

VARIABLES
  dialedBy,   \* dialedBy[s]: the peer that opened socket s
  end,        \* end[s][n]: the stage of the end of s at peer n
  conn,       \* conn[n]: the registered connection of n to the other peer
  dialing,    \* dialing[n]: n is in EnsureConnected's dial
  broken      \* the sockets the network has broken

pairVars == <<dialedBy, end, conn, dialing, broken>>

Other(n) == CHOOSE m \in Nodes : m # n

\* "none", then "handshake", then "open" (registered) or "closed"; "closing" is
\* an end that is closed but not yet out of the tables.
Ends == {"none", "handshake", "open", "closing", "closed"}

PairInit ==
  /\ dialedBy = [s \in Socks |-> None]
  /\ end = [s \in Socks |-> [n \in Nodes |-> "none"]]
  /\ conn = [n \in Nodes |-> None]
  /\ dialing = [n \in Nodes |-> FALSE]
  /\ broken = {}

\* EnsureConnected when there is no connection and no dial in flight.
Dial(n, s) ==
  /\ conn[n] = None
  /\ ~dialing[n]
  /\ dialedBy[s] = None
  /\ dialing' = [dialing EXCEPT ![n] = TRUE]
  /\ dialedBy' = [dialedBy EXCEPT ![s] = n]
  /\ end' = [end EXCEPT ![s] = [m \in Nodes |-> "handshake"]]
  /\ UNCHANGED <<conn, broken>>

\* The network fails under a socket that is in use.
Break(s) ==
  /\ dialedBy[s] # None
  /\ s \notin broken
  /\ Cardinality(broken) < MaxBreaks
  /\ broken' = broken \cup {s}
  /\ UNCHANGED <<dialedBy, end, conn, dialing>>

\* The handshake at n is over: the responder is done once it has replied, the
\* initiator once it has read that reply.
HandshakeOver(n, s) ==
  /\ end[s][n] = "handshake"
  /\ s \notin broken
  /\ n = dialedBy[s] => end[s][Other(n)] # "handshake"
  /\ dialing' = IF n = dialedBy[s] THEN [dialing EXCEPT ![n] = FALSE] ELSE dialing

\* The handshake fails or runs into its deadline.
HandshakeFails(n, s) ==
  /\ end[s][n] = "handshake"
  /\ s \in broken
  /\ dialing' = IF n = dialedBy[s] THEN [dialing EXCEPT ![n] = FALSE] ELSE dialing
  /\ end' = [end EXCEPT ![s][n] = "closed"]
  /\ UNCHANGED <<dialedBy, conn, broken>>

\* registerConn at n: the first socket to a peer is kept, a later one is closed.
Register(n, s) ==
  /\ HandshakeOver(n, s)
  /\ conn[n] = None
  /\ conn' = [conn EXCEPT ![n] = s]
  /\ end' = [end EXCEPT ![s][n] = "open"]
  /\ UNCHANGED <<dialedBy, broken>>

Dedup(n, s) ==
  /\ HandshakeOver(n, s)
  /\ conn[n] # None
  /\ end' = [end EXCEPT ![s][n] = "closed"]
  /\ UNCHANGED <<dialedBy, conn, broken>>

\* Reads and writes on s at n fail.
Dead(n, s) == end[s][Other(n)] \in {"closing", "closed"} \/ s \in broken

\* The hello cannot be written or the read loop reads EOF.
SeeEOF(n, s) ==
  /\ end[s][n] = "open"
  /\ Dead(n, s)
  /\ end' = [end EXCEPT ![s][n] = "closing"]
  /\ UNCHANGED <<dialedBy, conn, dialing, broken>>

\* Mutant: the entry stays when the read loop ends.
removeConnKeepsEntry(n, s) ==
  /\ end[s][n] = "closing"
  /\ end' = [end EXCEPT ![s][n] = "closed"]
  /\ UNCHANGED <<conn, dialedBy, dialing, broken>>

removeConn(n, s) ==
  /\ end[s][n] = "closing"
  /\ end' = [end EXCEPT ![s][n] = "closed"]
  /\ conn' = [conn EXCEPT ![n] = IF @ = s THEN None ELSE @]
  /\ UNCHANGED <<dialedBy, dialing, broken>>

EndStep(n, s) ==
  \/ Register(n, s) \/ Dedup(n, s) \/ HandshakeFails(n, s)
  \/ SeeEOF(n, s) \/ removeConn(n, s)

PairNext ==
  \/ \E n \in Nodes, s \in Socks : Dial(n, s) \/ EndStep(n, s)
  \/ \E s \in Socks : Break(s)

PairSpec == PairInit /\ [][PairNext]_pairVars

\* Every handshake, read loop and cleanup is a goroutine of its own.
FairPairSpec ==
  PairSpec /\ \A n \in Nodes, s \in Socks : WF_pairVars(EndStep(n, s))
-----------------------------------------------------------------------------
\* Shapes; and a peer is dialling only while a socket of its own is in handshake.
PairTypeOK ==
  /\ dialedBy \in [Socks -> Nodes \cup {None}]
  /\ end \in [Socks -> [Nodes -> Ends]]
  /\ conn \in [Nodes -> Socks \cup {None}]
  /\ dialing \in [Nodes -> BOOLEAN]
  /\ broken \in SUBSET Socks
  /\ \A n \in Nodes : dialing[n] =>
       \E s \in Socks : dialedBy[s] = n /\ end[s][n] = "handshake"

\* No dial, handshake or cleanup is in progress and no close is unnoticed.
Quiet ==
  \A n \in Nodes, s \in Socks :
    /\ end[s][n] \notin {"handshake", "closing"}
    /\ end[s][n] = "open" => ~Dead(n, s)

\* No socket leaks: a socket that is open at a peer is the one in that peer's
\* tables, so the dedup of two crossing dials never leaves a spare socket.
NoSpareSocket ==
  \A n \in Nodes, s \in Socks : end[s][n] \in {"open", "closing"} => conn[n] = s

\* The shapes above, and no spare socket.
PairSound == PairTypeOK /\ NoSpareSocket

\* What keeps it: a connection in the tables has an end that is not closed, and a
\* socket nobody has dialled has no ends.
PairInv ==
  /\ PairSound
  /\ \A n \in Nodes : conn[n] # None => end[conn[n]][n] \in {"open", "closing"}
  /\ \A s \in Socks, n \in Nodes : dialedBy[s] = None => end[s][n] = "none"

\* However the dials cross, the two peers end up agreeing: always again either
\* both use the same socket or neither has a connection; no half-open connection
\* survives the read loops.
EndsAgree == []<>(\A n, m \in Nodes : conn[n] = conn[m])

\* registerConn: "On dedup, the new address is registered as an alias of the
\* existing conn, so future Send(addr, ...) on either address Just Works": once
\* the dials have returned and nothing is in progress, the peers are connected.
DialedPeersConnected ==
  Quiet /\ (\E s \in Socks : dialedBy[s] # None) => \A n \in Nodes : conn[n] # None
=============================================================================
