---------------------------- MODULE RevokeGossip ----------------------------
(***************************************************************************)
(* The flooding of signed revocations (core/dht/revoke.go).  A node that   *)
(* signs a revocation applies it and broadcasts it over its connections; a *)
(* node that trusts the signer applies and re-broadcasts what it has not   *)
(* seen before.  What was broadcast may be delivered late and any number   *)
(* of times: Broadcast sends once per address of a connection, peers echo  *)
(* what they get, and links are slow.                                      *)
(***************************************************************************)
EXTENDS Naturals, FiniteSets

CONSTANTS
  Nodes,
  Links,      \* Links[n]: the nodes n has a connection to
  Trusting,   \* the nodes that trust the signer of the revocations
  Revokes,    \* bound on the revocations signed
  MaxAge,     \* MaxRevokeAge
  Skew,       \* MaxRevokeFutureSkew
  SeenCap,    \* size of revokeSeen above which it is pruned (1024)
  MaxTime,    \* bound on the clock
  Never

ASSUME GossipAssumption ==
  /\ MaxAge \in Nat /\ Skew \in Nat /\ Skew <= MaxAge
  /\ SeenCap \in Nat /\ MaxTime \in Nat
  /\ Trusting \subseteq Nodes /\ Links \in [Nodes -> SUBSET Nodes]
  /\ Never \notin Nat

VARIABLES
  now,
  stamp,     \* stamp[r]: the timestamp in r, Never before it is signed
  sent,      \* sent[n]: the revocations broadcast to n
  seen,      \* seen[n][r]: when n accepted r (revokeSeen), Never if not in the map
  accepted,  \* accepted[n]: what handleRevoke let through and has not yet applied
  handled,   \* handled[n][r]: how often handleRevoke applied r on n
  applied    \* applied[n]: the revocations in force on n

gossipVars == <<now, stamp, sent, seen, accepted, handled, applied>>

GossipInit ==
  /\ now = 0
  /\ stamp = [r \in Revokes |-> Never]
  /\ sent = [n \in Nodes |-> {}]
  /\ seen = [n \in Nodes |-> [r \in Revokes |-> Never]]
  /\ accepted = [n \in Nodes |-> {}]
  /\ handled = [n \in Nodes |-> [r \in Revokes |-> 0]]
  /\ applied = [n \in Nodes |-> {}]

\* gossipRevoke: to every live connection, the one it came from included.
gossipRevoke(n, r) ==
  sent' = [m \in Nodes |-> IF m \in Links[n] THEN sent[m] \cup {r} ELSE sent[m]]

\* SignRevoke and BroadcastRevoke; the signer's clock may be ahead by up to Skew.
BroadcastRevoke(n, r, ahead) ==
  /\ stamp[r] = Never
  /\ stamp' = [stamp EXCEPT ![r] = now + ahead]
  /\ applied' = [applied EXCEPT ![n] = @ \cup {r}]
  /\ gossipRevoke(n, r)
  /\ UNCHANGED <<now, seen, accepted, handled>>

\* Mutant: entries are forgotten as soon as they are older than MaxAge.
PrunedEarly(map) ==
  LET size == Cardinality({r \in Revokes : map[r] # Never})
  IN  IF size > SeenCap
      THEN [r \in Revokes |-> IF map[r] # Never /\ map[r] + MaxAge < now THEN Never ELSE map[r]]
      ELSE map

\* The lazy eviction of old entries from a map that has grown too large.
Pruned(map) ==
  LET size == Cardinality({r \in Revokes : map[r] # Never})
  IN  IF size > SeenCap
      THEN [r \in Revokes |->
              IF map[r] # Never /\ map[r] + 2 * MaxAge < now THEN Never ELSE map[r]]
      ELSE map

\* handleRevoke up to the end of its locked section: trust, age, duplicate.
handleRevoke(n, r) ==
  /\ r \in sent[n] /\ n \in Trusting
  /\ stamp[r] + MaxAge >= now /\ stamp[r] <= now + Skew
  /\ seen[n][r] = Never
  /\ seen' = [seen EXCEPT ![n] = Pruned([@ EXCEPT ![r] = now])]
  /\ accepted' = [accepted EXCEPT ![n] = @ \cup {r}]
  /\ UNCHANGED <<now, stamp, sent, handled, applied>>

\* Mutant: a received revocation is applied but not passed on.
applyRevokeKept(n, r) ==
  /\ r \in accepted[n]
  /\ accepted' = [accepted EXCEPT ![n] = @ \ {r}]
  /\ handled' = [handled EXCEPT ![n][r] = @ + 1]
  /\ applied' = [applied EXCEPT ![n] = @ \cup {r}]
  /\ UNCHANGED <<now, stamp, sent, seen>>

\* The rest of handleRevoke: applyRevoke and gossipRevoke.
applyRevoke(n, r) ==
  /\ r \in accepted[n]
  /\ accepted' = [accepted EXCEPT ![n] = @ \ {r}]
  /\ handled' = [handled EXCEPT ![n][r] = @ + 1]
  /\ applied' = [applied EXCEPT ![n] = @ \cup {r}]
  /\ gossipRevoke(n, r)
  /\ UNCHANGED <<now, stamp, seen>>

Tick ==
  /\ now < MaxTime
  /\ now' = now + 1
  /\ UNCHANGED <<stamp, sent, seen, accepted, handled, applied>>

GossipNext ==
  \/ \E n \in Nodes, r \in Revokes :
       \/ \E ahead \in {0, Skew} : BroadcastRevoke(n, r, ahead)
       \/ handleRevoke(n, r)
       \/ applyRevoke(n, r)
  \/ Tick

GossipSpec == GossipInit /\ [][GossipNext]_gossipVars

\* Messages on a connection arrive and handlers run.
FairGossipSpec ==
  /\ GossipSpec
  /\ \A n \in Nodes, r \in Revokes :
       WF_gossipVars(handleRevoke(n, r)) /\ WF_gossipVars(applyRevoke(n, r))
-----------------------------------------------------------------------------
\* Shapes; and what is on its way to a node has been signed.
GossipTypeOK ==
  /\ now \in 0..MaxTime
  /\ stamp \in [Revokes -> (0..MaxTime + Skew) \cup {Never}]
  /\ sent \in [Nodes -> SUBSET Revokes]
  /\ seen \in [Nodes -> [Revokes -> (0..MaxTime) \cup {Never}]]
  /\ accepted \in [Nodes -> SUBSET Revokes]
  /\ handled \in [Nodes -> [Revokes -> Nat]]
  /\ applied \in [Nodes -> SUBSET Revokes]
  /\ \A n \in Nodes, r \in Revokes : r \in sent[n] => stamp[r] # Never

\* "drops duplicates via the revokeSeen dedup, so the flood terminates": no node
\* lets the same revocation through twice, at whatever time it is delivered again
\* and although revokeSeen is pruned; so it is re-broadcast at most once per node.
HandledOnce ==
  \A n \in Nodes, r \in Revokes :
    handled[n][r] + (IF r \in accepted[n] THEN 1 ELSE 0) <= 1

\* The flood is sound: well shaped, only signed revocations are on their way, and
\* handleRevoke lets none through twice.
GossipSound == GossipTypeOK /\ HandledOnce

\* revokeSeen remembers when a revocation was accepted, at most Skew before its
\* timestamp; and what was let through is remembered until it is too old to be let
\* through again.
SeenInTime ==
  \A n \in Nodes, r \in Revokes :
    seen[n][r] # Never => stamp[r] # Never /\ stamp[r] <= seen[n][r] + Skew

RememberedWhileFresh ==
  \A n \in Nodes, r \in Revokes :
    r \in accepted[n] \/ handled[n][r] > 0 =>
      /\ stamp[r] # Never
      /\ seen[n][r] # Never \/ stamp[r] + MaxAge < now

\* The inductive invariant of the flood.
GossipInv == GossipSound /\ SeenInTime /\ RememberedWhileFresh

\* "propagate across the network": a revocation in force on one node comes into
\* force on every trusting node connected to it, and from there on everyone a
\* chain of trusting nodes reaches, unless it gets too old on the way.
FloodReaches ==
  \A n \in Nodes, r \in Revokes :
    r \in applied[n] ~> \A m \in Links[n] \cap Trusting :
                          \/ r \in applied[m]
                          \/ stamp[r] # Never /\ stamp[r] + MaxAge < now
=============================================================================
