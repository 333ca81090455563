----------------------------- MODULE TokenBucket -----------------------------
(***************************************************************************)
(* What a per-client rate limit promises: every client owns a bucket that  *)
(* fills by one unit a tick up to its capacity, a granted request takes    *)
(* Cost units out of it, and a request is refused only while the bucket    *)
(* holds less than Cost plus a slack.                                      *)
(***************************************************************************)
EXTENDS Integers

CONSTANTS Clients, Visits, Capacity, Cost, Slack

VARIABLES
  level,    \* the bucket of every client
  verdict   \* what became of every request

bucketVars == <<level, verdict>>

BucketInit ==
  /\ level = [c \in Clients |-> Capacity]
  /\ verdict = [v \in Visits |-> "none"]

Fill ==
  /\ level' = [c \in Clients |-> IF level[c] < Capacity THEN level[c] + 1 ELSE Capacity]
  /\ UNCHANGED verdict

Grant(c, v) ==
  /\ verdict[v] = "none"
  /\ level[c] >= Cost
  /\ level' = [level EXCEPT ![c] = @ - Cost]
  /\ verdict' = [verdict EXCEPT ![v] = "granted"]

Refuse(c, v) ==
  /\ verdict[v] = "none"
  /\ level[c] < Cost + Slack
  /\ verdict' = [verdict EXCEPT ![v] = "refused"]
  /\ UNCHANGED level

\* The request is over; its slot may be used for another.
Over(v) ==
  /\ verdict[v] # "none"
  /\ verdict' = [verdict EXCEPT ![v] = "none"]
  /\ UNCHANGED level

BucketNext ==
  \/ Fill
  \/ \E c \in Clients, v \in Visits : Grant(c, v) \/ Refuse(c, v)
  \/ \E v \in Visits : Over(v)

BucketSpec == BucketInit /\ [][BucketNext]_bucketVars
=============================================================================
