SPECIFICATION FairGossipSpec
CONSTANTS
  n1 = n1
  n2 = n2
  n3 = n3
  Nodes = {n1, n2, n3}
  Links <- Chain
  Trusting = {n2, n3}
  Revokes = {r1, r2}
  MaxAge = 1
  Skew = 1
  SeenCap = 1
  MaxTime = 4
  Never = Never
INVARIANTS GossipSound
PROPERTY FloodReaches
CHECK_DEADLOCK FALSE
