SPECIFICATION RelaySpec
CONSTANTS
  Peers = {p1}
  Sessions = {s1}
  Dials = {d1}
  OutCap = 1
  None = None
INVARIANT DialReplied
CHECK_DEADLOCK FALSE
