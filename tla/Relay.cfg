SPECIFICATION FairRelaySpec
CONSTANTS
  Peers = {p1}
  Sessions = {s1, s2}
  Dials = {d1, d2}
  OutCap = 1
  None = None
INVARIANTS RelaySound TunnelClosedWithDial
PROPERTY DialsEnd
CHECK_DEADLOCK FALSE
