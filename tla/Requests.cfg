SPECIFICATION FairReqSpec
CONSTANTS
  n1 = n1
  n2 = n2
  a1 = a1
  a2 = a2
  a3 = a3
  b1 = b1
  Nodes = {n1, n2}
  Socks = {s1, s2}
  MaxBreaks = 1
  None = None
  Reqs = {a1, a2, a3, b1}
  Owner <- MCOwner
  Prev <- MCPrev
  Rivals <- MCRivals
  BufFrames = 1
INVARIANT ChannelSound
PROPERTIES  EndsAgree RequestsReturn
CHECK_DEADLOCK FALSE
