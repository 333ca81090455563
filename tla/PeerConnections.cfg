SPECIFICATION PeerSpec
CONSTANTS
  IDs = {i1, i2}
  Addrs = {a1, a2}
  Relayed = {a2}
  Conns = {c0, c1, c2, c3}
  Inbound = {c0, c1}
  Callers = {t1, t2}
  MaxConns = 2
  None = None
SYMMETRY PeerSymmetry
INVARIANTS PeerSound AliasesCanonical OneDialPerAddress WaitersWillWake
PROPERTY RemovalIsLocal
