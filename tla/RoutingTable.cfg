SPECIFICATION TableSpec
CONSTANTS
  Nodes = {n0, n1, n2, n3}
  Far = n0
  Addrs = {a1, a2}
  Buckets = {0, 1}
  CPL <- MCCPL
  K = 2
  Slots = {s1}
  NoPing = NoPing
SYMMETRY TableSymmetry
INVARIANTS TableSound HintsFirst
PROPERTY AddressesKept
