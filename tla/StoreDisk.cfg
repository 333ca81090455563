SPECIFICATION DiskSpec
CONSTANTS
  Keys = {k, c}
  Chunk = c
  Values <- Bytes2
  Size <- MCSize
  Allowed <- MCAllowed
  Peers = {}
  None = None
  Self = Self
  MaxBytes = 2
  Quotas = {0}
  Threads = {t1, t2}
  NoJob = NoJob
SYMMETRY DiskSymmetry
INVARIANTS DiskSound DiskMirrors
PROPERTY RestartHeals
