SPECIFICATION FairDaemonSpec
CONSTANTS
  Configurations <- MCConfigurations
  b1 = b1
  b2 = b2
  BootPeers = {b1, b2}
  BootOrder <- MCBoot
  MaxBootBackoff = 2
  MaxBackoff = 60
  Clients = {c1}
  Visits = {v1, v2}
  Cost = 2
  Burst = 3
  SweepEvery = 1
  IdleTTL = 5
  MaxDelay = 1
  MaxTime = 7
  MaxConcurrent = 1
  Files <- MCFiles
  ChunkSize = 3
  BufSize = 2
  SniffSize = 1
  Names = {"site"}
  Canonical = "site"
  Packets <- MCPackets
  TLD <- MCTLD
  Lower <- MCLower
  MaxName = 3
  MaxKeys = 4
INVARIANTS DaemonSound StoppedInOrder ServedExact 
PROPERTIES LimitKept ShutdownEnds Rejoins
CHECK_DEADLOCK FALSE
