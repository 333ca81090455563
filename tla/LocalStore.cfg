SPECIFICATION PublishSpec
CONSTANTS
  Keys <- MCKeys
  Chunks = {c}
  Record = k1
  SmallRecord = k2
  Values = {0, 1, 2, 3}
  Size <- MCSize
  Allowed <- MCAllowed
  Peers = {p1}
  None = None
  Self = Self
  MaxBytes = 2
  Quotas = {0, 1}
  Sites <- MCSites
  NoSite = NoSite
  Listed <- MCListed
  Watched <- MCWatched
  Traffic = {c}
INVARIANTS StoreSound SiteSound
PROPERTIES QuotaRespected EvictionMinimal SiteSpreads
CHECK_DEADLOCK FALSE
