SPECIFICATION FairSpec
CONSTANTS
  Destinations = {d1, d2, d3}
  Hops = {0, 1, 2}
  Waits = {1, 3}
  MaxQueued = 2
  Samples = 5
  Decay = 6
  Hold = 5
  NewThreshold = 1
  Threshold = 2
  CalmGap = 3
  Addresses = {a1, a2}
  InitialBackoff = 1
  MaxBackoff = 3
  BlockExpiry = 4
  CleanupInterval = 2
  BlockThreshold = 2
  Cap = 6
  i1 = i1
  s1 = s1
  Identities = {i1, s1}
  Local = me
  SourceList <- Sources
  RpcClients = {c1}
  MaxPolls = 2
INVARIANTS NothingStranded Paced NoHastyAccept BanHolds
PROPERTIES BurstEnds PathSearchEnds
