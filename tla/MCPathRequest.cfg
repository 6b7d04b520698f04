SPECIFICATION FairSpec
CONSTANTS
  O = O
  A = A
  B = B
  C = C
  Nodes = {O, A, B, C}
  Owner = O
  TransportNodes = {A, B}
  Edges <- ChainEdges
  Mode <- AccessPoints
  NoTransport = NoTransport
  Anyone = Anyone
  LOCAL_REBROADCASTS_MAX = 2
  MAX_RANDOM_BLOBS = 2
  Times = {1, 2}
  MaxEmissions = 2
  Budget <- AnythingBudget
PROPERTY RequestResolves
CHECK_DEADLOCK FALSE
