SPECIFICATION FairSpec
CONSTANTS
  O = O
  A = A
  B = B
  C = C
  Nodes = {O, A, B, C}
  Owner = O
  TransportNodes = {A, B}
  Edges <- RingEdges
  Mode <- AllFull
  NoTransport = NoTransport
  Anyone = Anyone
  LOCAL_REBROADCASTS_MAX = 2
  MAX_RANDOM_BLOBS = 2
  Times = {1}
  MaxEmissions = 1
  Budget <- SpreadBudget
INVARIANTS PathsLeadHome HopsNotInflated
PROPERTIES AnnounceSpreads
CHECK_DEADLOCK FALSE
