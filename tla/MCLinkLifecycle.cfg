SPECIFICATION FairSpec
CONSTANTS
  I = I
  A = A
  B = B
  D = D
  Initiator = I
  Responder = D
  Relays = {A}
  NoIface = NoIface
  Edges <- ChainEdges
  Routes <- ChainRoutes
  PATHFINDER_M = 6
  RetryChecks = 1
  DeadlineChecks = 2
  RestartOutlinks = {TRUE, FALSE}
  MaxKeys = 2
  MaxAttempts = 3
  Budget <- LifecycleBudget
PROPERTIES ClosedIsFinal PendingResolves
CHECK_DEADLOCK FALSE
