SPECIFICATION Spec
CONSTANTS
  I = I
  A = A
  B = B
  D = D
  Initiator = I
  Responder = D
  Relays = {A, B}
  NoIface = NoIface
  Edges <- DiamondEdges
  Routes <- DiamondRoutes
  PATHFINDER_M = 6
  RetryChecks = 1
  DeadlineChecks = 2
  RestartOutlinks = {TRUE, FALSE}
  MaxKeys = 2
  MaxAttempts = 3
  Budget <- RoutingBudget
INVARIANTS LoopBroken ActiveHasWayOut EndsAgree
CHECK_DEADLOCK FALSE
