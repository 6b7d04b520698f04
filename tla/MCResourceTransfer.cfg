SPECIFICATION FairSpec
CONSTANTS
  TotalParts = 10
  MapHash <- RepeatedHash
  HashmapMaxLen = 2
  Window = 2
  WindowMin = 1
  WindowMaxSlow = 3
  WindowMax = 3
  WindowFlexibility = 2
  MaxRetries = 2
  MaxAdvRetries = 1
  MaxFaults = 3
INVARIANTS WindowOrdered PartsInPlace CountersAgree
PROPERTIES FailsOutOfBudget TransferConcludes
CHECK_DEADLOCK FALSE
