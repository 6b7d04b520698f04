SPECIFICATION FairSpec
CONSTANTS
  Modulus = 8
  WINDOW_MAX = 2
  MAX_TRIES = 2
  MaxMessages = 3
PROPERTY SenderLearns
CHECK_DEADLOCK FALSE
