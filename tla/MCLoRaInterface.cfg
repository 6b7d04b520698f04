SPECIFICATION LoRaFairSpec
CONSTANTS
  NoFrame = NoFrame
  Boards <- MCBoards
  Own = 2
  Peer = 2
  Split <- MCSplit
  Nibble <- MCNibble
  RX_QUEUE = 1
INVARIANTS OnAirConfigured AckedWasSent DeliveredWhole
PROPERTY ListensAgain
CHECK_DEADLOCK FALSE
