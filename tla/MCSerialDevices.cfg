SPECIFICATION FairSpec
CONSTANTS
  Setups <- Devices
  Settings = {"frequency", "sf"}
  Limits = {"st_alock"}
  ReadyQueue = 1
  MaxPackets = 2
  MaxFaults = 2
INVARIANTS DataOnConfiguredRadio OneOutstanding
PROPERTIES HeldBackLeaves Recovers ShutsDown
CHECK_DEADLOCK FALSE
