SPECIFICATION FairSpec
CONSTANTS
  Kinds = {"client", "modem73", "udp", "udp_listen", "tcp_server", "backbone_server"}
  TX_QUEUE = 1
  max_connections = 1
  MaxInterfaces = 3
  MaxClients <- Clients
  MaxFaults = 2
INVARIANTS SlotsExact
PROPERTIES Heals NotSaturated ShutsDown FragmentationFollows
CHECK_DEADLOCK FALSE
