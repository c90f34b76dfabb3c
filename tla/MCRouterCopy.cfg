CONSTANTS
  Addrs = {0, 1, 2, 3, 4, 5, 6, 7}
  Masked <- BitAnd
  Ports = {0, 1}
  Tables <- Files
  Cells = {1, 2, 3}
  Elements = {1, 2, 3}
  NULL = NULL
  Base = 16
  PortIp <- TwoPorts
  Neighbours <- Hosts
  ArpRoom = 2
  Align = 2
  Pid = 9
  MaxTraffic = 2
  Datagrams <- Packets
SPECIFICATION Spec

PROPERTIES WaitingCopies
CHECK_DEADLOCK FALSE
