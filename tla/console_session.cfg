SPECIFICATION Spec
CHECK_DEADLOCK FALSE
CONSTANTS
  MaxConn = 2
  MaxCmd = 2
  LineCap = 1
  QueueCap = 1
  Ports <- MCPorts
  Deaths = {1}
INVARIANTS
  NoReadAfterClose
  PortIsOwned
  LiveIsShown
  EchoFiltered
  CommandKeepsDevice
PROPERTIES
  ReaderStops
  AuthenticationEnds
  SynchronizationEnds
