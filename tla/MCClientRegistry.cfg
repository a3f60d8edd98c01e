SPECIFICATION Spec
CONSTANTS
  MaxConns = 3
  Fds = {1, 2}
  CamMax = 2
  SlotMax = 2
  MaxConn = 2
  MaxSent = 2
INVARIANTS SlotsExact NodesOwned WatchExact
CHECK_DEADLOCK FALSE
