SPECIFICATION FairSpec
CONSTANTS
  MaxConns = 2
  Fds = {1, 2}
  CamMax = 2
  SlotMax = 2
  MaxConn = 2
  MaxSent = 2
PROPERTIES Heard Streamed
CHECK_DEADLOCK FALSE
