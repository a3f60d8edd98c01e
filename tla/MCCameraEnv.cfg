SPECIFICATION FairSpec
CONSTANTS
  NCams = 1
  RunMax = 1
  GpuMax = 1
  GpuItemMax = 1
  NoFrameMax = 1
  Vtypes = {"RTSP", "FILE"}
  Clients = {1}
  Requests = {"alg", "delete", "event", "play"}
  Unstable = {0}
  Watched = {0}
  MaxDisorder <- AllOrderly
  MaxThreads = 1
INVARIANT ConfigInEffect
PROPERTIES CommandsCarriedOut FramesFlow
CHECK_DEADLOCK FALSE
