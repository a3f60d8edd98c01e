SPECIFICATION Spec
CONSTANTS
  NCams = 2
  RunMax = 1
  GpuMax = 2
  GpuItemMax = 1
  NoFrameMax = 0
  Vtypes = {"RTSP"}
  Clients = {1}
  Requests = {"alg", "delete", "event"}
  Unstable = {}
  Watched = {}
  MaxDisorder <- OneDisorderly
  MaxThreads = 3
INVARIANTS ExistWithinLimit GpuExact ThreadsKnown BuffersLive ExistingRun
