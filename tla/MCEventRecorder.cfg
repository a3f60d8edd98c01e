SPECIFICATION FairSpec
CONSTANTS
  Window = 1
  QueueMax = 2
  MaxFrames = 3
  MaxVideos = 2
  MaxTime = 3
  MaxBack = 1
  MaxCloses = 1
INVARIANTS FramesExact FilesExact NothingDangles NoGap Covers
PROPERTY FrameLeaves
CHECK_DEADLOCK FALSE
