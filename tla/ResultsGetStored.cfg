SPECIFICATION FairSpec
CONSTANTS
  Detectors = {ssd_mobile}
  MaxSize = 2
  MaxRects = 1
  MaxBatch = 2
  MaxFrames = 5
  SkipFrame = FALSE
  SkipEvery = 5
  WaitLimit = 0
  SizeT = 64
  NoMessage = NoMessage
PROPERTIES ResultsGetStored
CHECK_DEADLOCK FALSE
