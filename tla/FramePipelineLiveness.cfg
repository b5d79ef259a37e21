SPECIFICATION FairSpec
CONSTANTS
  Detectors = {ssd_mobile, tf_face}
  MaxSize = 2
  MaxRects = 0
  MaxBatch = 1
  MaxFrames = 3
  SkipFrame = FALSE
  SkipEvery = 5
  WaitLimit = 1
  SizeT = 64
  NoMessage = NoMessage
PROPERTIES PrimingEnds EveryFrameEncoded
CHECK_DEADLOCK FALSE
