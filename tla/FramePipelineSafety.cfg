SPECIFICATION Spec
CONSTANTS
  Detectors = {ssd_mobile, tf_face}
  MaxSize = 2
  MaxRects = 2
  MaxBatch = 2
  MaxFrames = 3
  SkipFrame = TRUE
  SkipEvery = 2
  WaitLimit = 0
  SizeT = 64
  NoMessage = NoMessage
SYMMETRY Symmetry
INVARIANTS TypeOK FramesInOrder ExaminesItsFrame
  PrimingKeepsFirstFrame NoDuplicateResult DrawnBelongs
PROPERTY ImplementsStream
CHECK_DEADLOCK FALSE
