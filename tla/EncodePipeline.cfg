SPECIFICATION FairSpec
CONSTANTS
  QueueSize = 2
  Lookahead = 1
  PacketsPerFile = 2
  MaxFrames = 8
  MaxErrors = 2
  SizeT = 64
  NoMessage = NoMessage
INVARIANTS FramesAccounted RecordingMatchesStream ReferencesBalance FilesComplete
PROPERTY EveryFrameStreamed
CHECK_DEADLOCK FALSE
