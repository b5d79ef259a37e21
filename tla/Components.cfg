SPECIFICATION ComponentsSpec
CONSTANTS
  Inputs <- MCInputs
  Enrolled <- MCEnrolled
  Frames <- MCFrames
  ThresholdMax = 7
  ThresholdStep = 3
  ThresholdInsert = 4
  Repeat = 3
  MaxDatabase = 6
  MaxPayload = 6
  ClassFiles <- MCClassFiles
  SetUp <- MCSetUp
  Cols = 40
  Rows = 30
  Scale = 8
  Block = 4
  Word = 32
INVARIANTS FacesAreNamed FramesReassemble MessagesAreHashed FramesAreUnderstood HandshakeIsAnswered DetectionsAreDrawable
PROPERTIES AnnouncementsAreRare
CHECK_DEADLOCK FALSE
