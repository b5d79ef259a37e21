SPECIFICATION MCSpec
CONSTANTS
  Requests <- MCRequests
  MaxMessages = 3
  MaxSize = 24
INVARIANTS   RecordsWhatWasAccepted
PROPERTIES GivenUpIsClosed
CHECK_DEADLOCK FALSE
