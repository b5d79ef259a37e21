SPECIFICATION Spec
CONSTANTS
  Conns = {c1, c2}
  None = None
  Fds = {1, 2}
  QueueCapacity = 2
  WriteCapacity = 1
  PacketsPerFrame = 2
  Requests = {"OPTIONS", "DESCRIBE", "SETUP_TCP", "GET_PARAMETER"}
  MaxBatch = 2
  MaxPackets = 2
  MaxRequests = 2
INVARIANTS RemovesTheRightConnection ClientsAreTheDescribed
PROPERTIES ClosedIsFreed
CHECK_DEADLOCK FALSE
