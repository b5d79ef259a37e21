SPECIFICATION Spec
CONSTANTS
  Conns = {c1, c2}
  None = None
  Fds = {1}
  QueueCapacity = 2
  WriteCapacity = 2
  PacketsPerFrame = 1
  Requests = {"DESCRIBE", "SETUP_TCP", "SETUP_UDP", "PLAY", "TEARDOWN"}
  MaxBatch = 1
  MaxPackets = 2
  MaxRequests = 5
INVARIANTS DanglesOnlyInTheRace PacketsWhilePlaying OutputIsWatched
CHECK_DEADLOCK FALSE
