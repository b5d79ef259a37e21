SPECIFICATION Spec
CONSTANTS
  Threads = {t1}
  Loop = loop
  NoThread = NoThread
  Capacity = 2
  PipeCapacity = 3
  ReadSize = 2
  Interval = 1
  MaxPosts = 2
  MaxTime = 2
INVARIANTS NoLostWakeup
PROPERTIES ImplementsChannel StopIsHeard RefusedRemovalRuns
CHECK_DEADLOCK FALSE
