SPECIFICATION Spec
CONSTANTS
  Users = {u1, u2}
  NoUser = NoUser
  MaxMsgs = 1
  Sizes = {"empty", "long"}
  MaxFrames = 2
  MaxAnnounced = 1
INVARIANT BroadcastReachesUsers
CHECK_DEADLOCK FALSE
