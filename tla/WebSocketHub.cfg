SPECIFICATION Spec
CONSTANTS
  Users = {u1, u2, u3}
  NoUser = NoUser
  MaxMsgs = 1
  Sizes = {"empty", "long"}
  MaxFrames = 2
  MaxAnnounced = 1
SYMMETRY Symmetry
INVARIANTS OneOrder OnlyBroadcastsPreempt ForwardedOnce
CHECK_DEADLOCK FALSE
