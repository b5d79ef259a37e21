SPECIFICATION FairSpec
CONSTANTS
  Users = {u1, u2}
  NoUser = NoUser
  MaxMsgs = 1
  Sizes = {"empty"}
  MaxFrames = 2
  MaxAnnounced = 3
INVARIANTS OriginsInOrder
PROPERTY MessagesForwarded
CHECK_DEADLOCK FALSE
