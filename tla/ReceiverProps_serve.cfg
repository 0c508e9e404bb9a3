SPECIFICATION FairSpec
CONSTANTS
  HEADER_SIZE_IN_BYTES = 2
  HEADER_MAGIC_CODE_SIZE_IN_BYTES = 1
  Client = {c1, c2}
  Fd = {1, 4, 5}
  Length = {0, 1}
  MaxMessages = 1
  Signals = {"soft"}
  Hangup = {c1}
INVARIANTS BytesFollowSocket DescriptorsTracked NoDeadConnectionPolled
PROPERTIES EveryMessageHandedOver SoftShutdownWhenAlone
CHECK_DEADLOCK FALSE
