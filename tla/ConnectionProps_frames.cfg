SPECIFICATION FairSpec
CONSTANTS
  HEADER_SIZE_IN_BYTES = 16
  HEADER_MAGIC_CODE_SIZE_IN_BYTES = 8
  Length = {0, 1, 5}
  MaxMessages = 2
INVARIANTS Framing MissingPositive OnlyValidated
PROPERTIES EveryMessageHandedOver
CHECK_DEADLOCK FALSE
