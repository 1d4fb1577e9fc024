SPECIFICATION Spec
CONSTANTS
  MAX_WINDOW_SIZE = 3
  MAX_SEQNUM = 6
  MAX_PAYLOAD_SIZE = 2
  Stream <- MCStream
  NBlocks = 3
INVARIANTS
  MemoryInv
  NoMisuse
  PayloadIntact
  AcceptedIsSent
CHECK_DEADLOCK FALSE
