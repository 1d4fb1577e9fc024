SPECIFICATION Spec
CONSTANTS
  MAX_WINDOW_SIZE = 3
  MAX_SEQNUM = 6
  NChunks = 8
  UINT8_RANGE = 256
  FwdFaults = {"lose", "mark"}
  RevFaults = {"lose", "mark"}
  MaxFaults = 1
  FwdCapacity = 3
  RevCapacity = 2
  InputKind = "pipe"
  GarbageTypes = {"NONE"}
  GarbageSeqnums = {0}
  GarbagePointers = TRUE
  MaxSlotDebt = 1
  PatientTimers = FALSE
  PatientPoll = FALSE
  DirectLink = TRUE
INVARIANTS
  NoAliasing
PROPERTIES
  ImplementsTransfer
CHECK_DEADLOCK FALSE
