SPECIFICATION Spec
CONSTANTS
  MAX_WINDOW_SIZE = 2
  MAX_SEQNUM = 8
  NChunks = 9
  UINT8_RANGE = 256
  FwdFaults = {"lose", "reorder"}
  RevFaults = {"lose", "reorder"}
  MaxFaults = 2
  FwdCapacity = 3
  RevCapacity = 2
  InputKind = "file"
  GarbageTypes = {"NONE"}
  GarbageSeqnums = {0}
  GarbagePointers = FALSE
  MaxSlotDebt = 1
  PatientTimers = FALSE
  PatientPoll = FALSE
  DirectLink = FALSE
INVARIANTS
  IInv
  NoAliasing
  AckedIsWritten
PROPERTIES
  ImplementsTransfer
CHECK_DEADLOCK FALSE
