SPECIFICATION Spec
CONSTANTS
  MAX_WINDOW_SIZE = 2
  MAX_SEQNUM = 4
  NChunks = 5
  UINT8_RANGE = 256
  FwdFaults = {}
  RevFaults = {"reorder"}
  MaxFaults = 1
  FwdCapacity = 3
  RevCapacity = 2
  InputKind = "file"
  GarbageTypes = {"NONE"}
  GarbageSeqnums = {0}
  GarbagePointers = FALSE
  MaxSlotDebt = 1
  PatientTimers = FALSE
  PatientPoll = TRUE
  DirectLink = FALSE
INVARIANTS
  SuccessIsComplete
CHECK_DEADLOCK FALSE
