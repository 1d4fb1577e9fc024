SPECIFICATION FairSpec
CONSTANTS
  MAX_WINDOW_SIZE = 2
  MAX_SEQNUM = 4
  NChunks = 3
  UINT8_RANGE = 256
  FwdFaults = {}
  RevFaults = {}
  MaxFaults = 0
  FwdCapacity = 3
  RevCapacity = 2
  InputKind = "pipe"
  GarbageTypes = {"NONE"}
  GarbageSeqnums = {0}
  GarbagePointers = FALSE
  MaxSlotDebt = 1
  PatientTimers = FALSE
  PatientPoll = TRUE
  DirectLink = FALSE
PROPERTIES
  SenderReturns
CHECK_DEADLOCK FALSE
