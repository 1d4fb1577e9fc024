SPECIFICATION FairSpec
CONSTANTS
  MAX_WINDOW_SIZE = 2
  MAX_SEQNUM = 4
  NChunks = 4
  UINT8_RANGE = 256
  FwdFaults = {}
  RevFaults = {"lose", "corrupt"}
  MaxFaults = 2
  FwdCapacity = 3
  RevCapacity = 2
  InputKind = "file"
  GarbageTypes = {"NONE"}
  GarbageSeqnums = {0}
  GarbagePointers = FALSE
  MaxSlotDebt = 1
  PatientTimers = FALSE
  PatientPoll = TRUE
  DirectLink = FALSE
PROPERTIES
  CleanEnd
CHECK_DEADLOCK FALSE
