SPECIFICATION FairSpec
CONSTANTS
  MAX_WINDOW_SIZE = 2
  MAX_SEQNUM = 4
  NChunks = 5
  UINT8_RANGE = 256
  FwdFaults = {"lose"}
  RevFaults = {}
  MaxFaults = 2
  FwdCapacity = 4
  RevCapacity = 2
  InputKind = "file"
  GarbageTypes = {"NONE"}
  GarbageSeqnums = {0}
  GarbagePointers = FALSE
  MaxSlotDebt = 1
  PatientTimers = TRUE
  PatientPoll = TRUE
  DirectLink = FALSE
PROPERTIES
  TransferCompletes
CHECK_DEADLOCK FALSE
