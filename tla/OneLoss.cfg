SPECIFICATION FairSpec
CONSTANTS
  MAX_WINDOW_SIZE = 3
  MAX_SEQNUM = 6
  NChunks = 5
  UINT8_RANGE = 256
  FwdFaults = {"lose"}
  RevFaults = {}
  MaxFaults = 1
  FwdCapacity = 5
  RevCapacity = 2
  InputKind = "file"
  GarbageTypes = {"NONE"}
  GarbageSeqnums = {0}
  GarbagePointers = FALSE
  MaxSlotDebt = 1
  PatientTimers = TRUE
  PatientPoll = TRUE
  DirectLink = FALSE
PROPERTIES
  TransferCompletes
  BothEnd
CHECK_DEADLOCK FALSE
