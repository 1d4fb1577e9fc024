SPECIFICATION Spec
CONSTANTS
  MAX_WINDOW_SIZE = 2
  MAX_SEQNUM = 4
  NChunks = 5
  UINT8_RANGE = 256
  FwdFaults = {"lose", "corrupt", "cut", "mark"}
  RevFaults = {"lose", "corrupt", "mark"}
  MaxFaults = 2
  FwdCapacity = 3
  RevCapacity = 2
  InputKind = "file"
  GarbageTypes = {"NONE"}
  GarbageSeqnums = {0}
  GarbagePointers = FALSE
  MaxSlotDebt = 1
  PatientTimers = FALSE
  PatientPoll = FALSE
  DirectLink = FALSE
INVARIANTS
  IInv
  TypeOK
  InOrder
  AckedIsWritten
  CompleteWhenDisconnected
  NoRunaway
  SendWindowConsistent
  StoreConsistent
  AnnouncedIsFree
  NoAliasing
CHECK_DEADLOCK FALSE
