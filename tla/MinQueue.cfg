SPECIFICATION Spec
CONSTANTS
  Elements = {0, 1, 2, 3, 4, 5}
  Priority <- MCPriority
  Junk = Junk
  SLOTS_PER_MALLOC = 2
  MaxSize = 6
INVARIANTS
  PeekIsMinimal
  HeapInv
PROPERTIES
  ImplementsQueue
  CallsReturn
