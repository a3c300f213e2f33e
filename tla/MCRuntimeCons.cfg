CONSTANTS
  HeaderWords = 2
  GlobalStart = 0
  GlobalStop = 1
  SysArgs = 2
  StackTop = 5
  MaxArgs = 2
  Locals <- MCLocals
  StackBottom = 9
  HeapBegin = 40
  ExtraRoomCoefficient = 2
  MinimumHeapCapacity = 4
  RemapBases <- MCRemapBases
  ClosureRootOffset = 3
  MaxExtraRoots = 4
  Programs <- MCConsPrograms
  RawWord = 42
  MaxBody = 2
  Operands <- MCOperands
  Lengths = {1}
  MaxName = 12
SPECIFICATION FairRuntimeSpec
INVARIANTS
  ConsHoldsOperands
CHECK_DEADLOCK FALSE
