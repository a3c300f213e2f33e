CONSTANTS
  HeaderWords = 2
  GlobalStart = 0
  GlobalStop = 1
  SysArgs = 2
  StackTop = 5
  MaxArgs = 2
  Locals <- MCLocals
  StackBottom = 9
  HeapBegin = 40
  ExtraRoomCoefficient = 2
  MinimumHeapCapacity = 4
  RemapBases <- MCRemapBases
  ClosureRootOffset = 3
  MaxExtraRoots = 4
  Programs <- MCSprintfPrograms
  RawWord = 43
  MaxBody = 2
  Operands <- MCOperands
  Lengths = {1}
  MaxName = 12
SPECIFICATION FairRuntimeSpec
INVARIANTS
  RootsAreObjects
CHECK_DEADLOCK FALSE
