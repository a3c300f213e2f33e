CONSTANTS
  HeaderWords = 2
  GlobalStart = 0
  GlobalStop = 1
  SysArgs = 2
  StackTop = 6
  MaxArgs = 3
  Locals <- MCRoomyLocals
  StackBottom = 11
  HeapBegin = 40
  ExtraRoomCoefficient = 2
  MinimumHeapCapacity = 4
  RemapBases <- MCRemapBases
  ClosureRootOffset = 3
  MaxExtraRoots = 3
  Programs <- MCCyclesPrograms
  RawWord = 42
  MaxBody = 2
  Operands <- MCRoomyOperands
  Lengths = {1}
  MaxName = 12
SPECIFICATION FairRuntimeSpec
PROPERTIES
  ImplementsGraph
  CallReturns
CHECK_DEADLOCK FALSE
