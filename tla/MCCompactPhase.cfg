CONSTANTS
  HeaderWords = 2
  GlobalStart = 0
  GlobalStop = 1
  StackBottom = 5
  StackTop = 3
  HeapBegin = 40
  MaxObjects = 3
  ExtraRoomCoefficient = 2
  MinimumHeapCapacity = 4
  Requests = {6}
  RemapBases <- MCRemapBases
  Shapes <- MCShapes
  ExtraRootLists <- MCExtraRootLists
SPECIFICATION MCSpec
INVARIANTS
  CompactTypeOK
  NoneClobbered
  RootsPreserved
  GraphPreserved
  HeapReady
PROPERTIES
  HeapNeverShrinks
  CompactTerminates
CHECK_DEADLOCK FALSE
