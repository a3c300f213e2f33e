CONSTANTS
  HeaderWords = 2
  GlobalStart = 0
  GlobalStop = 1
  StackBottom = 4
  StackTop = 2
  HeapBegin = 10
  MaxObjects = 3
  MaxFields = 3
  Shapes <- MCShapes
  ExtraRootLists <- MCExtraRootLists
SPECIFICATION MCSpec
INVARIANTS
  MarkTypeOK
  QueueInvariant
  QueueFits
  MarkExact
PROPERTIES
  MarkIsBenign
  MarkTerminates
CHECK_DEADLOCK FALSE
