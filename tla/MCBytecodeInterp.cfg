CONSTANTS
  Following <- MCFollowing
  Labeled <- MCLabeled
  Code <- MCCode
  Entries <- MCEntries
  Owner <- MCOwner
  Captures <- MCCaptures
  Inputs = {0}
  MemSize = 9
  CallSize = 17
  NGlobals = 2
  TagHash <- MCTagHash
  Chars = {1, 2}
  Halves = {3}
  MaxTemps <- MCMaxTemps
  MaxObjects <- MCMaxObjects
  MaxOut = 1
  MaxNum = 2
SPECIFICATION Spec
INVARIANTS
  InterpTypeOK
  FramesNested
  ScannedWordsLive
PROPERTIES
  ImplementsStackMachine
CHECK_DEADLOCK FALSE
