CONSTANTS
  KeysOf <- MCKeys
  Values = {1, 2}
  Lists <- MCLists
  Functions <- MCFunctions
  Classes = 2
  Hash <- MCHash
  MaxShadow = 2
  Texts = {}
  Tags = {"Array"}
  MaxArity = 2
  MaxObjects = 4
  Spared = {}
SPECIFICATION MCSpec
INVARIANTS
  PartsCanonical
CHECK_DEADLOCK FALSE
