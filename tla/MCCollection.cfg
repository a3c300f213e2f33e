CONSTANTS
  KeysOf <- MCKeys
  Values = {1, 2}
  Lists <- MCLists
  Functions <- MCFunctions
  Classes = 2
  Hash <- MCHash
  MaxShadow = 2
  Texts = {"a", "b"}
  Tags = {"Array"}
  MaxArity = 2
  MaxObjects = 4
  Spared = {"b"}
SPECIFICATION MCSpec
INVARIANTS
  Valid
  LookupsAgree
  Canonical
PROPERTIES
  ImplementsAssociations
  ArgumentsUntouched
CHECK_DEADLOCK FALSE
