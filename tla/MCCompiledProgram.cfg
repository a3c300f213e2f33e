CONSTANTS
  Programs <- MCPrograms
SPECIFICATION Spec
INVARIANTS
  MeaningPreserved
  InStep
  JumpsAgree
  Encodable
  Paced
