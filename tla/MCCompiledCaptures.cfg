CONSTANTS
  Programs <- MCNests
SPECIFICATION Spec
INVARIANTS
  MeaningPreserved
