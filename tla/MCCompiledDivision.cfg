CONSTANTS
  Programs <- MCDivisions
SPECIFICATION Spec
INVARIANTS
  InStep
