SPECIFICATION Spec
CONSTANTS
  Shells = {a, b}
  a = a
  b = b
  LastGeneration = 2
  MaxFaults = 3
  MaxEdits = 1
INVARIANTS
  TypeOK
  OperatorOnlyWhereTold
PROPERTIES
  ImplementsGenerations
SYMMETRY ShellSymmetry
CHECK_DEADLOCK FALSE
