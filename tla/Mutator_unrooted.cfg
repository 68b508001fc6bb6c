SPECIFICATION Spec
CONSTANTS
  Executables <- UnrootedOnes
  Depth = 2
INVARIANTS
  NoDanglingAccess
