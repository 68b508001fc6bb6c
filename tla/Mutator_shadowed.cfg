SPECIFICATION Spec
CONSTANTS
  Executables <- ShadowedOnes
  Depth = 2
INVARIANTS
  PrintsWhatItSays
