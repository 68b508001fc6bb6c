SPECIFICATION FairSpec
CONSTANTS
  Executables <- SoundOnes
  Depth = 2
INVARIANTS
  TypeOK
  NoDanglingAccess
  ShadowBalanced
  NoUndefinedRead
  CodeIsLawful
  PrintsWhatItSays
PROPERTIES
  ProgramsEnd
