SPECIFICATION FairSpec
CONSTANTS
  Compilers = {c1}
  MaxJobs = 2
  Overlap = FALSE
  Jobs <- AllJobs
CHECK_DEADLOCK FALSE
INVARIANTS
  TypeOK
  OutputIsOfItsSource
  ExitCodeTellsTheError
  OnlySoundSourcesGetCode
PROPERTIES
  CompilationsEnd
