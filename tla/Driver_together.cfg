SPECIFICATION Spec
CONSTANTS
  Compilers = {c1, c2}
  MaxJobs = 2
  Overlap = TRUE
  Jobs <- Together
CHECK_DEADLOCK FALSE
INVARIANTS
  OutputIsOfItsSource
