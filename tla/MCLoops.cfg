SPECIFICATION Spec
CONSTANTS
  Programs <- PassingPrograms
  Inputs <- SixBits
INVARIANTS Accepted SameRun
CHECK_DEADLOCK FALSE
