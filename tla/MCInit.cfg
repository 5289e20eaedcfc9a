SPECIFICATION FairPSpec
CONSTANTS
  main = main
  p1 = p1
  p2 = p2
  p3 = p3
  s1 = s1
  s2 = s2
  Locals <- ThreeLocals
  Stdlib <- TwoStdlib
  Main = main
  Graphs <- TwoOrThree
  Key <- KeyOrder
  Programs <- MCPrograms
INVARIANTS Closed InitOrder AllInitsRun
PROPERTY Completes
CHECK_DEADLOCK FALSE
