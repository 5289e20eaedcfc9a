SPECIFICATION Spec
CONSTANTS
  g1 = g1
  g2 = g2
  c1 = c1
  c2 = c2
  x = x
  y = y
  z = z
  w = w
  Nil = Nil
  MaxVal = 3
  Goroutines <- TwoGoroutines
  Cells <- TwoCells
  LeavesOf <- Struct
  Programs <- AllPairs
CHECK_DEADLOCK FALSE
INVARIANTS
  StuckOnlyInCalls
  RacedWhereShared
PROPERTIES
  ImplementsMemory
