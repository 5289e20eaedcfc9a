SPECIFICATION Spec
CONSTANTS
  g1 = g1
  g2 = g2
  NoPanic = NoPanic
  Goroutines <- OneGoroutine
  Main = g1
  Fns <- FourFns
  Entry <- EntryOne
  Programs <- MixedPrograms
INVARIANTS TameAgreesWithGo PanicsSurface
CHECK_DEADLOCK FALSE
