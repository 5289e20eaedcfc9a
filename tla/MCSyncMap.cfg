SPECIFICATION Spec
CONSTANTS
  g1 = g1
  g2 = g2
  a = a
  b = b
  v1 = v1
  v2 = v2
  None = None
  Alien = Alien
  Slice = Slice
  NilKey = NilKey
  Goroutines <- TwoGoroutines
  Keys <- TwoKeys
  Values <- TwoValues
  Programs <- RangeAndPairs
INVARIANTS
  RangeVisitsAll
PROPERTIES
  ImplementsMap
