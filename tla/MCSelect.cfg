SPECIFICATION FairSelectSpec
CONSTANTS
  g1 = g1
  g2 = g2
  c1 = c1
  c2 = c2
  Nil = Nil
  None = None
  Goroutines <- TwoGoroutines
  Senders <- TwoGoroutines
  Receivers <- TwoGoroutines
  Chans <- TwoChans
  Capacity <- BufferOfOne
  MaxSends = 1
  Selectors <- OnlyG1
  Selects <- EveryShape
PROPERTIES EarlierArmsMissed CloseEndsSelect
CHECK_DEADLOCK FALSE
