SPECIFICATION FairSpec
CONSTANTS
  g1 = g1
  g2 = g2
  g3 = g3
  c1 = c1
  c2 = c2
  Nil = Nil
  Goroutines <- TwoGoroutines
  Senders <- TwoGoroutines
  Receivers <- TwoGoroutines
  Chans <- OneChan
  Capacity <- Unbuffered
  MaxSends = 1
PROPERTY RendezvousReturns
CHECK_DEADLOCK FALSE
