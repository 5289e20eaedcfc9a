SPECIFICATION FairSpec
CONSTANTS
  g1 = g1
  g2 = g2
  g3 = g3
  c1 = c1
  c2 = c2
  Nil = Nil
  Goroutines <- ThreeGoroutines
  Senders <- ThreeGoroutines
  Receivers <- LastTwo
  Chans <- TwoChans
  Capacity <- Mixed
  MaxSends = 1
INVARIANTS NoLostWakeup ClosedWakesAll
PROPERTIES RendezvousHandsOver ImplementsGoChannel WaitersServed
CHECK_DEADLOCK FALSE
