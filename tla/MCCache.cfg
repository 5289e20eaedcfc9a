SPECIFICATION Spec
CONSTANTS
  r1 = r1
  r2 = r2
  r3 = r3
  a = a
  b = b
  Runs <- ThreeRuns
  Files <- MainAndModule
  Contents <- TwoContents
  Outputs <- AllOutputs
  Versions <- TwoReleases
  MaxRunning = 1
  MaxStops = 2
SYMMETRY Symmetry
INVARIANTS UninterruptedRunsOwn ManifestTrue NoLeftovers RetryRepairs
CHECK_DEADLOCK FALSE
