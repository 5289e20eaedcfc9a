CONSTANTS
  b1 = b1
  b2 = b2
  Build = {b1, b2}
  Version = {1, 2}
  First = 1
  Files <- MCFiles
  VersionFile = "VERSION"
  Absent = Absent
  Budgets <- MCBudgets
SPECIFICATION Spec
INVARIANTS
  AloneIsRight
  FailuresHaveCauses
  TarballSettles
PROPERTIES
  ArrivesWhole
  RetriesSucceed
CHECK_DEADLOCK FALSE
