CONSTANTS
  Module = {"main", "a", "b"}
  Main = "main"
  Programs <- MCPrograms
  Steps = 8
SPECIFICATION Spec
INVARIANTS
  CacheSound
  NeedsFollowed
  NothingDangles
  ImplsFitTraits
  NothingDead
PROPERTY
  Terminates
