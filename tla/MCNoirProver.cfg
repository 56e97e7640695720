\* Two calls of one recipe, one of another, one of a recipe without a directory; two failures.
SPECIFICATION FairSpec
CONSTANTS
  j1 = j1
  j2 = j2
  j3 = j3
  j4 = j4
  Jobs = {j1, j2, j3, j4}
  Absent = Absent
  Torn = Torn
  MaxFailures = 2
  Dirs <- Templates
  Circuits <- CircuitDirs
  DirOf <- RecipeDirs
INVARIANTS
  AloneProvesOwn
  TomlIsTemporary
PROPERTIES
  UndisturbedReturns
CHECK_DEADLOCK FALSE
