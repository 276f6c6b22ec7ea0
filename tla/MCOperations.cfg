SPECIFICATION OperationsSpec
CONSTANTS
  p = p  q = q  x = x  y = y  whole = whole  none = none
  Whole = whole
  NoToken = none
  Procs = {p, q}
  Partitions = {x, y}
  Etags = {1, 2, 3}
  Projects <- MCProjects
  MaxTime = 3
  Migrators = {p, q}
  Builds <- MCBuilds
  Versions = {1, 2}
  MaxBackups = 1
  RowSets <- MCRowSets
  Careful = TRUE
  Rebuilt = {1, 2}
  ShadowParts = {x, y}
  Contents = {"old", "new"}
  Absent = "-"
  Orders <- MCOrders
  MaxWrites = 1
SYMMETRY Interchangeable
INVARIANTS
  AnswersAreRight
  StoreIsWhole
CHECK_DEADLOCK FALSE
