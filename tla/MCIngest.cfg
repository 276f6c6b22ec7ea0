SPECIFICATION Spec
CONSTANTS
  p = p  q = q  model = model  manifest = manifest  lineage = lineage
  a = a  b = b  c = c  unpartitioned = unpartitioned  none = none
  Unpartitioned = unpartitioned
  None = none
  Procs = {p, q}
  Adapter = lineage
  Projects <- MCProjects
  FetchLimit = 2
  RevisionLimit = 2
SYMMETRY Interchangeable
INVARIANTS
  UndisturbedIngestIsExact
  CursorIsSafe
  RevisionsTellTheTruth
PROPERTIES
  MergeOnlyLearns
