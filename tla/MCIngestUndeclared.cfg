SPECIFICATION Spec
CONSTANTS
  p = p  q = q  model = model  manifest = manifest  lineage = lineage
  a = a  b = b  c = c  unpartitioned = unpartitioned  none = none
  Unpartitioned = unpartitioned
  None = none
  Procs = {p, q}
  Adapter = lineage
  Projects <- Undeclared
  FetchLimit = 2
  RevisionLimit = 500
SYMMETRY Interchangeable
INVARIANTS
  UndisturbedIngestIsExact
