SPECIFICATION Spec
CONSTANTS
  Datasets <- MCDatasets
  Partitions <- MCPartitions
  Requests <- MCRequests
INVARIANTS
  ErasersAreTransactional
