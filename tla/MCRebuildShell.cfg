SPECIFICATION Spec
CONSTANTS
  eu = eu  us = us  none = none
  Datasets <- MCDatasets
  Plans <- MCPlans
  MaxBatch = 2
  Flavors = {"shell"}
  MaxFailures = 1
  NoTime = none
INVARIANT
  InputsFirst
CHECK_DEADLOCK FALSE
