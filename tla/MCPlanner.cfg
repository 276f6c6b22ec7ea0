SPECIFICATION Spec
CONSTANTS
  eu = eu
  us = us
  ANY = ANY
  Datasets <- MCDatasets
  ByName <- MCByName
  Graphs <- MCGraphs
  SeedSets <- MCSeedSets
  FieldNames <- MCFieldNames
  Labels <- MCLabels
  DaysBefore <- MCDaysBefore
  MaxKeys = 4096
  MaxRevisits = 2
  AcyclicValve = 10000
  MaxEdges = 3
INVARIANTS
  NothingForgotten
  Sound
  ToldAndInOrder
  ExactOffCycles
PROPERTIES
  KeepsPromise
  Terminates
CHECK_DEADLOCK FALSE
