\* Paths of up to three hops over the real calendar: the enumeration cap MaxKeys is the
\* source's own, which none of these windows reaches.
SPECIFICATION ScheduleSpec
CONSTANTS
  emea = emea  apac = apac
  ANY = ANY
  FieldNames <- MCFields
  Labels <- MCLabels
  DaysBefore <- MCDaysBefore
  SeedKeys <- MCSeedKeys
  Hops <- MCHops
  MaxHops = 3
  Caps = {1, 5}
  MaxKeys = 4096
  eu = eu  us = us  none = none
  Datasets <- MCDatasets
  Plans <- MCPlans
  MaxBatch = 2
  Flavors = {"tasks"}
  MaxFailures = 1
  NoTime = none
  MaxEdges = 5
INVARIANTS
  ClaimsAreKept
  CyclesAreFound
  BatchesCanBeTrusted
  WavesAreEarliest
PROPERTIES
  WorkComesToItsEnd
  EverythingArrives
CHECK_DEADLOCK FALSE
