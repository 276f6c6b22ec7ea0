SPECIFICATION GovernanceSpec
CONSTANTS
  Datasets <- MCDatasets
  Partitions <- MCPartitions
  Requests <- MCRequests
  KeyNames = {k1, k2}
  Subjects = {s1, s2}
  MaxProofs = 1
  Copied = {"orders"}
  Locations = {"vault", "vendor"}
  never = never
  NoRetention = never
  Declarable <- MCDeclarable
  MaxReplicas = 2
  LastDay = 3
  People = {"ann", "bob", "cy"}
  Teams = {"ml"}
  NoTeam = "none"
  Proposals <- MCProposals
  MaxVotes = 3
  Actors = {"ann", "bob"}
  Events <- MCEvents
  GENESIS = GENESIS
  MaxEntries = 3
  MaxFaults = 2
  FlowGraphs <- MCFlowGraphs
  Unattributed = "*"
  SeedSets <- MCSeedSets
  MaxRounds = 4
  Labellers = {c1, c2}
  LabelGraph <- MCLabelGraph
  Readings <- MCReadings
  PiiLabels = {"user_identifier"}
  TopConfidence = 3
  SupportBonus = 2
  MaxConfirmed = 1
  Tenants = {"ml", "bi", "ops"}
  NoTenant = "nobody"
  Assets = {1, 2}
  Dependencies <- MCDependencies
  DeclaredDependencies <- MCDeclared
  MaxGrants = 2
  RoleNames = {"base", "team", "lead"}
  Things = {"t", "u"}
  Holders <- MCHolders
  RoleShapes <- MCRoleShapes
  NoCap = NoCap
  DefaultLevel = 1
  Levels4 = {0, 2}
  Fields = {"id", "mail"}
  UNPARTITIONED = UNPARTITIONED
  Checkers = {c1, c2}
  ProfileShapes <- MCProfileShapes
  Contract <- MCContract
  Buckets = {1, 2}
  HistoryLimit = 2
  MaxSaved = 3
  MinRows = 5
  RowTolerance = 25
  NullTolerance = 5
  Margin = 10
  KindsOf <- MCKindsOf
  DirectKinds = {"email"}
  QuasiKinds = {"date_of_birth", "postal_address"}
  KThreshold = 5
  SinglingOut = 90
  MinObservations = 2
INVARIANTS
  CertifiedMeansGone
  NoBystanderLost
  EvidenceStaysTrue
  DecisionsAreOnRecord
  NothingSensitiveIsLost
  AccessIsBounded
  ProfilesJudgeAlike
PROPERTIES
  WhatWasDecidedStands
CHECK_DEADLOCK FALSE
