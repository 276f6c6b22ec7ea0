SPECIFICATION AssetsSpec
CONSTANTS
  Desks = {"exposure", "retrieval", "deployments", "prompts", "checkpoints", "sweep", "safety", "duplicates",
           "derivations", "preferences", "mixtures", "tokenizers"}
  UNPARTITIONED = UNPARTITIONED
  KindOf <- MCKinds
  Capabilities <- MCCapabilities
  TrainingRuns <- MCTrainingRuns
  Evals <- MCEvals
  Contexts <- MCContexts
  Indexes <- MCIndexes
  Views <- MCViews
  Templates <- MCTemplates
  AgentRuns <- MCAgentRuns
  Labelled = {1}
  MaxRecorded = 4
  None = None
  Documents = {"d1", "d2"}
  Ordinals = {0, 1}
  Texts = {"x", "y"}
  Spaces = {"v1", "v2"}
  Shard <- MCShard
  Sources <- MCSources
  Identity <- MCIdentity
  LineageOf <- MCLineage
  ContextLabels <- MCContextLabels
  Forbidden = {"pii"}
  MinConfidence = 5
  Tools = {3}
  MaxEdits = 3
  VariantNames = {"v1", "v2", "v3", "v4"}
  RolloutSteps <- MCSteps
  Strategies = {"canary", "blue_green"}
  Tolerance = 1
  MaxMoves = 8
  PromptTexts = {"a", "b"}
  VariablesOf <- MCVariables
  Variables = {"x", "y"}
  LastMoment = 3
  MaxVersions = 4
  Shapes <- MCShapes
  Jobs <- MCJobs
  Unsaid = ""
  NoMetric = NoMetric
  KeepLast = 1
  MilestoneEvery = 2
  Minimize = TRUE
  Limit = 16
  MaxStep = 3
  MaxHeld = 3
  TrialNames = {1, 2, 3}
  Setups <- MCSetups
  Measures = {"loss", "latency"}
  Scores = {1, 2}
  Objective = "loss"
  LowerIsBetter = TRUE
  NoCode = NoCode
  NoSeed = NoSeed
  RiskySettings = {"tf32"}
  Findings = {"leak", "tool_abuse"}
  Benign = {"recipe"}
  NoProbe = "none"
  MaxReleases = 2
  Passages <- MCPassages
  Hash <- MCHash
  ShingleSize = 2
  Bands = 3
  DuplicateAt = 4
  SuspectAt = 3
  MinimumRun = 2
  Ceiling = 99
  MaxDocuments = 3
  Models = {1, 2, 3, 4}
  TrainingSets = {9}
  Restrictions <- MCRestrictions
  MaxTurns = 4
  MaxDerivations = 3
  Answers = {"x", "y"}
  Annotators = {"ann", "bob"}
  MaxPairs = 3
  CorpusNames = {"web", "code"}
  MixtureWeights = {0, 1, 3}
  SizeOf <- MCSizeOf
  Hundred = 4
  Precision = 4
  TokenBudget = 10
  MaxComponents = 3
  Strings = {"a", "b", "<s>"}
  Ids = {0, 1, 2}
  Controls = {"<s>"}
  ContextWindow = 4
  Reserve = 1
  TokenRatios <- MCTokenRatios
  MaxTokenizers = 4
  MaxTokens = 8
INVARIANTS
  ErasureIsAdmitted
  TestsAndFeaturesAreTraced
  RetrievalForgets
  ReleasesAreGuarded
  RunsCanBeTrusted
  MakingsAreKnown
PROPERTIES
  PastAnswersStand
CHECK_DEADLOCK FALSE
