------------------------------ MODULE MCAssets ------------------------------
(***************************************************************************)
(* What ai/ keeps of models and their data.  Each desk is checked in the   *)
(* behaviours in which it alone acts: they share no state.                 *)
(***************************************************************************)
EXTENDS Exposure, Retrieval, Releases, Training, Makings

CONSTANT Desks

VARIABLE desk
assetVars == <<desk, exposureVars, retrievalVars, servingVars, checkpointVars, sweepVars, safetyVars,
               duplicateVars, derivationVars, mixtureVars, tokenizerVars>>

\* A table, an eval set, a checkpoint, a model, an index, an agent, a table, a tool, a
\* feature view and a prompt.
MCKinds == <<"table", "eval", "checkpoint", "model", "index", "agent", "table", "tool", "feature", "prompt">>
MCCapabilities == [d \in {1, 7} |-> "rewrite"]
TrainedFrom(m, inputs, columns, base) == [model |-> m, inputs |-> inputs, columns |-> columns, base |-> base]
MCTrainingRuns ==
  {TrainedFrom(3, {1, 2}, TRUE, 0), TrainedFrom(4, {1, 9}, TRUE, 0), TrainedFrom(4, {7}, FALSE, 3),
   TrainedFrom(4, {2}, TRUE, 0), TrainedFrom(3, {}, TRUE, 0)}
MCEvals    == {[suite |-> 2, model |-> 4]}
MCContexts == {[sources |-> {5}, model |-> 4, sink |-> 0], [sources |-> {1}, model |-> 3, sink |-> 7]}
MCIndexes  == {[corpus |-> 7, space |-> 3, index |-> 5]}
MCViews    == {[sources |-> {1}, view |-> 9, online |-> 0]}
MCTemplates == {[sources |-> {1}, prompt |-> 10]}
Call(t, reads, writes, egress) == [tool |-> t, reads |-> reads, writes |-> writes, egress |-> egress]
MCAgentRuns ==
  {[id |-> "r1", agent |-> 6, calls |-> <<Call(8, {1}, {7, 3}, FALSE)>>],
   [id |-> "r2", agent |-> 6, calls |-> <<Call(8, {}, {}, TRUE), Call(8, {7}, {2}, FALSE)>>]}

MCSources  == [d1 |-> 4, d2 |-> None]
MCShard    == [d1 |-> "s0", d2 |-> None]
MCIdentity ==
  <<[namespace |-> <<"duckdb">>, name |-> <<"users">>],
    [namespace |-> <<"duckdb">>, name |-> <<"docs">>],
    [namespace |-> <<"corpus://", "local">>, name |-> <<"support">>],
    [namespace |-> <<"s3://", "lake">>, name |-> <<"raw", "tickets">>]>>
MCLineage  == [nodes |-> 1 .. 4, edges |-> {<<1, 4, "x">>, <<2, 3, "x">>},
               spec |-> [d \in 1 .. 4 |-> UNPARTITIONED]]
Sensitive(n) == [confidence |-> n, confirmed |-> FALSE]
MCContextLabels == (<<1, "pii">> :> Sensitive(9)) @@ (<<2, "pii">> :> Sensitive(2))

MCSteps     == <<10000, 500000, 1000000>>
MCVariables == [a |-> {"x"}, b |-> {"x", "y"}]

Shape(s, t, metric, optimizer, framework, checksum) ==
  [scheme |-> s, topology |-> t, metric |-> metric, optimizer |-> optimizer, framework |-> framework,
   version |-> IF framework = Unsaid THEN Unsaid ELSE "2", checksum |-> checksum]
MCShapes ==
  {Shape("per_rank", <<2, 1, 1>>, 2, TRUE, "torch", TRUE), Shape("sharded", <<1, 2, 1>>, NoMetric, FALSE, "torch", TRUE),
   Shape("single", <<2, 1, 1>>, 1, TRUE, Unsaid, FALSE)}
MCJobs ==
  {[target |-> t, framework |-> f, version |-> v, parameters |-> 7] :
     t \in {<<1, 1, 1>>, <<2, 1, 1>>, <<1, 2, 1>>}, f \in {Unsaid, "torch", "jax"}, v \in {Unsaid, "3"}}

Setup(settings, seed, code) == [hyperparameters |-> settings, seed |-> seed, code |-> code, inputs |-> {1}]
MCSetups == {Setup([lr |-> 1], 7, "v1"), Setup([lr |-> 1, tf32 |-> 1], NoSeed, NoCode)}

\* One hash per row: an order of the 1- and 2-grams over {"a", "b"}.
RankIn(order) == [g \in Range(order) |-> CHOOSE i \in DOMAIN order : order[i] = g]
MCHash ==
  LET A == <<"a">>  B == <<"b">>  AA == <<"a", "a">>  AB == <<"a", "b">>  BA == <<"b", "a">>  BB == <<"b", "b">>
  IN  <<RankIn(<<A, B, AA, AB, BA, BB>>), RankIn(<<BB, BA, AB, AA, B, A>>), RankIn(<<AB, BB, A, B, BA, AA>>),
        RankIn(<<BA, AA, BB, AB, A, B>>), RankIn(<<AA, BA, BB, AB, A, B>>), RankIn(<<AB, AA, BA, BB, A, B>>)>>
MCPassages ==
  {<< >>, <<"a">>, <<"a", "a">>, <<"a", "b">>, <<"b", "a">>, <<"b", "b">>} \cup
  {<<"a", "a", "b">>, <<"b", "a", "a">>, <<"b", "a", "b">>, <<"a", "a", "b", "b">>, <<"b", "b", "a", "a">>,
   <<"a", "b", "a", "a">>, <<"a", "b", "b", "b">>}

MCRestrictions == <<{"research"}, {}, {"nc"}, {}>>
MCSizeOf == [web |-> 0, code |-> 4]
MCTokenRatios == {<<3, 2>>, <<1, 1>>}

AssetsInit ==
  /\ desk \in Desks
  /\ ExposureInit /\ RetrievalInit /\ DeploymentsInit /\ PromptsInit
  /\ CheckpointsInit /\ SweepInit /\ SafetyInit
  /\ DuplicatesInit /\ DerivationsInit /\ MixturesInit
  /\ desk # "deployments" => strategy = "canary"
  /\ desk # "safety" => suite = << >>
  /\ desk # "retrieval" => space = None
  /\ IF desk = "tokenizers" THEN TokenizersInit
     ELSE /\ vocabulary = << >> /\ special = {} /\ cached = << >> /\ templates = {}
          /\ tokenizers = 1 /\ tokens = 0

AssetsNext ==
  /\ UNCHANGED desk
  /\ \/ desk = "exposure" /\ ExposureNext
     \/ desk = "retrieval" /\ RetrievalNext
     \/ desk = "deployments" /\ DeploymentsNext /\ UNCHANGED promptVars
     \/ desk = "prompts" /\ PromptsNext /\ UNCHANGED deploymentVars
     \/ desk = "checkpoints" /\ CheckpointsNext
     \/ desk = "sweep" /\ SweepNext
     \/ desk = "safety" /\ SafetyNext
     \/ desk = "duplicates" /\ DuplicatesNext
     \/ desk = "derivations" /\ DerivationsNext
     \/ desk = "preferences" /\ PreferencesNext
     \/ desk = "mixtures" /\ MixturesNext
     \/ desk = "tokenizers" /\ TokenizersNext
  /\ desk # "exposure" => UNCHANGED exposureVars
  /\ desk # "retrieval" => UNCHANGED retrievalVars
  /\ desk \notin {"deployments", "prompts"} => UNCHANGED servingVars
  /\ desk # "checkpoints" => UNCHANGED checkpointVars
  /\ desk # "sweep" => UNCHANGED sweepVars
  /\ desk # "safety" => UNCHANGED safetyVars
  /\ desk # "duplicates" => UNCHANGED duplicateVars
  /\ desk \notin {"derivations", "preferences"} => UNCHANGED derivationVars
  /\ desk # "mixtures" => UNCHANGED mixtureVars
  /\ desk # "tokenizers" => UNCHANGED tokenizerVars

AssetsSpec == AssetsInit /\ [][AssetsNext]_assetVars

-----------------------------------------------------------------------------
\* ai/unlearning.py, ai/agents.py: a widened erasure plan is carried out as far as it
\* admits it; what learned from the data has it in its weights; the reports on a model agree;
\* and what an agent reads through a tool is seen.
ErasureIsAdmitted ==
  desk = "exposure" => ExtendedPlansAdmitAll /\ LearnedMeansInWeights /\ ReportsAgree /\ LaunderingIsSeen

\* ai/evals.py, ai/features.py: a clean score shares nothing with its test, and what a watched
\* table reaches is found from both ends.
TestsAndFeaturesAreTraced == desk = "exposure" => CleanScoresShareNothing /\ WatchedFeaturesAreFound

\* ai/vectors.py, ai/rag.py: carrying out a reindex plan makes the index current, what was
\* erased is not retrieved, and a context is judged by what its chunks came from.
RetrievalForgets ==
  desk = "retrieval" => ReindexingMakesCurrent /\ ErasedIsNotRetrieved /\ ContextsAreJudgedByOrigin

\* ai/serve/deployments.py, ai/quality/safety.py: traffic is whole and goes where the rollout says;
\* a probe that fails again is told.
ReleasesAreGuarded ==
  /\ desk = "deployments" => TrafficIsRouted
  /\ desk = "safety" => RecurrenceIsTold

\* ai/train/checkpoints.py, experiments.py: what a claim rests on is kept, a verdict on a
\* resume has its grounds, and who loses to the winner lost.
RunsCanBeTrusted ==
  /\ desk = "checkpoints" => EvidenceIsKept /\ VerdictsAreFounded
  /\ desk = "sweep" => LosersLoseToWinners

\* contamination.py, mixtures.py, finetuning.py, tokenizers.py: what a model was made from is
\* known: copies, weights, ancestors, agreement, and the vectors of a vocabulary.
MakingsAreKnown ==
  /\ desk = "duplicates" => CopiesAreGrouped /\ CopiesAreNeverClean
  /\ desk = "mixtures" => RemixesBalance
  /\ desk = "derivations" => BasesAreFound
  /\ desk = "preferences" => StableMeansAgreed
  /\ desk = "tokenizers" => KeptVectorsStillDecode

\* ai/prompts.py, experiments.py, tokenizers.py: prompt history answers for the past, a trial beaten
\* stays beaten, and a vocabulary that grew is compatible.
PastAnswersStand ==
  [][/\ desk = "prompts" => PastAnswersKept
     /\ desk = "sweep" => TheBeatenStayBeaten
     /\ desk = "tokenizers" => GrowthIsCompatible]_assetVars
=============================================================================
