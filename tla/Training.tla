------------------------------ MODULE Training ------------------------------
(***************************************************************************)
(* Training runs: ai/train/checkpoints.py and experiments.py.              *)
(***************************************************************************)
EXTENDS Integers, Sequences, FiniteSets, FiniteSetsExt, SequencesExt, Functions, TLC

(***************************************************************************)
(* The checkpoints of a training run, ai/train/checkpoints.py: what can be *)
(* resumed from, into which topology, and which ones the retention plan    *)
(* keeps, while the run writes more, files are lost and other assets are   *)
(* derived from them.  A topology is <<data, tensor, pipeline>>; expert    *)
(* and context parallelism, two more factors of the same size, are 1.  A   *)
(* job that resumes is [target, framework, version, parameters]; what it   *)
(* or a checkpoint does not say is Unsaid.                                 *)
(***************************************************************************)

CONSTANTS Shapes,           \* how a checkpoint is written: [scheme, topology, metric, optimizer,
                            \* framework, version, checksum]
          Jobs, Unsaid, NoMetric, KeepLast, MilestoneEvery, Minimize,
          Limit, MaxStep, MaxHeld

ASSUME CheckpointAssumption ==
  /\ KeepLast \in Nat
  /\ \A job \in Jobs : {"target", "framework"} \subseteq DOMAIN job
  /\ \A s \in Shapes :
       /\ s.scheme \in {"per_rank", "sharded", "single", "consolidated"}
       /\ \A axis \in 1 .. 3 : s.topology[axis] \in Nat \ {0}
       /\ s.metric \in Int \cup {NoMetric}

VARIABLES held,         \* the checkpoints on disk
          referenced,   \* steps that something in the graph was derived from
          step,         \* of the run
          retained      \* the last retention plan carried out, with what it was made of

checkpointVars == <<held, referenced, step, retained>>

Size(t)      == t[1] * t[2] * t[3]
WorldSize(c) == Size(c.topology)

\* The ranks of a checkpoint with no shard; one file is rank 0's.
MissingShards(c) ==
  IF c.scheme \in {"single", "consolidated"} THEN IF c.ranks = {} THEN {0} ELSE {}
  ELSE (0 .. WorldSize(c) - 1) \ c.ranks

OnlyAtItsSize(c, target) == c.scheme = "per_rank" /\ WorldSize(c) # Size(target)
Differ(mine, theirs)     == mine # Unsaid /\ theirs # Unsaid /\ mine # theirs

Blockers(c, job) ==
  (IF MissingShards(c) # {} THEN {"shards"} ELSE {})
    \cup (IF OnlyAtItsSize(c, job.target) THEN {"world size"} ELSE {})
    \cup (IF Differ(job.framework, c.framework) THEN {"framework"} ELSE {})

\* can_resume: loadable, loadable after resharding, or blocked.
Warnings(c, job) ==
  LET moved == c.topology # job.target
  IN  (IF moved /\ c.scheme \in {"sharded", "consolidated"} THEN {"reshard"} ELSE {})
        \cup (IF moved /\ c.scheme = "single" THEN {"broadcast"} ELSE {})
        \cup (IF job.target[2] > 1 /\ job.parameters % job.target[2] # 0 THEN {"parameters"} ELSE {})
        \cup (IF Differ(job.version, c.version) THEN {"version"} ELSE {})
        \cup (IF ~c.optimizer /\ c.ranks # {} THEN {"optimizer"} ELSE {})
CanResume(c, job) ==
  [can |-> Blockers(c, job) = {},
   reshard |-> "reshard" \in Warnings(c, job) /\ Blockers(c, job) = {},
   warnings |-> Warnings(c, job)]

\* A job of which only the topology is known.
JobAt(t) == [target |-> t, framework |-> Unsaid, version |-> Unsaid, parameters |-> 0]
IsReshardingRequired(c, t) == CanResume(c, JobAt(t)).reshard

\* compatible_topologies: in the order the divisors are tried, up to the limit.
Divisors(n) == {d \in 1 .. n : n % d = 0}
CompatibleTopologies(c) ==
  LET size == WorldSize(c)
      pairs == {x \in Divisors(size) \X Divisors(size) : (size \div x[1]) % x[2] = 0}
      before(x) == {y \in pairs : y[1] < x[1] \/ (y[1] = x[1] /\ y[2] < x[2])}
  IN  CASE c.scheme = "per_rank" -> {c.topology}
        [] c.scheme = "single"   -> {<<n, 1, 1>> : n \in 1 .. Min({size, Limit})}
        [] OTHER -> {<<size \div (x[1] * x[2]), x[1], x[2]>> :
                       x \in {y \in pairs : Cardinality(before(y)) < Limit}}

\* reshard_plan: tensors have to be gathered first if an axis gets shorter.
GatherRequired(c, target) == c.topology[2] > target[2] \/ c.topology[3] > target[3]
ShardsOut(c, target) == IF c.scheme = "single" THEN 1 ELSE Size(target)

\* validate: what is wrong with the files, before a resume.  Steps are never negative here.
Problems(c) ==
  (IF MissingShards(c) # {} THEN {"missing"} ELSE {})
    \cup (IF c.scheme = "per_rank" /\ Cardinality(c.ranks) # WorldSize(c) THEN {"count"} ELSE {})
    \cup (IF c.ranks # {} /\ ~c.checksum THEN {"checksum"} ELSE {})
    \cup (IF c.framework = Unsaid THEN {"framework"} ELSE {})

-----------------------------------------------------------------------------
\* retention_plan.  ordered[-0:] is the whole list.
LatestOf(cs) == CHOOSE c \in cs : \A d \in cs : d.step <= c.step
Window(cs) == IF KeepLast = 0 THEN cs
              ELSE {c \in cs : Cardinality({d \in cs : d.step > c.step}) < KeepLast}
Best(cs) ==
  LET usable == {c \in cs : c.metric # NoMetric}
      wins(c, d) == IF Minimize THEN c.metric < d.metric ELSE c.metric > d.metric
  IN  {c \in usable : \A d \in usable \ {c} : wins(c, d) \/ (c.metric = d.metric /\ c.step < d.step)}
Milestones(cs) ==
  IF MilestoneEvery = 0 THEN {} ELSE {c \in cs : c.step > 0 /\ c.step % MilestoneEvery = 0}

\* Mutant: age comes before evidence.
KeptWithinReach(cs, from) ==
  Window(cs) \cup Best(cs) \cup Milestones(cs)
    \cup {c \in cs : c.step \in from /\ c.step > LatestOf(cs).step - 2}

Kept(cs, from) == Window(cs) \cup Best(cs) \cup Milestones(cs) \cup {c \in cs : c.step \in from}

\* The reason each is kept for: the last one that applies is the one told.
Reason(cs, from, c) ==
  IF c.step \in from       THEN "has_descendants"
  ELSE IF c \in Best(cs)    THEN "best"
  ELSE IF c = LatestOf(cs)  THEN "latest"
  ELSE IF c \in Window(cs)  THEN "within_window" ELSE "milestone"
RetentionPlan(cs, from) ==
  [keep |-> {<<c, Reason(cs, from, c)>> : c \in Kept(cs, from)}, drop |-> cs \ Kept(cs, from)]

-----------------------------------------------------------------------------
Nothing == [of |-> {}, from |-> {}, drop |-> {}]
CheckpointsInit == held = {} /\ referenced = {} /\ step = 0 /\ retained = Nothing

\* Outside the code: the trainer writes a checkpoint, whole.
Written(s, n) ==
  [step |-> n, ranks |-> IF s.scheme \in {"single", "consolidated"} THEN {0} ELSE 0 .. Size(s.topology) - 1,
   scheme |-> s.scheme, topology |-> s.topology, metric |-> s.metric, optimizer |-> s.optimizer,
   framework |-> s.framework, version |-> s.version, checksum |-> s.checksum]
Write ==
  /\ step < MaxStep /\ Cardinality(held) < MaxHeld
  /\ \E s \in Shapes :
       held' = held \cup {Written(s, step)}
  /\ step' = step + 1 /\ retained' = Nothing /\ UNCHANGED referenced

\* A file is lost, an asset is derived from a checkpoint.
LoseShard == \E c \in held, r \in UNION {x.ranks : x \in held} :
  /\ r \in c.ranks
  /\ held' = (held \ {c}) \cup {[c EXCEPT !.ranks = @ \ {r}]}
  /\ retained' = Nothing /\ UNCHANGED <<referenced, step>>
Derive == \E c \in held :
  /\ MissingShards(c) = {}
  /\ referenced' = referenced \cup {c.step} /\ retained' = Nothing /\ UNCHANGED <<held, step>>

\* Somebody asks for a plan and carries it out.
Retain ==
  /\ held # {}
  /\ LET plan == RetentionPlan(held, referenced)
     IN  /\ held' = held \ plan.drop
         /\ retained' = [of |-> held, from |-> referenced, drop |-> plan.drop]
  /\ UNCHANGED <<referenced, step>>

CheckpointsNext == Write \/ LoseShard \/ Derive \/ Retain

-----------------------------------------------------------------------------
\* Retention never drops the evidence: whatever was lost or dropped before, each checkpoint
\* that something was derived from is still there, the newest and the best of what was held
\* are, and what is dropped is neither one of the last nor a milestone.
EvidenceIsKept ==
  /\ referenced \subseteq {c.step : c \in held}
  /\ \A c \in retained.drop :
       /\ c.step \notin retained.from
       /\ Cardinality({d \in retained.of \ retained.drop : d.step > c.step}) >= KeepLast
       /\ c.metric # NoMetric =>
            \E d \in retained.of \ retained.drop :
              IF Minimize THEN d.metric # NoMetric /\ d.metric <= c.metric
              ELSE d.metric # NoMetric /\ d.metric >= c.metric

\* A checkpoint that lost a file is resumed by no job, and validate says so before; one that
\* validate finds nothing wrong with is resumed in every topology named as compatible, by each
\* job of its framework; a verdict says what it costs: resharding is never silent, leaves one
\* file for each rank of the job, and is what a gather is needed for.
VerdictsAreFounded ==
  \A c \in held :
    /\ \A job \in Jobs :
         LET verdict == CanResume(c, job) IN
         /\ verdict.can /\ job.framework # Unsaid /\ Problems(c) \subseteq {"checksum"} =>
              c.framework = job.framework
         /\ verdict.can => "missing" \notin Problems(c) /\ "count" \notin Problems(c)
         /\ verdict.reshard => "reshard" \in verdict.warnings /\ Size(job.target) = ShardsOut(c, job.target)
         /\ verdict.can /\ GatherRequired(c, job.target) =>
              verdict.reshard \/ c.scheme \in {"single", "per_rank"}
         /\ verdict.can /\ c.scheme = "per_rank" => WorldSize(c) = Size(job.target)
    /\ Problems(c) = {} => \A t \in CompatibleTopologies(c) :
         /\ CanResume(c, JobAt(t)).can
         /\ \A job \in Jobs : job.framework \in {Unsaid, c.framework} => CanResume(c, [job EXCEPT !.target = t]).can

\* What compatible_topologies says (checkpoints.py:326): "Topologies this checkpoint loads
\* into without resharding".
CompatibleNeedsNoResharding ==
  \A c \in held : \A t \in CompatibleTopologies(c) : ~IsReshardingRequired(c, t)

-----------------------------------------------------------------------------
(***************************************************************************)
(* A sweep of training runs, ai/train/experiments.py: which trials may be  *)
(* compared, which is best, which are worth keeping (the Pareto front) and *)
(* what a comparison of two explains, while the tracker reports interim    *)
(* metrics of the ones that still run.                                     *)
(***************************************************************************)

CONSTANTS TrialNames,
          Setups,          \* [hyperparameters, seed, code, inputs] of a run; the first: a function
          Measures, Scores, Objective, LowerIsBetter,
          NoCode, NoSeed, RiskySettings

ASSUME SweepAssumption == Scores \subseteq Int

VARIABLE trials            \* name -> [status, metrics, setup]; names are in list order
sweepVars == <<trials>>

IsComparable(status) == status = "completed"

CompletedOf(ts) == {t \in DOMAIN ts : IsComparable(ts[t].status)}
ScoreOf(ts, t)  == ts[t].metrics[Objective]
Scored(ts)      == {t \in CompletedOf(ts) : Objective \in DOMAIN ts[t].metrics}

\* best_trial: the first of the best.
Better(a, b) == IF LowerIsBetter THEN a < b ELSE a > b
BestTrials(ts) ==
  LET best == {t \in Scored(ts) : \A u \in Scored(ts) : ~Better(ScoreOf(ts, u), ScoreOf(ts, t))}
  IN  {t \in best : \A u \in best : t <= u}

\* dominated: b beats a on one metric and loses on none, all of them known.
Dominated(a, b) ==
  /\ Measures \subseteq DOMAIN a \cap DOMAIN b
  /\ \A m \in Measures : b[m] <= a[m]
  /\ \E m \in Measures : b[m] < a[m]

ParetoFront(ts) ==
  {t \in CompletedOf(ts) :
     \A u \in CompletedOf(ts) \ {t} : ~Dominated(ts[t].metrics, ts[u].metrics)}

SweepSummary(ts) ==
  LET values == {ScoreOf(ts, t) : t \in Scored(ts)}
  IN  [trials |-> Cardinality(DOMAIN ts), completed |-> Cardinality(CompletedOf(ts)),
       failed |-> Cardinality({t \in DOMAIN ts : ts[t].status = "failed"}),
       best |-> BestTrials(ts),
       value |-> IF values = {} THEN {} ELSE {IF LowerIsBetter THEN Min(values) ELSE Max(values)},
       spread |-> IF values = {} THEN 0 ELSE Max(values) - Min(values)]

-----------------------------------------------------------------------------
\* diff_hyperparameters, compare, is_regression, nondeterminism_sources, an ablation.
DiffHyperparameters(a, b) ==
  {k \in DOMAIN a.hyperparameters \cup DOMAIN b.hyperparameters :
     ~(k \in DOMAIN a.hyperparameters /\ k \in DOMAIN b.hyperparameters /\ a.hyperparameters[k] = b.hyperparameters[k])}
MetricDeltas(x, y) ==
  [m \in DOMAIN x.metrics \cap DOMAIN y.metrics |-> y.metrics[m] - x.metrics[m]]
CodeChanged(a, b) == a.code # NoCode /\ a.code # b.code
Unexplained(x, y) ==
  LET a == x.setup  b == y.setup  deltas == MetricDeltas(x, y)
  IN  /\ \E m \in DOMAIN deltas : deltas[m] # 0
      /\ DiffHyperparameters(a, b) = {}
      /\ a.inputs = b.inputs /\ ~CodeChanged(a, b) /\ a.seed = b.seed
IsRegression(x, y, tolerance) ==
  /\ Objective \in DOMAIN x.metrics \cap DOMAIN y.metrics
  /\ LET delta == y.metrics[Objective] - x.metrics[Objective]
     IN  IF LowerIsBetter THEN delta > tolerance ELSE delta < -tolerance
NondeterminismSources(a) ==
  (IF a.seed = NoSeed THEN {"seed"} ELSE {}) \cup (IF a.code = NoCode THEN {"code_version"} ELSE {})
    \cup {k \in DOMAIN a.hyperparameters \cap RiskySettings : a.hyperparameters[k] # 0}
IsReproducible(a)      == NondeterminismSources(a) = {}
IsControlled(a, b, k)  == DiffHyperparameters(a, b) = {k}

-----------------------------------------------------------------------------
\* Outside the code: the tracker's jobs.
SweepInit == trials = << >>

Alter(t, new) == trials' = [trials EXCEPT ![t] = new]

\* Trials are appended to the sweep's list.
Launch == \E t \in TrialNames \ DOMAIN trials, s \in Setups :
  /\ t = Cardinality(DOMAIN trials) + 1
  /\ trials' = [u \in DOMAIN trials \cup {t} |->
                  IF u = t THEN [status |-> "pending", metrics |-> << >>, setup |-> s] ELSE trials[u]]
ReportMetric == \E t \in DOMAIN trials, m \in Measures, v \in Scores :
  /\ trials[t].status = "running"
  /\ Alter(t, [trials[t] EXCEPT !.metrics = [n \in DOMAIN @ \cup {m} |-> IF n = m THEN v ELSE @[n]]])
EndTrial == \E t \in DOMAIN trials, how \in {"completed", "failed", "preempted", "cancelled"} :
  /\ trials[t].status = "running" \/ (trials[t].status = "pending" /\ how = "cancelled")
  /\ Alter(t, [trials[t] EXCEPT !.status = how])
RunTrial == \E t \in DOMAIN trials :
  trials[t].status \in {"pending", "preempted"} /\ Alter(t, [trials[t] EXCEPT !.status = "running"])

SweepNext == Launch \/ ReportMetric \/ EndTrial \/ RunTrial

-----------------------------------------------------------------------------
\* A finished trial that was beaten never comes back: what the others report while they
\* run cannot put it in the front, nor take it out for a moment only.
TheBeatenStayBeaten ==
  \A t \in CompletedOf(trials) : t \notin ParetoFront(trials) => t \notin ParetoFront(trials')

\* Nothing good is dropped from the front for nothing: each finished trial left out loses to
\* one that is in; the summary's value is its best trial's, which nothing finished regresses
\* from the other way; a comparison of two trials that nothing recorded explains means the
\* same whichever comes first, if both say from which code they were built; and a regression
\* is then either explained or of a run that says why it cannot be repeated.
LosersLoseToWinners ==
  /\ \A t \in CompletedOf(trials) \ ParetoFront(trials) :
       \E u \in ParetoFront(trials) : Dominated(trials[t].metrics, trials[u].metrics)
  /\ SweepSummary(trials).value = {ScoreOf(trials, t) : t \in BestTrials(trials)}
  /\ \A t \in CompletedOf(trials), u \in BestTrials(trials) : ~IsRegression(trials[t], trials[u], 0)
  /\ \A t, u \in CompletedOf(trials) :
       LET x == trials[t]  y == trials[u] IN
         /\ x.setup.code # NoCode /\ y.setup.code # NoCode => (Unexplained(x, y) <=> Unexplained(y, x))
         /\ Unexplained(x, y) /\ IsReproducible(x.setup) =>
              x.setup.code = y.setup.code /\ \A k \in DOMAIN x.setup.hyperparameters : ~IsControlled(x.setup, y.setup, k)
         /\ IsRegression(x, y, 0) /\ ~Unexplained(x, y) =>
              x.setup # y.setup
=============================================================================
