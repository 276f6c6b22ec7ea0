------------------------------ MODULE Exposure ------------------------------
(***************************************************************************)
(* What an AI asset holds of the data it was made from: the recorders of   *)
(* ai/ (training, evals, rag, vectors, features, prompts, agents) add      *)
(* edges to the lineage graph, and ai/unlearning.py and ai/training.py     *)
(* answer from them which assets a subject's rows reached, by which route, *)
(* and what remains to be done after the rows are deleted.                 *)
(* The route of an asset is read off its first recorded in-edge, so here   *)
(* the edges are a sequence, and saving and loading the graph puts it in   *)
(* the order of the store.                                                 *)
(***************************************************************************)
EXTENDS Lineage

CONSTANTS KindOf,           \* kind_of: the scheme in an asset's name
          Capabilities,     \* what the storage of a table allows
          TrainingRuns,     \* [model, inputs, columns, base]; no base is 0
          Evals,            \* [suite, model]
          Contexts,         \* [sources, model, sink]; no sink is 0
          Indexes,          \* [corpus, space, index]
          Views,            \* [sources, view, online]
          Templates,        \* [sources, prompt]
          AgentRuns,        \* [id, agent, calls], a call [tool, reads, writes, egress]
          Labelled,         \* datasets with a watched label
          MaxRecorded

Assets  == DOMAIN KindOf

\* Every asset has a name, and an agent's run is a sequence of calls.
ASSUME ExposureAssumption ==
  /\ IsFiniteSet(Assets) /\ Assets \subseteq Nat \ {0}
  /\ \A r \in TrainingRuns : /\ r.inputs \subseteq Assets /\ r.model \in Assets
                             /\ r.columns \in BOOLEAN /\ r.base \in Assets \cup {0}
  /\ \A e \in Evals : e.suite \in Assets /\ e.model \in Assets
  /\ \A c \in Contexts : c.sources \subseteq Assets /\ c.model \in Assets /\ c.sink \in Assets \cup {0}
  /\ \A i \in Indexes : i.corpus \in Assets /\ i.space \in Assets /\ i.index \in Assets
  /\ \A v \in Views : v.sources \subseteq Assets /\ v.view \in Assets /\ v.online \in Assets \cup {0}
  /\ \A t \in Templates : t.sources \subseteq Assets /\ t.prompt \in Assets
  /\ \A r \in AgentRuns :
       /\ r.agent \in Assets
       /\ r.calls \in Seq([tool : Assets, reads : SUBSET Assets, writes : SUBSET Assets, egress : BOOLEAN])
  /\ \A d \in DOMAIN Capabilities : Capabilities[d] \in {"rewrite", "none"}

VARIABLES lineage,          \* the graph, its edges in the order of the list
          stored,           \* the datasets in the order of their row ids
          runs              \* the agent's runs so far

exposureVars == <<lineage, stored, runs>>

Weights == {"model", "checkpoint", "adapter"}

IsModel(a) == KindOf[a] \in Weights
InGraph(lin) == [lin EXCEPT !.edges = Range(@)]

\* spec_for: the kinds with a partition spec of their own.
SpecFor(a) == IF KindOf[a] \in {"table", "run", "deployment"} THEN UNPARTITIONED ELSE "keyed"

-----------------------------------------------------------------------------
\* link: both ends are registered, a spec that is known is kept, the edge is appended.
Link(lin, e, srcSpec, dstSpec) ==
  LET kept(d, given) == IF SpecOf(lin, d) # UNPARTITIONED THEN SpecOf(lin, d) ELSE given
      nodes == lin.nodes \cup {e.src, e.dst}
  IN  [nodes |-> nodes, edges |-> Append(lin.edges, <<e.src, e.dst, e.via, e.columns>>),
       spec |-> [d \in nodes |-> CASE d = e.src -> kept(d, srcSpec)
                                   [] d = e.dst -> kept(d, dstSpec)
                                   [] OTHER -> SpecOf(lin, d)]]

Edge(a, b, via, columns) == [src |-> a, dst |-> b, via |-> via, columns |-> columns]

\* A link for each of the sources, in the order of their names; no spec is given for them.
LinkAll(lin, sources, dst, via, columns) ==
  LET from  == Sorted(sources)
      nodes == lin.nodes \cup (IF sources = {} THEN {} ELSE sources \cup {dst})
  IN  [nodes |-> nodes,
       edges |-> lin.edges \o [i \in DOMAIN from |-> <<from[i], dst, via, columns>>],
       spec  |-> [d \in nodes |-> IF d = dst /\ SpecOf(lin, d) = UNPARTITIONED /\ sources # {} THEN SpecFor(dst)
                                  ELSE SpecOf(lin, d)]]

\* A link to each of the targets; no spec is given for either end.
LinkEach(lin, src, targets, via) ==
  LET to    == Sorted(targets)
      nodes == lin.nodes \cup (IF targets = {} THEN {} ELSE targets \cup {src})
  IN  [nodes |-> nodes, edges |-> lin.edges \o [i \in DOMAIN to |-> <<src, to[i], via, FALSE>>],
       spec  |-> [d \in nodes |-> SpecOf(lin, d)]]

\* A run with neither inputs nor a base leaves its model in the graph alone.
TrainedOn(lin, run) ==
  LET fed   == LinkAll(lin, run.inputs, run.model, "training", run.columns)
      nodes == lin.nodes \cup {run.model}
  IN  IF run.base # 0
      THEN Link(fed, Edge(run.base, run.model, "training:base", FALSE), "keyed", SpecFor(run.model))
      ELSE IF run.inputs # {} THEN fed
      ELSE [lin EXCEPT !.nodes = nodes,
                       !.spec = [d \in nodes |-> IF d = run.model THEN SpecFor(d) ELSE SpecOf(lin, d)]]

InContext(lin, c) ==
  LET read == LinkAll(lin, c.sources, c.model, "context", FALSE)
  IN  IF c.sink = 0 THEN read
      ELSE Link(read, Edge(c.model, c.sink, "context:sink", FALSE), UNPARTITIONED, UNPARTITIONED)

Indexed(lin, i) ==
  LET made == Link(lin, Edge(i.corpus, i.index, "embedding:corpus", FALSE), SpecFor(i.corpus), "keyed")
  IN  Link(made, Edge(i.space, i.index, "embedding:space", FALSE), "keyed", "keyed")

Materialized(lin, v) ==
  LET offline == LinkAll(lin, v.sources, v.view, "feature:offline", TRUE)
  IN  IF v.online = 0 THEN offline
      ELSE Link(offline, Edge(v.view, v.online, "feature:online", TRUE), UNPARTITIONED, UNPARTITIONED)

\* The run's id, part of its edges' evidence in the code, is left out here.
Called(lin, agent, c) ==
  LinkEach(LinkAll(Link(lin, Edge(c.tool, agent, "agent:tool", FALSE), "keyed", "keyed"),
                   c.reads, agent, "agent:read", FALSE),
           agent, c.writes, "agent:write")
AllCalled(lin, run) ==
  LET called[i \in 0 .. Len(run.calls)] ==
        IF i = 0 THEN lin ELSE Called(called[i - 1], run.agent, run.calls[i])
  IN  called[Len(run.calls)]

\* load_graph reads the edges ORDER BY src, dst, evidence, and save_graph keeps one row
\* of each; a dataset's id says when it was first stored.
EvidenceOrder == <<"agent:read", "agent:tool", "agent:write", "context", "context:sink",
                   "embedding:corpus", "embedding:space", "eval", "feature:offline",
                   "feature:online", "prompt:variable", "training", "training:base">>
Position(s, x) == CHOOSE i \in DOMAIN s : s[i] = x
StoredAfter(ids, lin) == ids \o Sorted(lin.nodes \ Range(ids))
Key(e) == <<e[1], e[2], e[3]>>
StoredBefore(ids, e, f) ==
  LET a == <<Position(ids, e[1]), Position(ids, e[2]), Position(EvidenceOrder, e[3])>>
      b == <<Position(ids, f[1]), Position(ids, f[2]), Position(EvidenceOrder, f[3])>>
  IN  a[1] < b[1] \/ (a[1] = b[1] /\ (a[2] < b[2] \/ (a[2] = b[2] /\ a[3] < b[3])))
Reloaded(ids, lin) ==
  LET rows == {lin.edges[i] : i \in {j \in DOMAIN lin.edges :
                                        \A k \in DOMAIN lin.edges : k > j => Key(lin.edges[k]) # Key(lin.edges[j])}}
  IN  [lin EXCEPT !.edges =
         [n \in 1 .. Cardinality(rows) |->
            CHOOSE e \in rows : Cardinality({f \in rows : StoredBefore(ids, f, e)}) + 1 = n]]

-----------------------------------------------------------------------------
ExposureInit ==
  /\ lineage = [nodes |-> {}, edges |-> << >>, spec |-> << >>]
  /\ stored = << >> /\ runs = << >>

Recorded(lin) == lineage' = lin /\ UNCHANGED <<stored, runs>>

RecordTrainingRun == \E r \in TrainingRuns : Recorded(TrainedOn(lineage, r))
RecordEval == \E e \in Evals :
  Recorded(Link(lineage, Edge(e.suite, e.model, "eval", FALSE), SpecFor(e.suite), "keyed"))
RecordContext     == \E c \in Contexts : Recorded(InContext(lineage, c))
RecordIndex       == \E i \in Indexes : Recorded(Indexed(lineage, i))
RecordFeatureView == \E v \in Views : Recorded(Materialized(lineage, v))
RecordPrompt      == \E t \in Templates :
  Recorded(LinkAll(lineage, t.sources, t.prompt, "prompt:variable", TRUE))
RecordAgentRun    == \E r \in AgentRuns :
  /\ lineage' = AllCalled(lineage, r)
  /\ runs' = Append(runs, r)
  /\ UNCHANGED stored

SaveAndLoad ==
  /\ stored' = StoredAfter(stored, lineage)
  /\ lineage' = Reloaded(stored', lineage)
  /\ UNCHANGED runs

ExposureNext ==
  /\ Len(lineage.edges) < MaxRecorded
  /\ \/ RecordTrainingRun \/ RecordEval \/ RecordContext \/ RecordIndex
     \/ RecordFeatureView \/ RecordPrompt \/ RecordAgentRun \/ SaveAndLoad

-----------------------------------------------------------------------------
\* unlearning.py.
RouteFromEvidence(via) ==
  CASE via \in {"training", "training:base"} -> "training"
    [] via = "eval" -> "evaluation"
    [] via \in {"context", "context:sink"} -> "context"
    [] via \in {"embedding:corpus", "embedding:space"} -> "retrieval"
    [] OTHER -> "unknown"

\* Mutant: checkpoints are forgotten.
RouteOfKindPartial(kind) ==
  CASE kind = "model" -> "training" [] kind = "adapter" -> "fine_tune"
    [] OTHER -> "unknown"

RouteOfKind(kind) ==
  CASE kind \in {"model", "checkpoint"} -> "training"
    [] kind = "adapter" -> "fine_tune"
    [] kind \in {"index", "embedding", "corpus"} -> "retrieval"
    [] kind = "eval" -> "evaluation"
    [] kind \in {"prompt", "agent", "tool"} -> "context"
    [] OTHER -> "unknown"

\* The first in-edge whose evidence names a route decides; with none, the asset's kind.
RouteOf(lin, a) ==
  LET told == {i \in DOMAIN lin.edges : lin.edges[i][2] = a /\ RouteFromEvidence(lin.edges[i][3]) # "unknown"}
  IN  IF told = {} THEN RouteOfKind(KindOf[a]) ELSE RouteFromEvidence(lin.edges[Min(told)][3])

\* exposures: the assets reached that are not tables, with their route and hops.
Exposures(lin, origin) ==
  LET g == InGraph(lin)
  IN  [a \in {d \in Descendants(g, origin) : KindOf[d] # "table"} |->
         [route |-> RouteOf(lin, a), hops |-> Len(ShortestPath(g, origin, a)) - 1]]

IsInWeights(x) == x.route \in {"training", "fine_tune"}

\* obligations; _COMPLETE are the remedies that discharge one when done.
Remediation(x, a, shreddable, approximable) ==
  IF IsInWeights(x)
  THEN IF a \in shreddable THEN "crypto_shred"
       ELSE IF a \in approximable THEN "approximate_unlearn" ELSE "retrain"
  ELSE CASE x.route \in {"evaluation", "context"} -> "purge_logs"
         [] x.route = "retrieval" -> "delete_vectors"
         [] OTHER -> "none"
Obligations(lin, origin, shreddable, approximable) ==
  LET found == Exposures(lin, origin)
  IN  [a \in DOMAIN found |->
         [route |-> found[a].route,
          remedy |-> Remediation(found[a], a, shreddable, approximable)]]
CompleteIfDone == {"retrain", "crypto_shred", "delete_vectors"}

RetrainingRequired(lin, origin) ==
  LET due == Obligations(lin, origin, {}, {}) IN {a \in DOMAIN due : due[a].remedy = "retrain"}
IsDeletionSufficient(lin, origin) ==
  LET found == Exposures(lin, origin) IN \A a \in DOMAIN found : ~IsInWeights(found[a])

\* unreachable_copies and completeness_statement: what the report says is out of scope,
\* whether it says "not complete", and the actions it lists.
UnreachableCopies(lin, origin) ==
  LET found == Exposures(lin, origin)
  IN  {<<"weights", a>> : a \in {x \in DOMAIN found : IsInWeights(found[x])}}
        \cup {<<"endpoint", a>> : a \in {x \in DOMAIN found : found[x].route = "context"}}
CompletenessStatement(lin, origin, shreddable) ==
  LET due == Obligations(lin, origin, shreddable, {})
  IN  [affected |-> {a \in DOMAIN due : IsInWeights(due[a])}, outstanding |-> DOMAIN due]

ExposureSummary(lin, origin) ==
  LET found == Exposures(lin, origin)
  IN  [r \in {found[a].route : a \in DOMAIN found} |->
         Cardinality({a \in DOMAIN found : found[a].route = r})]
ModelsExposedTo(lin, origin) == {a \in DOMAIN Exposures(lin, origin) : IsModel(a)}

-----------------------------------------------------------------------------
\* plan_erasure's answer on such a graph: every edge widens, so the targets are the
\* origin and what it reaches.  A refusal is the text alone, or an asset and a text.
NoNote == "none"
BasePlan(lin, origin) ==
  LET reached == {origin} \cup Descendants(InGraph(lin), origin)
      blocked(d) == IF d \notin DOMAIN Capabilities THEN "no adapter"
                    ELSE IF Capabilities[d] = "none" THEN "refuses deletion" ELSE NoNote
      target(d)  == [mode |-> IF blocked(d) = NoNote THEN "rewrite" ELSE "none", blocked |-> blocked(d)]
  IN  [targets |-> [d \in reached |-> target(d)],
       refusals |-> {<<0, blocked(d)>> : d \in {x \in reached : blocked(x) # NoNote}}]

\* extend_plan, one obligation: the target is replaced, and the refusals that read like
\* the reason it had are removed.
WithObligation(plan, a, remedy) ==
  LET shred    == remedy = "crypto_shred"
      previous == IF a \in DOMAIN plan.targets THEN plan.targets[a].blocked ELSE NoNote
      kept     == IF previous = NoNote THEN plan.refusals ELSE plan.refusals \ {<<0, previous>>}
      target   == [mode |-> IF shred THEN "crypto_shred" ELSE "none",
                   blocked |-> IF shred THEN NoNote ELSE remedy]
  IN  [targets |-> [d \in DOMAIN plan.targets \cup {a} |->
                      IF d = a THEN target ELSE plan.targets[d]],
       refusals |-> IF shred THEN kept ELSE kept \cup {<<a, remedy>>}]
ExtendPlan(lin, origin, plan, shreddable) ==
  LET due   == Obligations(lin, origin, shreddable, {})
      order == Sorted(DOMAIN due)
      extended[i \in 0 .. Len(order)] ==
        IF i = 0 THEN plan ELSE WithObligation(extended[i - 1], order[i], due[order[i]].remedy)
  IN  extended[Len(order)]

PlanIsComplete(plan) ==
  /\ plan.refusals = {}
  /\ \A d \in DOMAIN plan.targets :
       plan.targets[d].blocked = NoNote /\ plan.targets[d].mode # "none"

-----------------------------------------------------------------------------
\* training.py.
TrainingInputs(lin, m)  == Parents(InGraph(lin), m)
ModelsTrainedOn(lin, d) == {a \in Descendants(InGraph(lin), d) : IsModel(a)}
ModelsOf(lin)           == {a \in lin.nodes : IsModel(a)}
UntrackedModels(lin)    == {a \in ModelsOf(lin) : InEdges(InGraph(lin), a) = {}}
TrainingEdges(lin)      == {e \in Range(lin.edges) : e[3] \in {"training", "training:base"}}

\* The mapping of an edge the recorders link is unbounded, so a partitioned source is a gap.
ProvenanceGaps(lin, m) ==
  LET g == InGraph(lin)  up == Ancestors(g, m)
      orphans == {d \in up : KindOf[d] = "table" /\ InEdges(g, d) = {} /\ SpecOf(lin, d) = UNPARTITIONED}
  IN  IF up = {} THEN {<<"unknown", m>>}
      ELSE {<<"columns", e[1]>> : e \in {x \in InEdges(g, m) : ~x[4]}}
             \cup {<<"partitions", d>> : d \in {x \in Parents(g, m) : SpecOf(lin, x) # UNPARTITIONED}}
             \cup {<<"origin", d>> : d \in orphans}

BillOfMaterials(lin, m) ==
  LET up == Ancestors(InGraph(lin), m)
  IN  [direct |-> TrainingInputs(lin, m), transitive |-> up,
       base |-> {a \in up : IsModel(a)}, gaps |-> ProvenanceGaps(lin, m)]

-----------------------------------------------------------------------------
\* agents.py: what a run read, and what it could have carried out.
DatasetsRead(run)    == UNION {run.calls[i].reads : i \in DOMAIN run.calls}
DatasetsWritten(run) == UNION {run.calls[i].writes : i \in DOMAIN run.calls}
ToolsUsed(run)       == {run.calls[i].tool : i \in DOMAIN run.calls}
EgressPoints(run)    == {i \in DOMAIN run.calls : run.calls[i].egress}
AgentReach(lin, run) == UNION {{d} \cup Ancestors(InGraph(lin), d) : d \in DatasetsRead(run)}
LabelsTouched(lin, run)     == AgentReach(lin, run) \cap Labelled
ExfiltrationPaths(lin, run) ==
  IF LabelsTouched(lin, run) = {} THEN {} ELSE EgressPoints(run)
\* A prior of the same id is the run itself; runs that nobody named all look like one.
FirstTimeAccess(run, history) ==
  DatasetsRead(run) \ UNION {DatasetsRead(history[i]) : i \in {j \in DOMAIN history : history[j].id # run.id}}
LeastPrivilegeGap(granted, history) ==
  granted \ UNION {DatasetsRead(history[i]) \cup DatasetsWritten(history[i]) : i \in DOMAIN history}
BlastRadius(lin, agent) == Descendants(InGraph(lin), agent)
UnreviewedWrites(lin, agent) ==
  LET g == InGraph(lin) IN {d \in Children(g, agent) : OutEdges(g, d) # {}}
RiskReport(lin, run, history) ==
  [exfiltration |-> ExfiltrationPaths(lin, run), novel |-> FirstTimeAccess(run, history),
   touched |-> LabelsTouched(lin, run)]
AccessFrequency(history) ==
  [d \in UNION {DatasetsRead(history[i]) : i \in DOMAIN history} |->
     Cardinality({i \in DOMAIN history : d \in DatasetsRead(history[i])})]

-----------------------------------------------------------------------------
Tables == {d \in lineage.nodes : KindOf[d] = "table"}

\* A plan that was extended and reads complete has nothing left anywhere: each model the
\* subject reached learned it under a key that can be destroyed, no other asset was
\* reached, and every table can be erased from.  Every other asset is blocked for its
\* own reason and is refused by name.
ExtendedPlansAdmitAll ==
  \A o \in Tables : \A shreddable \in SUBSET ModelsOf(lineage) :
    LET plan == ExtendPlan(lineage, o, BasePlan(lineage, o), shreddable)
        due  == Obligations(lineage, o, shreddable, {})
        shred == {a \in DOMAIN due : due[a].remedy = "crypto_shred"}
    IN  /\ PlanIsComplete(plan) <=>
             /\ DOMAIN due = shred
             /\ \A d \in DOMAIN plan.targets \ shred :
                  d \in DOMAIN Capabilities /\ Capabilities[d] = "rewrite"
        /\ \A a \in DOMAIN due \ shred :
             plan.targets[a].blocked = due[a].remedy /\ <<a, due[a].remedy>> \in plan.refusals

\* A model that nobody graded or prompted is counted as holding the data it learned, so
\* that its rows' deletion is never called sufficient, whichever recorder wrote first
\* and however often the graph was stored.
LearnedMeansInWeights ==
  \A o \in Tables : \A m \in ModelsTrainedOn(lineage, o) :
    (\A e \in InEdges(InGraph(lineage), m) : RouteFromEvidence(e[3]) \in {"training", "unknown"})
      => /\ m \in RetrainingRequired(lineage, o) /\ ~IsDeletionSufficient(lineage, o)
         /\ m \in CompletenessStatement(lineage, o, {}).affected
         /\ <<"weights", m>> \in UnreachableCopies(lineage, o)

\* The reports agree: what needs retraining is what keeps deletion from being enough, the
\* summary counts every exposure once, and a dataset is in a model's bill of materials
\* exactly when the model is among those trained on it.
ReportsAgree ==
  /\ \A o \in Tables :
       /\ IsDeletionSufficient(lineage, o) <=> RetrainingRequired(lineage, o) = {}
       /\ ModelsExposedTo(lineage, o) = ModelsTrainedOn(lineage, o)
       /\ LET s == ExposureSummary(lineage, o)
          IN  SumFunction(s) = Cardinality(DOMAIN Exposures(lineage, o))
       /\ \A m \in ModelsOf(lineage) :
            o \in BillOfMaterials(lineage, m).transitive <=> m \in ModelsTrainedOn(lineage, o)
  /\ \A m \in ModelsOf(lineage) :
       LET bill == BillOfMaterials(lineage, m)
       IN  /\ bill.gaps = {} =>
                bill.direct # {} /\ \A e \in InEdges(InGraph(lineage), m) : e[3] # "training:base"
           /\ m \in UntrackedModels(lineage) => bill.gaps # {}

\* Data that one run of an agent wrote after reading a watched label is watched in the
\* later runs that read it: carrying it out of the system is reported, wherever in a run
\* the call that does so stands, and what it wrote is listed as feeding others unreviewed.  A grant on
\* anything that some run read is not offered for revocation, and only a dataset no other
\* run read is new to a run.
LaunderingIsSeen ==
  /\ LeastPrivilegeGap(Assets, runs) \cap DOMAIN AccessFrequency(runs) = {}
  /\ \A i \in DOMAIN runs : \A d \in RiskReport(lineage, runs[i], runs).novel :
       \A j \in DOMAIN runs : d \in DatasetsRead(runs[j]) => runs[j].id = runs[i].id
  /\ \A i, j \in DOMAIN runs :
       LET passed == DatasetsWritten(runs[i]) \cap DatasetsRead(runs[j])
       IN  /\ passed \subseteq UnreviewedWrites(lineage, runs[i].agent)
           /\ passed # {} => DatasetsWritten(runs[j]) \subseteq BlastRadius(lineage, runs[i].agent)
           /\ DatasetsRead(runs[i]) \cap Labelled # {} /\ passed # {} /\ EgressPoints(runs[j]) # {}
                => RiskReport(lineage, runs[j], SubSeq(runs, 1, j - 1)).exfiltration # {}

\* What is_deletion_sufficient's docstring says (unlearning.py:249-253): "False whenever a
\* model was trained on the data".
TrainedMeansInsufficient ==
  \A o \in Tables :
    LET carries == {o} \cup Descendants(InGraph(lineage), o)
    IN  IsDeletionSufficient(lineage, o)
          => ~ \E e \in TrainingEdges(lineage) : e[1] \in carries /\ IsModel(e[2])

-----------------------------------------------------------------------------
(***************************************************************************)
(* Whether an eval score or a feature can be believed, ai/evals.py and     *)
(* ai/features.py: contamination as reachability in the graph the          *)
(* recorders above build.                                                  *)
(***************************************************************************)

EvalSetsFor(lin, m)       == {s \in Parents(InGraph(lin), m) : KindOf[s] = "eval"}
ModelsEvaluatedBy(lin, s) == {m \in Children(InGraph(lin), s) : IsModel(m)}

\* shared_ancestry and leakage_paths between an input and an eval set.
SharedAncestry(lin, x, s) == CommonAncestors(InGraph(lin), x, s)

\* Mutant: only a set made from the training data is looked for.
LeakageDownstream(lin, x, s) ==
  IF HasPath(InGraph(lin), x, s) THEN {ShortestPath(InGraph(lin), x, s)} ELSE {}

LeakagePaths(lin, x, s) ==
  LET g == InGraph(lin)
  IN  {ShortestPath(g, p[1], p[2]) : p \in {q \in {<<x, s>>, <<s, x>>} : HasPath(g, q[1], q[2])}}

\* contamination, without record ids: every input of the model but the eval set itself.
Contamination(lin, m, s) ==
  LET others == TrainingInputs(lin, m) \ {s}
      shared == UNION {SharedAncestry(lin, x, s) : x \in others}
      paths  == UNION {LeakagePaths(lin, x, s) : x \in others}
  IN  [shared |-> shared, paths |-> paths,
       severity |-> IF paths # {} THEN "contaminated" ELSE IF shared # {} THEN "suspect" ELSE "clean"]
IsContaminated(report) == report.severity = "contaminated"

AuditEvals(lin, m)      == [s \in EvalSetsFor(lin, m) |-> Contamination(lin, m, s)]
ContaminatedModels(lin) ==
  UNION {{<<m, s>> : s \in {t \in EvalSetsFor(lin, m) : IsContaminated(AuditEvals(lin, m)[t])}} :
           m \in ModelsOf(lin)}

\* holdout_integrity; more than five models is too many for one holdout.
HoldoutIntegrity(lin, s) ==
  LET g == InGraph(lin)  up == Ancestors(g, s)
      consumers == {m \in ModelsOf(lin) : HasPath(g, s, m)}
  IN  (IF up = {} THEN {<<"no lineage">>} ELSE {})
        \cup {<<"derived from", a>> : a \in {x \in up : IsModel(x)}}
        \cup (IF Cardinality(consumers) > 5 THEN {<<"overused">>} ELSE {})

-----------------------------------------------------------------------------
FeaturesForModel(lin, m) == {v \in Ancestors(InGraph(lin), m) : KindOf[v] = "feature"}
ModelsUsing(lin, v)      == {m \in Descendants(InGraph(lin), v) : IsModel(m)}
LabelReachesFeatures(lin, d, v) == HasPath(InGraph(lin), d, v)
LeakagePath(lin, d, v) ==
  IF LabelReachesFeatures(lin, d, v) THEN ShortestPath(InGraph(lin), d, v) ELSE << >>

\* views_needing_backfill: what the planner dirties among the views (every edge widens).
ViewsNeedingBackfill(lin, d) ==
  {v \in {d} \cup Descendants(InGraph(lin), d) : KindOf[v] = "feature"}

-----------------------------------------------------------------------------
\* "Never rounding up", nor down: a score reported clean comes from a model none of whose
\* inputs, apart from the eval set's own edge, has anything to do with the eval set, however
\* far above; and every pair reported contaminated has a path to show for it; and a holdout with
\* nothing against it was made by no model.
CleanScoresShareNothing ==
  \A m \in ModelsOf(lineage) : \A s \in EvalSetsFor(lineage, m) :
    LET g == InGraph(lineage)  verdict == Contamination(lineage, m, s).severity
        related == {s} \cup Ancestors(g, s) \cup Descendants(g, s)
    IN  /\ verdict = "clean" =>
             \A x \in TrainingInputs(lineage, m) \ {s} : ({x} \cup Ancestors(g, x)) \cap related = {}
        /\ <<m, s>> \in ContaminatedModels(lineage) <=>
             \E x \in TrainingInputs(lineage, m) \ {s} :
               s \in Ancestors(g, x) \/ x \in Ancestors(g, s)
        /\ m \in ModelsEvaluatedBy(lineage, s)
        /\ verdict = "clean" /\ HoldoutIntegrity(lineage, s) = {} =>
             \A a \in Ancestors(g, s) \ {s} : ~IsModel(a) /\ a \notin BillOfMaterials(lineage, m).direct

\* A view computed from a watched table is found from both ends: the models that use it, and
\* the view itself when that table changes.
WatchedFeaturesAreFound ==
  \A v \in {x \in lineage.nodes : KindOf[x] = "feature"} : \A d \in Tables :
    LabelReachesFeatures(lineage, d, v) =>
      /\ v \in ViewsNeedingBackfill(lineage, d)
      /\ Head(LeakagePath(lineage, d, v)) = d
      /\ \A m \in ModelsUsing(lineage, v) : v \in FeaturesForModel(lineage, m) /\ m \in ModelsTrainedOn(lineage, d)

\* What contaminated_models says (evals.py:253): "Every (model, eval set) pair in the graph
\* with provable leakage": a model that was trained on its own test is one.
TestTrainingIsSeen ==
  \A e, f \in Range(lineage.edges) :
    e[3] = "training" /\ f[3] = "eval" /\ e[1] = f[1] /\ e[2] = f[2] /\ IsModel(e[2])
      => <<e[2], e[1]>> \in ContaminatedModels(lineage)
=============================================================================
