---------------------------- MODULE AssetsProofs ----------------------------
(***************************************************************************)
(* What ai/ promises of models and their data, for every value of the      *)
(* constants: the graph of assets and the reports on it (Exposure),        *)
(* indexes and the contexts retrieved from them (Retrieval), deployments,  *)
(* prompts and red-team probes (Releases), checkpoints and sweeps          *)
(* (Training), tokenizers (Makings).  Each desk has its own inductive      *)
(* invariant; the run's properties combine them.                           *)
(***************************************************************************)
EXTENDS MCAssets, Rounds, SequenceTheorems

(***************************************************************************)
(* ai/vectors.py, ai/rag.py                                                *)
(***************************************************************************)

TypedCorpus(c) == c \in [Chunks -> Texts \cup {None}]

\* The vectors of an index: of chunks, and all of the space the index is recorded with.
IndexOK ==
  /\ DOMAIN embedded \subseteq Chunks
  /\ \A k \in DOMAIN embedded : embedded[k] = [text |-> embedded[k].text, space |-> recordedSpace]

\* A plan names chunks of the corpus it was made from, and replaces or deletes every vector
\* that is there when the space moved.
PlanOK ==
  plan # None =>
    /\ TypedCorpus(plan.texts) /\ plan.todo.chunks \subseteq Present(plan.texts)
    /\ plan.todo.total = Cardinality(Present(plan.texts))
    /\ \A k \in plan.todo.chunks : {"any", Shard[k[1]]} \cap plan.todo.partitions # {}
    /\ IF plan.todo.full THEN DOMAIN embedded \subseteq plan.todo.chunks \cup plan.todo.orphans
       ELSE recordedSpace = plan.space
    /\ ~overtaken => /\ plan.texts = corpus /\ plan.space = space
                     /\ plan.todo = ReindexPlan(embedded, corpus, recordedSpace, space)

ErasedIsGone == erased \subseteq Documents /\ \A k \in Chunks : k[1] \in erased => corpus[k] = None

CurrentIsCurrent ==
  current => /\ DOMAIN embedded = Present(corpus) /\ recordedSpace = space
             /\ \A k \in DOMAIN embedded : embedded[k] = [text |-> corpus[k], space |-> space]

RetrievalInv == TypedCorpus(corpus) /\ IndexOK /\ PlanOK /\ ErasedIsGone /\ CurrentIsCurrent

LEMMA RetrievalBegins ==
  ASSUME RetrievalInit
  PROVE  RetrievalInv
  BY DEF RetrievalInit, RetrievalInv, TypedCorpus, IndexOK, PlanOK, ErasedIsGone, CurrentIsCurrent

\* What a plan made from the index and the corpus as they are says of them.
LEMMA PlansAreMade ==
  ASSUME NEW indexed, NEW c, NEW index, NEW newest
  PROVE  LET p == ReindexPlan(indexed, c, index, newest) IN
         /\ p.chunks \subseteq Present(c) /\ p.total = Cardinality(Present(c))
         /\ p.orphans = DOMAIN indexed \ Present(c)
         /\ p.full = (index # newest)
         /\ p.full => p.chunks = Present(c)
         /\ ~p.full => p.chunks = StaleChunks(indexed, c)
         /\ \A k \in p.chunks : {"any", Shard[k[1]]} \cap p.partitions # {}
  <1> DEFINE stale == StaleChunks(indexed, c)
             p == ReindexPlan(indexed, c, index, newest)
  <1>1. /\ p.chunks = (IF index # newest THEN Present(c) ELSE stale)
        /\ p.partitions = (IF index # newest THEN {"any"} ELSE StaleShards(stale))
        /\ p.total = Cardinality(Present(c)) /\ p.full = (index # newest)
        /\ p.orphans = DOMAIN indexed \ Present(c)
    BY DEF ReindexPlan, OrphanVectors, VersionMismatch
  <1>2. stale \subseteq Present(c)
    BY DEF StaleChunks
  <1>3. \A k \in stale : {"any", Shard[k[1]]} \cap StaleShards(stale) # {}
    <2> HIDE DEF stale
    <2> QED BY DEF StaleShards
  <1> HIDE DEF p, stale
  <1>4. \A k \in p.chunks : {"any", Shard[k[1]]} \cap p.partitions # {}
    BY <1>1, <1>3
  <1> QED BY <1>1, <1>2, <1>4 DEF p, stale

LEMMA RetrievalGoesOn ==
  ASSUME RetrievalInv, RetrievalNext \/ UNCHANGED retrievalVars
  PROVE  RetrievalInv'
  <1>1. CASE UNCHANGED retrievalVars
    BY <1>1 DEF RetrievalInv, retrievalVars, TypedCorpus, IndexOK, PlanOK, ErasedIsGone, CurrentIsCurrent
  <1>2. CASE EditCorpus
    <2>1. PICK k \in Chunks, t \in Texts \cup {None} :
            /\ corpus' = [corpus EXCEPT ![k] = t]
            /\ erased' = IF t # None THEN erased \ {k[1]} ELSE erased
      BY <1>2 DEF EditCorpus
    <2>2. /\ overtaken' = TRUE /\ current' = FALSE
          /\ UNCHANGED <<embedded, recordedSpace, space, plan>>
      BY <1>2 DEF EditCorpus
    <2>3. TypedCorpus(corpus)' /\ ErasedIsGone'
      BY <2>1 DEF RetrievalInv, TypedCorpus, ErasedIsGone
    <2> QED BY <2>2, <2>3 DEF RetrievalInv, IndexOK, PlanOK, CurrentIsCurrent, TypedCorpus
  <1>3. CASE MoveSpace
    BY <1>3 DEF MoveSpace, RetrievalInv, TypedCorpus, IndexOK, PlanOK, ErasedIsGone, CurrentIsCurrent
  <1>4. CASE Plan
    <2> DEFINE work == ReindexPlan(embedded, corpus, recordedSpace, space)
    <2>1. /\ plan' = [todo |-> work, texts |-> corpus, space |-> space]
          /\ overtaken' = FALSE /\ current' = FALSE
          /\ UNCHANGED <<corpus, embedded, recordedSpace, space, erased>>
      BY <1>4 DEF Plan
    <2>2. plan'.todo = work /\ plan'.texts = corpus /\ plan'.space = space
      BY <2>1
    <2>3. /\ work.chunks \subseteq Present(corpus) /\ work.total = Cardinality(Present(corpus))
          /\ work.orphans = DOMAIN embedded \ Present(corpus)
          /\ work.full = (recordedSpace # space)
          /\ work.full => work.chunks = Present(corpus)
          /\ \A k \in work.chunks : {"any", Shard[k[1]]} \cap work.partitions # {}
      BY PlansAreMade
    <2>4. PlanOK'
      <3> HIDE DEF work
      <3> QED BY <2>1, <2>2, <2>3 DEF PlanOK, RetrievalInv, TypedCorpus, work
    <2> QED BY <2>1, <2>4 DEF RetrievalInv, TypedCorpus, IndexOK, ErasedIsGone, CurrentIsCurrent
  <1>5. CASE CarryOut
    <2> DEFINE work == plan.todo
               D == (DOMAIN embedded \cup work.chunks) \ work.orphans
    <2>1. /\ plan # None
          /\ embedded' = [k \in D |-> IF k \in work.chunks THEN [text |-> plan.texts[k], space |-> plan.space]
                                      ELSE embedded[k]]
          /\ recordedSpace' = plan.space /\ plan' = None /\ current' = ~overtaken
          /\ UNCHANGED <<corpus, space, erased>>
      BY <1>5 DEF CarryOut
    <2>2. /\ work.chunks \subseteq Present(plan.texts)
          /\ IF work.full THEN DOMAIN embedded \subseteq work.chunks \cup work.orphans ELSE recordedSpace = plan.space
          /\ ~overtaken => /\ plan.texts = corpus /\ plan.space = space
                           /\ work = ReindexPlan(embedded, corpus, recordedSpace, space)
      BY <2>1 DEF RetrievalInv, PlanOK
    <2>3. DOMAIN embedded' = D /\ D \subseteq Chunks
      BY <2>1, <2>2 DEF RetrievalInv, IndexOK, Present
    <2>4. ASSUME NEW k \in D
          PROVE  embedded'[k] = [text |-> embedded'[k].text, space |-> plan.space]
      <3>1. CASE k \in work.chunks
        BY <2>1, <3>1
      <3>2. CASE k \notin work.chunks
        <4>1. k \in DOMAIN embedded /\ k \notin work.orphans /\ embedded'[k] = embedded[k]
          BY <2>1, <3>2
        <4>2. recordedSpace = plan.space
          BY <2>2, <3>2, <4>1
        <4> QED BY <4>1, <4>2 DEF RetrievalInv, IndexOK
      <3> QED BY <3>1, <3>2
    <2>5. IndexOK'
      <3> HIDE DEF D, work
      <3> QED BY <2>1, <2>3, <2>4 DEF IndexOK
    <2>6. ASSUME ~overtaken PROVE CurrentIsCurrent'
      <3> DEFINE p == ReindexPlan(embedded, corpus, recordedSpace, space)
      <3>1. work = p /\ plan.texts = corpus /\ plan.space = space
        BY <2>2, <2>6
      <3>2. /\ p.orphans = DOMAIN embedded \ Present(corpus)
            /\ p.chunks \subseteq Present(corpus)
            /\ p.full = (recordedSpace # space)
            /\ p.full => p.chunks = Present(corpus)
            /\ ~p.full => p.chunks = StaleChunks(embedded, corpus)
        BY PlansAreMade
      <3> HIDE DEF p, work
      <3>3. \A k \in Present(corpus) : k \in DOMAIN embedded \/ k \in p.chunks
        BY <3>2 DEF StaleChunks
      <3>4. D = Present(corpus)
        BY <3>1, <3>2, <3>3
      <3>5. ASSUME NEW k \in D PROVE embedded'[k] = [text |-> corpus[k], space |-> space]
        <4>1. CASE k \in p.chunks
          BY <2>1, <3>1, <4>1
        <4>2. CASE k \notin p.chunks
          <5>1. ~p.full
            BY <3>2, <3>4, <4>2
          <5>2. k \in DOMAIN embedded /\ embedded[k].text = corpus[k]
            BY <3>2, <3>4, <4>2, <5>1 DEF StaleChunks
          <5>3. embedded'[k] = embedded[k] /\ recordedSpace = space
            BY <2>1, <3>1, <3>2, <4>2, <5>1
          <5> QED BY <5>2, <5>3 DEF RetrievalInv, IndexOK
        <4> QED BY <4>1, <4>2
      <3> HIDE DEF D
      <3> QED BY <2>1, <2>3, <3>1, <3>4, <3>5 DEF CurrentIsCurrent, Present
    <2>7. CurrentIsCurrent'
      BY <2>1, <2>6 DEF CurrentIsCurrent
    <2> QED BY <2>1, <2>5, <2>7 DEF RetrievalInv, TypedCorpus, PlanOK, ErasedIsGone
  <1>6. CASE Erase
    <2>1. PICK d \in Documents :
            /\ corpus' = [k \in Chunks |-> IF k[1] = d THEN None ELSE corpus[k]]
            /\ embedded' = [k \in DOMAIN embedded \ DeletionTargets(embedded, {d}) |-> embedded[k]]
            /\ erased' = erased \cup {d}
      BY <1>6 DEF Erase
    <2>2. overtaken' = TRUE /\ current' = FALSE /\ UNCHANGED <<recordedSpace, space, plan>>
      BY <1>6 DEF Erase
    <2>3. TypedCorpus(corpus)' /\ ErasedIsGone'
      BY <2>1 DEF RetrievalInv, TypedCorpus, ErasedIsGone
    <2>4. DOMAIN embedded' \subseteq DOMAIN embedded /\ \A k \in DOMAIN embedded' : embedded'[k] = embedded[k]
      BY <2>1
    <2>5. IndexOK' /\ PlanOK'
      BY <2>2, <2>4 DEF RetrievalInv, IndexOK, PlanOK, TypedCorpus
    <2> QED BY <2>2, <2>3, <2>5 DEF RetrievalInv, CurrentIsCurrent
  <1> QED BY <1>1, <1>2, <1>3, <1>4, <1>5, <1>6 DEF RetrievalNext

\* The code floors what it counts at 0.
LEMMA AtLeastNothing ==
  ASSUME NEW n \in Int
  PROVE  Max({0, n}) = IF n > 0 THEN n ELSE 0
  <1>1. \E x \in {0, n} : \A y \in {0, n} : x >= y
    OBVIOUS
  <1>2. Max({0, n}) \in {0, n} /\ \A y \in {0, n} : Max({0, n}) >= y
    BY <1>1 DEF Max
  <1> QED BY <1>2

LEMMA SkippedIsTheRest ==
  ASSUME NEW S, IsFiniteSet(S), NEW T \in SUBSET S
  PROVE  Max({0, Cardinality(S) - Cardinality(T)}) = Cardinality(S \ T)
  <1>1. /\ IsFiniteSet(T) /\ IsFiniteSet(S \ T)
        /\ Cardinality(S) \in Nat /\ Cardinality(T) \in Nat /\ Cardinality(S \ T) \in Nat
    BY FS_Subset, FS_Difference, FS_CardinalityType
  <1>2. S \cap T = T
    OBVIOUS
  <1>3. Cardinality(S \ T) = Cardinality(S) - Cardinality(T)
    BY <1>2, FS_Difference
  <1> QED BY <1>1, <1>3, AtLeastNothing

LEMMA ReindexedIsCurrent ==
  ASSUME RetrievalInv
  PROVE  ReindexingMakesCurrent
  <1>1. ASSUME NEW c, TypedCorpus(c) PROVE IsFiniteSet(Present(c))
    BY RetrievalAssumption, FS_Product, FS_Subset DEF RetrievalAssumption, Present, Chunks
  <1>2. ASSUME current
        PROVE  SkippedChunks(ReindexPlan(embedded, corpus, recordedSpace, space)) = Cardinality(DOMAIN embedded)
    <2> DEFINE p == ReindexPlan(embedded, corpus, recordedSpace, space)
    <2>1. DOMAIN embedded = Present(corpus) /\ recordedSpace = space
          /\ \A k \in DOMAIN embedded : embedded[k] = [text |-> corpus[k], space |-> space]
      BY <1>2 DEF RetrievalInv, CurrentIsCurrent
    <2>2. StaleChunks(embedded, corpus) = {}
      BY <2>1 DEF StaleChunks
    <2>3. p.chunks = {} /\ p.total = Cardinality(Present(corpus))
      <3>1. /\ p.full = (recordedSpace # space) /\ p.total = Cardinality(Present(corpus))
            /\ ~p.full => p.chunks = StaleChunks(embedded, corpus)
        BY PlansAreMade
      <3> HIDE DEF p
      <3>2. ~p.full
        BY <2>1, <3>1
      <3> QED BY <2>2, <3>1, <3>2
    <2>4. IsFiniteSet(Present(corpus))
      BY <1>1 DEF RetrievalInv
    <2>5. Present(corpus) \ {} = Present(corpus)
      OBVIOUS
    <2> HIDE DEF p
    <2>6. SkippedChunks(p) = Max({0, Cardinality(Present(corpus)) - Cardinality({})})
      BY <2>3 DEF SkippedChunks
    <2>7. SkippedChunks(p) = Cardinality(Present(corpus))
      BY <2>4, <2>5, <2>6, SkippedIsTheRest
    <2> QED BY <2>1, <2>7 DEF p
  <1>3. ASSUME plan # None
        PROVE  SkippedChunks(plan.todo) = Cardinality(Present(plan.texts) \ plan.todo.chunks)
    <2>1. /\ TypedCorpus(plan.texts) /\ plan.todo.chunks \subseteq Present(plan.texts)
          /\ plan.todo.total = Cardinality(Present(plan.texts))
      BY <1>3 DEF RetrievalInv, PlanOK
    <2> QED BY <1>1, <2>1, SkippedIsTheRest DEF SkippedChunks
  <1> QED BY <1>2, <1>3 DEF RetrievalInv, PlanOK, CurrentIsCurrent, ReindexingMakesCurrent

LEMMA ErasedIsOut ==
  ASSUME RetrievalInv
  PROVE  ErasedIsNotRetrieved
  <1> DEFINE back == RetrievableAfterErasure(embedded, erased)
  <1>1. back = {k \in DOMAIN embedded : k[1] \in erased} /\ DOMAIN embedded \subseteq Chunks
    BY DEF RetrievableAfterErasure, RetrievalInv, IndexOK
  <1>2. \A k \in back : k \notin Present(corpus)
    BY <1>1 DEF RetrievalInv, ErasedIsGone, Present
  <1>3. back \subseteq ReindexPlan(embedded, corpus, recordedSpace, space).orphans
    BY <1>1, <1>2, PlansAreMade
  <1>4. current => back = {}
    BY <1>1, <1>2 DEF RetrievalInv, CurrentIsCurrent
  <1>5. \A m \in Manifests : m.retrieved \subseteq DOMAIN embedded
    BY DEF Manifests, Manifest
  <1>6. ASSUME back = {} PROVE erased \subseteq NeverRetrieved(Manifests, Documents)
    <2>1. \A m \in Manifests : \A k \in m.retrieved : k[1] \notin erased
      BY <1>1, <1>5, <1>6
    <2>2. \A k \in UNION {m.retrieved : m \in Manifests} : k[1] \notin erased
      BY <2>1
    <2>3. \A d \in erased : d \notin {k[1] : k \in UNION {m.retrieved : m \in Manifests}}
      BY <2>2
    <2> QED BY <2>3 DEF NeverRetrieved, RetrievalInv, ErasedIsGone
  <1>7. ASSUME back = {}, NEW m \in Manifests
        PROVE  LET cited == {k \in Chunks : k[1] \in erased} IN UncitedClaims(m, cited) = cited
    BY <1>1, <1>5, <1>7 DEF UncitedClaims
  <1> QED BY <1>3, <1>4, <1>6, <1>7 DEF ErasedIsNotRetrieved

LEMMA ContextsAreJudged == ContextsAreJudgedByOrigin
  <1> SUFFICES ASSUME NEW m \in Manifests
               PROVE  LET drop == RedactionTargets(m)
                          rest == Manifest({k \in m.retrieved \ drop : m.from[k] # None}, {})
                      IN  /\ EnforceContext(rest) = {}
                          /\ EnforceContext(m) = {} =>
                               /\ \A k \in m.retrieved : m.from[k] # None
                               /\ \A k \in drop, name \in Forbidden :
                                    \A d \in {m.from[k]} \cup Ancestors(LineageOf, m.from[k]) : ~ClearlyLabelled(d, name)
    BY DEF ContextsAreJudgedByOrigin
  <1> DEFINE drop == RedactionTargets(m)
             left == {k \in m.retrieved \ drop : m.from[k] # None}
             rest == Manifest(left, {})
             tainted == {x[1] : x \in {y \in DOMAIN ContextLabels : y[2] \in Forbidden}}
             origins(k) == {m.from[k]} \cup Ancestors(LineageOf, m.from[k])
  <1>1. \A k \in m.retrieved : m.from[k] = SourceOf(k)
    BY DEF Manifests, Manifest
  <1>2. drop = {k \in m.retrieved : m.from[k] \notin {None, Nowhere} /\ origins(k) \cap tainted # {}}
    BY DEF RedactionTargets
  <1>3. \A d, name : name \in Forbidden /\ ClearlyLabelled(d, name) => d \in tainted
    BY DEF ClearlyLabelled
  <1>4. rest.retrieved = left /\ rest.tools = {} /\ \A k \in left : rest.from[k] = m.from[k]
    BY <1>1 DEF Manifest
  <1> HIDE DEF drop, rest, tainted
  <1>5. UnattributedRetrievals(rest) = {}
    BY <1>4 DEF UnattributedRetrievals
  <1>6. ASSUME NEW d \in Provenance(rest), NEW name \in Forbidden, ClearlyLabelled(d, name) PROVE FALSE
    <2>1. PICK e \in ManifestDatasets(rest) \ {Nowhere} : d \in {e} \cup Ancestors(LineageOf, e)
      BY <1>6 DEF Provenance
    <2>2. PICK k \in left : e = m.from[k] /\ e # None
      BY <1>4, <2>1 DEF ManifestDatasets
    <2>3. origins(k) \cap tainted = {}
      BY <1>2, <2>1, <2>2
    <2> QED BY <1>3, <1>6, <2>1, <2>2, <2>3
  <1>7. EnforceContext(rest) = {}
    BY <1>5, <1>6 DEF EnforceContext
  <1>8. ASSUME EnforceContext(m) = {}
        PROVE  /\ \A k \in m.retrieved : m.from[k] # None
               /\ \A k \in drop, name \in Forbidden : \A d \in origins(k) : ~ClearlyLabelled(d, name)
    <2>1. UnattributedRetrievals(m) = {}
      BY <1>8 DEF EnforceContext
    <2>2. \A d \in Provenance(m), name \in Forbidden : ~ClearlyLabelled(d, name)
      <3>1. {x \in Provenance(m) \X Forbidden : ClearlyLabelled(x[1], x[2])} = {}
        BY <1>8 DEF EnforceContext
      <3>2. SUFFICES ASSUME NEW d \in Provenance(m), NEW name \in Forbidden, ClearlyLabelled(d, name) PROVE FALSE
        OBVIOUS
      <3>3. <<d, name>> \in Provenance(m) \X Forbidden /\ <<d, name>>[1] = d /\ <<d, name>>[2] = name
        OBVIOUS
      <3> QED BY <3>1, <3>2, <3>3
    <2>3. \A k \in drop : m.from[k] \in ManifestDatasets(m) \ {Nowhere}
      BY <1>2 DEF ManifestDatasets
    <2>4. \A k \in drop : origins(k) \subseteq Provenance(m)
      BY <2>3 DEF Provenance
    <2> QED BY <2>1, <2>2, <2>4 DEF UnattributedRetrievals
  <1> QED BY <1>7, <1>8 DEF drop, rest

(***************************************************************************)
(* ai/train/experiments.py                                                 *)
(***************************************************************************)

\* The trials of a sweep are numbered as they were launched, and their metrics are numbers.
SweepInv ==
  /\ \E n \in Nat : DOMAIN trials = 1 .. n
  /\ \A t \in DOMAIN trials :
       /\ DOMAIN trials[t] = {"status", "metrics", "setup"}
       /\ \A m \in DOMAIN trials[t].metrics : trials[t].metrics[m] \in Int

LEMMA SweepBegins ==
  ASSUME SweepInit
  PROVE  SweepInv
  BY DEF SweepInit, SweepInv

\* What has finished stays as it is.
LEMMA FinishedTrialsStay ==
  ASSUME SweepInv, SweepNext \/ UNCHANGED sweepVars
  PROVE  /\ DOMAIN trials \subseteq DOMAIN trials'
         /\ \A t \in CompletedOf(trials) : trials'[t] = trials[t]
  <1>1. CASE Launch
    BY <1>1 DEF Launch, CompletedOf
  <1>2. CASE ReportMetric
    BY <1>2 DEF ReportMetric, Alter, CompletedOf, IsComparable
  <1>3. CASE EndTrial
    BY <1>3 DEF EndTrial, Alter, CompletedOf, IsComparable
  <1>4. CASE RunTrial
    BY <1>4 DEF RunTrial, Alter, CompletedOf, IsComparable
  <1> QED BY <1>1, <1>2, <1>3, <1>4 DEF SweepNext, sweepVars

LEMMA SweepGoesOn ==
  ASSUME SweepInv, SweepNext \/ UNCHANGED sweepVars
  PROVE  SweepInv'
  <1> DEFINE Whole(x) == /\ DOMAIN x = {"status", "metrics", "setup"}
                         /\ \A m \in DOMAIN x.metrics : x.metrics[m] \in Int
  <1>1. \A t \in DOMAIN trials : Whole(trials[t])
    BY DEF SweepInv
  <1>2. ASSUME NEW t \in DOMAIN trials, NEW new, Whole(new), Alter(t, new)
        PROVE  SweepInv'
    BY <1>2 DEF SweepInv, Alter
  <1>3. CASE Launch
    <2>1. PICK t \in TrialNames \ DOMAIN trials, s \in Setups :
            /\ t = Cardinality(DOMAIN trials) + 1
            /\ trials' = [u \in DOMAIN trials \cup {t} |->
                            IF u = t THEN [status |-> "pending", metrics |-> << >>, setup |-> s] ELSE trials[u]]
      BY <1>3 DEF Launch
    <2>2. PICK n \in Nat : DOMAIN trials = 1 .. n
      BY DEF SweepInv
    <2>3. Cardinality(1 .. n) = n
      BY FS_Interval
    <2>4. DOMAIN trials' = 1 .. (n + 1) /\ n + 1 \in Nat
      BY <2>1, <2>2, <2>3
    <2>5. \A u \in DOMAIN trials' : Whole(trials'[u])
      BY <1>1, <2>1
    <2> QED BY <2>4, <2>5 DEF SweepInv
  <1>4. CASE ReportMetric
    <2>1. PICK t \in DOMAIN trials, m \in Measures, v \in Scores :
            Alter(t, [trials[t] EXCEPT !.metrics = [n \in DOMAIN @ \cup {m} |-> IF n = m THEN v ELSE @[n]]])
      BY <1>4 DEF ReportMetric
    <2> DEFINE told == [n \in DOMAIN trials[t].metrics \cup {m} |-> IF n = m THEN v ELSE trials[t].metrics[n]]
    <2>2. \A n \in DOMAIN told : told[n] \in Int
      BY <1>1, SweepAssumption DEF SweepAssumption
    <2>3. Alter(t, [trials[t] EXCEPT !.metrics = told])
      BY <2>1
    <2>4. Whole([trials[t] EXCEPT !.metrics = told])
      <3> HIDE DEF told
      <3> QED BY <1>1, <2>2
    <2> QED BY <1>2, <2>3, <2>4
  <1>5. ASSUME NEW t \in DOMAIN trials, NEW how PROVE Whole([trials[t] EXCEPT !.status = how])
    BY <1>1
  <1> HIDE DEF Whole
  <1>6. CASE EndTrial
    BY <1>2, <1>5, <1>6 DEF EndTrial
  <1>7. CASE RunTrial
    BY <1>2, <1>5, <1>7 DEF RunTrial
  <1>8. CASE UNCHANGED sweepVars
    BY <1>8 DEF sweepVars, SweepInv
  <1> QED BY <1>3, <1>4, <1>6, <1>7, <1>8 DEF SweepNext

LEMMA FinishedAreFew ==
  ASSUME SweepInv
  PROVE  /\ CompletedOf(trials) \in SUBSET Nat /\ IsFiniteSet(CompletedOf(trials))
         /\ \A t \in CompletedOf(trials) : \A m \in DOMAIN trials[t].metrics : trials[t].metrics[m] \in Int
  <1>1. PICK n \in Nat : DOMAIN trials = 1 .. n
    BY DEF SweepInv
  <1>2. IsFiniteSet(1 .. n)
    BY FS_Interval
  <1> QED BY <1>1, <1>2, FS_Subset DEF CompletedOf, SweepInv

\* Being dominated is a strict order on metrics that are numbers.
LEMMA DominationIsAnOrder ==
  ASSUME NEW a, NEW b, NEW c,
         \A x \in {a, b, c} : \A m \in DOMAIN x : x[m] \in Int
  PROVE  ~Dominated(a, a) /\ (Dominated(a, b) /\ Dominated(b, c) => Dominated(a, c))
  <1>1. ~Dominated(a, a)
    BY DEF Dominated
  <1>2. ASSUME Dominated(a, b), Dominated(b, c) PROVE Dominated(a, c)
    <2>1. \A m \in Measures : a[m] \in Int /\ b[m] \in Int /\ c[m] \in Int /\ b[m] <= a[m] /\ c[m] <= b[m]
      BY <1>2 DEF Dominated
    <2>2. \A m \in Measures : c[m] <= a[m]
      BY <2>1
    <2>3. PICK m \in Measures : b[m] < a[m]
      BY <1>2 DEF Dominated
    <2>4. c[m] < a[m]
      BY <2>1, <2>3
    <2> QED BY <1>2, <2>2, <2>4 DEF Dominated
  <1> QED BY <1>1, <1>2

LEMMA OutOfTheFrontIsBeaten ==
  ASSUME SweepInv, NEW t \in CompletedOf(trials) \ ParetoFront(trials)
  PROVE  \E u \in ParetoFront(trials) : Dominated(trials[t].metrics, trials[u].metrics)
  <1> DEFINE Beats(u, x) == Dominated(trials[x].metrics, trials[u].metrics)
             Above(x) == {u \in CompletedOf(trials) : Beats(u, x)}
  <1>1. /\ \A x \in CompletedOf(trials) : ~Beats(x, x)
        /\ \A x, y, z \in CompletedOf(trials) : Beats(y, x) /\ Beats(z, y) => Beats(z, x)
    BY FinishedAreFew, DominationIsAnOrder
  <1>2. ParetoFront(trials) = {x \in CompletedOf(trials) : \A u \in CompletedOf(trials) \ {x} : ~Beats(u, x)}
    BY DEF ParetoFront
  <1> HIDE DEF Beats
  <1>3. Above(t) # {}
    BY <1>2
  <1>4. \A x \in CompletedOf(trials) : IsFiniteSet(Above(x)) /\ Cardinality(Above(x)) \in Nat
    BY FinishedAreFew, FS_Subset, FS_CardinalityType
  <1> DEFINE Sizes == {Cardinality(Above(u)) : u \in Above(t)}
  <1>5. PICK n \in Sizes : \A k \in Sizes : n <= k
    <2>1. Sizes \in SUBSET Nat /\ Sizes # {}
      BY <1>3, <1>4
    <2> HIDE DEF Sizes
    <2> QED BY <2>1, LeastNumber
  <1>6. PICK u \in Above(t) : n = Cardinality(Above(u))
    OBVIOUS
  <1>7. ASSUME NEW w \in CompletedOf(trials), Beats(w, u) PROVE FALSE
    <2>1. w \in Above(t) /\ w \in Above(u) /\ w \notin Above(w) /\ Above(w) \subseteq Above(u)
      BY <1>1, <1>6, <1>7
    <2>2. Cardinality(Above(u)) <= Cardinality(Above(w))
      <3>1. Cardinality(Above(w)) \in Sizes
        BY <2>1
      <3> HIDE DEF Sizes, Above
      <3> QED BY <1>5, <1>6, <3>1
    <2> HIDE DEF Above
    <2>3. /\ IsFiniteSet(Above(u)) /\ Cardinality(Above(u)) \in Nat /\ Cardinality(Above(w)) \in Nat
      BY <1>4, <1>7, <1>6 DEF Above
    <2>4. Cardinality(Above(w)) <= Cardinality(Above(u))
      BY <2>1, <2>3, FS_Subset
    <2>5. Above(u) = Above(w)
      BY <2>1, <2>2, <2>3, <2>4, FS_Subset
    <2> QED BY <2>1, <2>5
  <1>8. u \in ParetoFront(trials) /\ Beats(u, t)
    BY <1>2, <1>6, <1>7
  <1> QED BY <1>8 DEF Beats

LEMMA TheBeatenStay ==
  ASSUME SweepInv, SweepInv', SweepNext \/ UNCHANGED sweepVars
  PROVE  TheBeatenStayBeaten
  <1> SUFFICES ASSUME NEW t \in CompletedOf(trials), t \notin ParetoFront(trials)
               PROVE  t \notin ParetoFront(trials')
    BY DEF TheBeatenStayBeaten
  <1>1. PICK u \in CompletedOf(trials) \ {t} : Dominated(trials[t].metrics, trials[u].metrics)
    BY DEF ParetoFront
  <1>2. u \in CompletedOf(trials') /\ trials'[t] = trials[t] /\ trials'[u] = trials[u]
    BY FinishedTrialsStay DEF CompletedOf
  <1> QED BY <1>1, <1>2 DEF ParetoFront

\* The best trial is the first of those with the best score.
LEMMA BestIsBest ==
  ASSUME SweepInv
  PROVE  /\ SweepSummary(trials).value = {ScoreOf(trials, t) : t \in BestTrials(trials)}
         /\ \A t \in CompletedOf(trials), u \in BestTrials(trials) : ~IsRegression(trials[t], trials[u], 0)
  <1> DEFINE Score(t) == ScoreOf(trials, t)
             values == {Score(t) : t \in Scored(trials)}
             best == {t \in Scored(trials) : \A u \in Scored(trials) : ~Better(Score(u), Score(t))}
             extreme == IF LowerIsBetter THEN Min(values) ELSE Max(values)
  <1>1. /\ Scored(trials) \in SUBSET Nat /\ IsFiniteSet(Scored(trials))
        /\ \A t \in Scored(trials) : Score(t) \in Int
    BY FinishedAreFew, FS_Subset DEF Scored, ScoreOf
  <1>2. BestTrials(trials) = {t \in best : \A u \in best : t <= u}
    BY DEF BestTrials
  <1>3. SweepSummary(trials).value = IF values = {} THEN {} ELSE {extreme}
    BY DEF SweepSummary
  <1>4. IsFiniteSet(values) /\ values \in SUBSET Int
    <2> DEFINE scores == [t \in Scored(trials) |-> Score(t)]
    <2>1. values = {scores[t] : t \in Scored(trials)}
      OBVIOUS
    <2>2. IsFiniteSet({scores[t] : t \in Scored(trials)})
      <3> HIDE DEF Score
      <3> QED BY <1>1, ImageIsFinite
    <2> QED BY <1>1, <2>1, <2>2
  <1> HIDE DEF Score
  <1>5. ASSUME values = {}
        PROVE  SweepSummary(trials).value = {ScoreOf(trials, t) : t \in BestTrials(trials)}
    <2>1. Scored(trials) = {} /\ BestTrials(trials) = {}
      BY <1>2, <1>5
    <2> QED BY <1>3, <1>5, <2>1
  <1>6. ASSUME values # {}
        PROVE  SweepSummary(trials).value = {ScoreOf(trials, t) : t \in BestTrials(trials)}
    <2>1. extreme \in values /\ \A v \in values : ~Better(v, extreme)
      <3>1. \E m \in values : \A v \in values : m <= v
        <4> HIDE DEF values
        <4> QED BY <1>4, <1>6, FiniteHasLeast
      <3>2. \E m \in values : \A v \in values : v <= m
        <4> HIDE DEF values
        <4> QED BY <1>4, <1>6, FiniteHasGreatest
      <3> HIDE DEF values
      <3>3. Min(values) \in values /\ \A v \in values : Min(values) <= v
        BY <3>1 DEF Min
      <3>4. \A m, v \in values : v <= m <=> m >= v
        BY <1>4
      <3>5. \E m \in values : \A v \in values : m >= v
        BY <3>2, <3>4
      <3>6. Max(values) \in values /\ \A v \in values : Max(values) >= v
        BY <3>5 DEF Max
      <3>7. \A v \in values : v \in Int /\ ~Better(v, extreme)
        <4> TAKE v \in values
        <4>1. /\ v \in Int /\ Min(values) \in Int /\ Max(values) \in Int
              /\ Min(values) <= v /\ Max(values) >= v
          BY <1>4, <3>3, <3>6
        <4>2. CASE LowerIsBetter
          BY <4>1, <4>2 DEF Better
        <4>3. CASE ~LowerIsBetter
          BY <4>1, <4>3 DEF Better
        <4> QED BY <4>2, <4>3
      <3> QED BY <3>3, <3>6, <3>7
    <2>2. PICK t \in Scored(trials) : Score(t) = extreme
      BY <2>1
    <2>3. t \in best
      BY <2>1, <2>2
    <2>4. \A u \in best : Score(u) = extreme
      <3> TAKE u \in best
      <3>1. ~Better(Score(t), Score(u)) /\ ~Better(Score(u), Score(t)) /\ Score(t) \in Int /\ Score(u) \in Int
        BY <1>1, <2>3
      <3> QED BY <2>2, <3>1 DEF Better
    <2>5. PICK first \in best : \A u \in best : first <= u
      <3>1. best \in SUBSET Nat /\ best # {}
        BY <1>1, <2>3
      <3> HIDE DEF best
      <3> QED BY <3>1, LeastNumber
    <2>6. first \in BestTrials(trials) /\ BestTrials(trials) \subseteq best
      BY <1>2, <2>5
    <2>7. {Score(u) : u \in BestTrials(trials)} = {extreme}
      BY <2>4, <2>6
    <2> QED BY <1>3, <1>6, <2>7 DEF Score
  <1>7. \A t \in CompletedOf(trials), u \in BestTrials(trials) : ~IsRegression(trials[t], trials[u], 0)
    <2> SUFFICES ASSUME NEW t \in CompletedOf(trials), NEW u \in BestTrials(trials), IsRegression(trials[t], trials[u], 0)
                 PROVE  FALSE
      OBVIOUS
    <2>1. t \in Scored(trials) /\ u \in Scored(trials) /\ ~Better(Score(t), Score(u))
      BY <1>2 DEF IsRegression, Scored
    <2>2. Score(t) = trials[t].metrics[Objective] /\ Score(u) = trials[u].metrics[Objective]
      BY DEF Score, ScoreOf
    <2> QED BY <1>1, <2>1, <2>2 DEF IsRegression, Better
  <1> QED BY <1>5, <1>6, <1>7 DEF Score

LEMMA ComparisonsExplain ==
  ASSUME SweepInv, NEW t \in CompletedOf(trials), NEW u \in CompletedOf(trials)
  PROVE  LET x == trials[t]  y == trials[u] IN
         /\ x.setup.code # NoCode /\ y.setup.code # NoCode => (Unexplained(x, y) <=> Unexplained(y, x))
         /\ Unexplained(x, y) /\ IsReproducible(x.setup) =>
              x.setup.code = y.setup.code /\ \A k \in DOMAIN x.setup.hyperparameters : ~IsControlled(x.setup, y.setup, k)
         /\ IsRegression(x, y, 0) /\ ~Unexplained(x, y) => x.setup # y.setup
  <1> DEFINE x == trials[t]
             y == trials[u]
             dx == MetricDeltas(x, y)
             dy == MetricDeltas(y, x)
  <1>1. \A m \in DOMAIN x.metrics \cap DOMAIN y.metrics : x.metrics[m] \in Int /\ y.metrics[m] \in Int
    BY FinishedAreFew
  <1>2. /\ DOMAIN dx = DOMAIN x.metrics \cap DOMAIN y.metrics
        /\ DOMAIN dy = DOMAIN x.metrics \cap DOMAIN y.metrics
        /\ \A m \in DOMAIN dx : dx[m] = y.metrics[m] - x.metrics[m] /\ dy[m] = x.metrics[m] - y.metrics[m]
    BY DEF MetricDeltas
  <1> HIDE DEF dx, dy
  <1>3. (\E m \in DOMAIN dx : dx[m] # 0) <=> (\E m \in DOMAIN dy : dy[m] # 0)
    <2>1. \A m \in DOMAIN dx : dx[m] # 0 <=> dy[m] # 0
      BY <1>1, <1>2
    <2> QED BY <1>2, <2>1
  <1>4. DiffHyperparameters(x.setup, y.setup) = DiffHyperparameters(y.setup, x.setup)
    BY DEF DiffHyperparameters
  <1>5. Unexplained(x, y) <=> /\ \E m \in DOMAIN dx : dx[m] # 0
                              /\ DiffHyperparameters(x.setup, y.setup) = {}
                              /\ x.setup.inputs = y.setup.inputs /\ ~CodeChanged(x.setup, y.setup)
                              /\ x.setup.seed = y.setup.seed
    BY DEF Unexplained, dx
  <1>6. Unexplained(y, x) <=> /\ \E m \in DOMAIN dy : dy[m] # 0
                              /\ DiffHyperparameters(y.setup, x.setup) = {}
                              /\ y.setup.inputs = x.setup.inputs /\ ~CodeChanged(y.setup, x.setup)
                              /\ y.setup.seed = x.setup.seed
    BY DEF Unexplained, dy
  <1> HIDE DEF x, y
  <1>7. x.setup.code # NoCode /\ y.setup.code # NoCode => (Unexplained(x, y) <=> Unexplained(y, x))
    BY <1>3, <1>4, <1>5, <1>6 DEF CodeChanged
  <1>8. ASSUME Unexplained(x, y), IsReproducible(x.setup)
        PROVE  x.setup.code = y.setup.code /\ \A k \in DOMAIN x.setup.hyperparameters : ~IsControlled(x.setup, y.setup, k)
    <2>1. x.setup.code # NoCode
      BY <1>8 DEF IsReproducible, NondeterminismSources
    <2> QED BY <1>5, <1>8, <2>1 DEF CodeChanged, IsControlled
  <1>9. ASSUME IsRegression(x, y, 0), x.setup = y.setup PROVE Unexplained(x, y)
    <2>1. Objective \in DOMAIN dx /\ dx[Objective] # 0
      BY <1>1, <1>2, <1>9 DEF IsRegression
    <2>2. DiffHyperparameters(x.setup, y.setup) = {} /\ ~CodeChanged(x.setup, y.setup)
      BY <1>9 DEF DiffHyperparameters, CodeChanged
    <2> QED BY <1>5, <1>9, <2>1, <2>2
  <1> QED BY <1>7, <1>8, <1>9 DEF x, y

LEMMA LosersLose ==
  ASSUME SweepInv
  PROVE  LosersLoseToWinners
  BY OutOfTheFrontIsBeaten, BestIsBest, ComparisonsExplain DEF LosersLoseToWinners


(***************************************************************************)
(* ai/train/checkpoints.py                                                 *)
(***************************************************************************)

AllRanks(c) == IF c.scheme \in {"single", "consolidated"} THEN {0} ELSE 0 .. WorldSize(c) - 1

\* A checkpoint is of its shape, and lost files at most.
Checkpoint(c) ==
  /\ DOMAIN c = {"step", "ranks", "scheme", "topology", "metric", "optimizer", "framework", "version", "checksum"}
  /\ c.step \in Nat /\ c.metric \in Int \cup {NoMetric}
  /\ c.scheme \in {"per_rank", "sharded", "single", "consolidated"}
  /\ \A axis \in 1 .. 3 : c.topology[axis] \in Nat \ {0}
  /\ c.ranks \subseteq AllRanks(c)

\* No two were written at one step.
Numbered(cs) ==
  /\ IsFiniteSet(cs) /\ \A c \in cs : Checkpoint(c)
  /\ \A c, d \in cs : c.step = d.step => c = d

CheckpointsInv ==
  /\ step \in Nat /\ Numbered(held) /\ \A c \in held : c.step < step
  /\ referenced \subseteq {c.step : c \in held}
  /\ Numbered(retained.of) /\ retained.drop = retained.of \ Kept(retained.of, retained.from)

LEMMA NothingIsDropped == Numbered({}) /\ Nothing.of = {} /\ Nothing.drop = {} \ Kept({}, {}) /\ Nothing.from = {}
  BY FS_EmptySet DEF Numbered, Nothing

LEMMA CheckpointsBegin ==
  ASSUME CheckpointsInit
  PROVE  CheckpointsInv
  BY NothingIsDropped DEF CheckpointsInit, CheckpointsInv

LEMMA KeptAreHeld ==
  ASSUME NEW cs, NEW from
  PROVE  /\ Kept(cs, from) \subseteq cs
         /\ \A c \in cs : c.step \in from => c \in Kept(cs, from)
  BY DEF Kept, Window, Best, Milestones

LEMMA FewerAreNumbered ==
  ASSUME NEW cs, Numbered(cs), NEW S \in SUBSET cs
  PROVE  Numbered(S)
  BY FS_Subset DEF Numbered

LEMMA CheckpointsGoOn ==
  ASSUME CheckpointsInv, CheckpointsNext \/ UNCHANGED checkpointVars
  PROVE  CheckpointsInv'
  <1>1. CASE Write
    <2>1. PICK s \in Shapes : held' = held \cup {Written(s, step)}
      BY <1>1 DEF Write
    <2> DEFINE new == Written(s, step)
    <2>2. /\ s.scheme \in {"per_rank", "sharded", "single", "consolidated"}
          /\ \A axis \in 1 .. 3 : s.topology[axis] \in Nat \ {0}
          /\ s.metric \in Int \cup {NoMetric}
      BY CheckpointAssumption DEF CheckpointAssumption
    <2>3. /\ DOMAIN new = {"step", "ranks", "scheme", "topology", "metric", "optimizer", "framework", "version", "checksum"}
          /\ new.step = step
          /\ new.ranks = IF s.scheme \in {"single", "consolidated"} THEN {0} ELSE 0 .. Size(s.topology) - 1
          /\ new.scheme = s.scheme /\ new.topology = s.topology /\ new.metric = s.metric
      BY DEF Written
    <2> HIDE DEF new
    <2>4. Checkpoint(new)
      BY <2>2, <2>3 DEF Checkpoint, AllRanks, WorldSize, CheckpointsInv
    <2>5. /\ held' = held \cup {new} /\ step' = step + 1 /\ retained' = Nothing /\ referenced' = referenced
      BY <1>1, <2>1 DEF Write, new
    <2>6. Numbered(held')
      <3>1. IsFiniteSet(held \cup {new})
        BY FS_AddElement DEF CheckpointsInv, Numbered
      <3>2. \A c \in held : c.step # new.step
        BY <2>3 DEF CheckpointsInv, Numbered, Checkpoint
      <3> QED BY <2>4, <2>5, <3>1, <3>2 DEF CheckpointsInv, Numbered
    <2>7. step' \in Nat /\ \A c \in held' : c.step < step'
      BY <2>3, <2>5 DEF CheckpointsInv, Numbered, Checkpoint
    <2> QED BY <2>5, <2>6, <2>7, NothingIsDropped DEF CheckpointsInv
  <1>2. CASE LoseShard
    <2>1. PICK c \in held, r \in UNION {x.ranks : x \in held} :
            /\ r \in c.ranks /\ held' = (held \ {c}) \cup {[c EXCEPT !.ranks = @ \ {r}]}
      BY <1>2 DEF LoseShard
    <2> DEFINE less == [c EXCEPT !.ranks = @ \ {r}]
    <2>2. retained' = Nothing /\ referenced' = referenced /\ step' = step
      BY <1>2 DEF LoseShard
    <2>3. Checkpoint(c)
      BY DEF CheckpointsInv, Numbered
    <2>4. /\ DOMAIN less = DOMAIN c /\ less.step = c.step /\ less.ranks = c.ranks \ {r}
          /\ less.scheme = c.scheme /\ less.topology = c.topology /\ less.metric = c.metric
      BY <2>3 DEF Checkpoint
    <2> HIDE DEF less
    <2>5. Checkpoint(less)
      BY <2>3, <2>4 DEF Checkpoint, AllRanks, WorldSize
    <2>6. held' = (held \ {c}) \cup {less}
      BY <2>1 DEF less
    <2>7. Numbered(held')
      <3>1. IsFiniteSet((held \ {c}) \cup {less})
        BY FS_AddElement, FS_RemoveElement DEF CheckpointsInv, Numbered
      <3> QED BY <2>4, <2>5, <2>6, <3>1 DEF CheckpointsInv, Numbered
    <2>8. /\ \A d \in held' : d.step < step
          /\ referenced \subseteq {d.step : d \in held'}
      BY <2>4, <2>6 DEF CheckpointsInv
    <2> QED BY <2>2, <2>7, <2>8, NothingIsDropped DEF CheckpointsInv
  <1>3. CASE Derive
    BY <1>3, NothingIsDropped DEF Derive, CheckpointsInv
  <1>4. CASE Retain
    <2>1. /\ held' = held \ (held \ Kept(held, referenced))
          /\ retained' = [of |-> held, from |-> referenced, drop |-> held \ Kept(held, referenced)]
          /\ referenced' = referenced /\ step' = step
      BY <1>4 DEF Retain, RetentionPlan
    <2>2. held' = Kept(held, referenced) /\ held' \in SUBSET held
      BY <2>1, KeptAreHeld
    <2>3. Numbered(held')
      BY <2>2, FewerAreNumbered DEF CheckpointsInv
    <2>4. referenced \subseteq {c.step : c \in held'}
      BY <2>2, KeptAreHeld DEF CheckpointsInv
    <2>5. retained'.of = held /\ retained'.from = referenced /\ retained'.drop = held \ Kept(held, referenced)
      BY <2>1
    <2> QED BY <2>1, <2>2, <2>3, <2>4, <2>5 DEF CheckpointsInv
  <1>5. CASE UNCHANGED checkpointVars
    BY <1>5 DEF checkpointVars, CheckpointsInv
  <1> QED BY <1>1, <1>2, <1>3, <1>4, <1>5 DEF CheckpointsNext

\* Outside the window there are KeepLast newer ones, all of them inside it.
LEMMA TheWindowIsKept ==
  ASSUME NEW cs, Numbered(cs), NEW c \in cs, c \notin Window(cs)
  PROVE  Cardinality({d \in Window(cs) : d.step > c.step}) >= KeepLast
  <1> DEFINE Newer(x) == {d \in cs : d.step > x.step}
             Out == cs \ Window(cs)
             Places == {x.step : x \in Out}
  <1>1. KeepLast \in Nat /\ KeepLast # 0
    BY CheckpointAssumption DEF CheckpointAssumption, Window
  <1>2. \A x \in cs : IsFiniteSet(Newer(x)) /\ Cardinality(Newer(x)) \in Nat /\ x.step \in Nat
    BY FS_Subset, FS_CardinalityType DEF Numbered, Checkpoint
  <1>3. \A x \in Out : x \in cs /\ Cardinality(Newer(x)) >= KeepLast
    <2>1. Window(cs) = {x \in cs : Cardinality(Newer(x)) < KeepLast}
      BY <1>1 DEF Window
    <2> HIDE DEF Newer
    <2> QED BY <1>1, <1>2, <2>1
  <1>4. PICK n \in Places : \A k \in Places : k <= n
    <2>1. Places \in SUBSET Int /\ Places # {}
      <3>1. c \in Out /\ \A x \in Out : x.step \in Int
        <4>1. \A x \in cs : x.step \in Int
          BY DEF Numbered, Checkpoint
        <4> QED BY <4>1
      <3> HIDE DEF Out
      <3> QED BY <3>1
    <2>2. IsFiniteSet(Places)
      <3> DEFINE stepOf == [x \in Out |-> x.step]
      <3>1. IsFiniteSet(Out)
        BY FS_Subset DEF Numbered
      <3>2. IsFiniteSet({stepOf[x] : x \in Out})
        <4> HIDE DEF Out
        <4> QED BY <3>1, ImageIsFinite
      <3>3. Places = {stepOf[x] : x \in Out}
        OBVIOUS
      <3> QED BY <3>2, <3>3
    <2> HIDE DEF Places
    <2> QED BY <2>1, <2>2, FiniteHasGreatest
  <1>5. PICK e \in Out : n = e.step
    OBVIOUS
  <1>6. \A x \in Out : x.step <= e.step
    BY <1>4, <1>5
  <1>7. Newer(e) \subseteq {d \in Window(cs) : d.step > c.step}
    <2> SUFFICES ASSUME NEW d \in Newer(e) PROVE d \in Window(cs) /\ d.step > c.step
      OBVIOUS
    <2>1. d.step \in Nat /\ e.step \in Nat /\ c.step \in Nat /\ d.step > e.step /\ c.step <= e.step
      BY <1>2, <1>6
    <2>2. d \notin Out
      BY <1>6, <2>1
    <2> QED BY <2>1, <2>2
  <1>8. /\ IsFiniteSet({d \in Window(cs) : d.step > c.step})
        /\ Cardinality({d \in Window(cs) : d.step > c.step}) \in Nat
    BY FS_Subset, FS_CardinalityType DEF Numbered, Window
  <1>9. Cardinality(Newer(e)) <= Cardinality({d \in Window(cs) : d.step > c.step})
    BY <1>7, <1>8, FS_Subset
  <1>10. Cardinality(Newer(e)) \in Nat /\ Cardinality(Newer(e)) >= KeepLast
    BY <1>2, <1>3
  <1> HIDE DEF Newer
  <1> QED BY <1>1, <1>8, <1>9, <1>10

\* One of those with a metric is the best, and no other has a better one.
LEMMA TheBestIsKept ==
  ASSUME NEW cs, Numbered(cs), NEW c \in cs, c.metric # NoMetric
  PROVE  \E d \in Best(cs) : /\ d.metric # NoMetric
                             /\ IF Minimize THEN d.metric <= c.metric ELSE d.metric >= c.metric
  <1> DEFINE Usable == {x \in cs : x.metric # NoMetric}
             Metrics == {x.metric : x \in Usable}
             Goal(m) == \A k \in Metrics : IF Minimize THEN m <= k ELSE k <= m
  <1>1. IsFiniteSet(Usable) /\ c \in Usable /\ \A x \in Usable : x.metric \in Int /\ x.step \in Nat
    BY FS_Subset DEF Numbered, Checkpoint
  <1>2. PICK m \in Metrics : Goal(m)
    <2>1. Metrics \in SUBSET Int /\ Metrics # {}
      BY <1>1
    <2>2. IsFiniteSet(Metrics)
      <3> DEFINE metricOf == [x \in Usable |-> x.metric]
      <3>1. IsFiniteSet({metricOf[x] : x \in Usable})
        <4> HIDE DEF Usable
        <4> QED BY <1>1, ImageIsFinite
      <3>2. Metrics = {metricOf[x] : x \in Usable}
        OBVIOUS
      <3> QED BY <3>1, <3>2
    <2> HIDE DEF Metrics
    <2>3. CASE Minimize
      BY <2>1, <2>2, <2>3, FiniteHasLeast
    <2>4. CASE ~Minimize
      BY <2>1, <2>2, <2>4, FiniteHasGreatest
    <2> QED BY <2>3, <2>4
  <1> DEFINE Places == {x.step : x \in {y \in Usable : y.metric = m}}
  <1>3. PICK s \in Places : \A k \in Places : s <= k
    <2>1. Places \in SUBSET Nat /\ Places # {}
      BY <1>1
    <2> HIDE DEF Places
    <2> QED BY <2>1, LeastNumber
  <1>4. PICK d \in Usable : d.metric = m /\ d.step = s
    OBVIOUS
  <1>5. ASSUME NEW x \in Usable \ {d}
        PROVE  IF Minimize THEN d.metric < x.metric \/ (d.metric = x.metric /\ d.step < x.step)
               ELSE d.metric > x.metric \/ (d.metric = x.metric /\ d.step < x.step)
    <2>1. x.metric \in Int /\ d.metric \in Int /\ x.step \in Nat /\ d.step \in Nat
      BY <1>1
    <2>2. x.step # d.step
      BY DEF Numbered
    <2>3. x.metric = m => d.step <= x.step
      BY <1>3, <1>4
    <2>4. IF Minimize THEN d.metric <= x.metric ELSE x.metric <= d.metric
      BY <1>2, <1>4
    <2> QED BY <1>4, <2>1, <2>2, <2>3, <2>4
  <1>6. d \in Best(cs)
    BY <1>5 DEF Best
  <1>7. IF Minimize THEN d.metric <= c.metric ELSE d.metric >= c.metric
    BY <1>1, <1>2, <1>4
  <1> QED BY <1>4, <1>6, <1>7

LEMMA EvidenceStays ==
  ASSUME CheckpointsInv
  PROVE  EvidenceIsKept
  <1> DEFINE of == retained.of
             left == retained.of \ retained.drop
  <1>1. Numbered(of) /\ retained.drop = of \ Kept(of, retained.from)
    BY DEF CheckpointsInv
  <1>2. Kept(of, retained.from) = left /\ Window(of) \subseteq left /\ Best(of) \subseteq left
    <2>1. Kept(of, retained.from) = left
      BY <1>1, KeptAreHeld
    <2> QED BY <2>1 DEF Kept
  <1>3. ASSUME NEW c \in retained.drop
        PROVE  /\ c.step \notin retained.from
               /\ Cardinality({d \in left : d.step > c.step}) >= KeepLast
               /\ c.metric # NoMetric =>
                    \E d \in left : IF Minimize THEN d.metric # NoMetric /\ d.metric <= c.metric
                                    ELSE d.metric # NoMetric /\ d.metric >= c.metric
    <2>1. c \in of /\ c \notin Window(of) /\ c.step \notin retained.from
      BY <1>1, <1>2, KeptAreHeld
    <2>2. Cardinality({d \in Window(of) : d.step > c.step}) >= KeepLast
      BY <1>1, <2>1, TheWindowIsKept
    <2>3. /\ IsFiniteSet({d \in left : d.step > c.step})
          /\ {d \in Window(of) : d.step > c.step} \in SUBSET {d \in left : d.step > c.step}
      BY <1>1, <1>2, FS_Subset DEF Numbered
    <2>4. Cardinality({d \in left : d.step > c.step}) >= KeepLast
      <3>1. IsFiniteSet({d \in Window(of) : d.step > c.step})
        BY <2>3, FS_Subset
      <3>2. /\ Cardinality({d \in Window(of) : d.step > c.step}) <= Cardinality({d \in left : d.step > c.step})
            /\ Cardinality({d \in left : d.step > c.step}) \in Nat
            /\ Cardinality({d \in Window(of) : d.step > c.step}) \in Nat
        BY <2>3, <3>1, FS_Subset, FS_CardinalityType
      <3> QED BY <2>2, <3>2, CheckpointAssumption DEF CheckpointAssumption
    <2>5. c.metric # NoMetric =>
            \E d \in left : IF Minimize THEN d.metric # NoMetric /\ d.metric <= c.metric
                            ELSE d.metric # NoMetric /\ d.metric >= c.metric
      BY <1>1, <1>2, <2>1, TheBestIsKept
    <2> QED BY <2>1, <2>4, <2>5
  <1> QED BY <1>3 DEF EvidenceIsKept, CheckpointsInv

LEMMA VerdictsHaveGrounds ==
  ASSUME CheckpointsInv
  PROVE  VerdictsAreFounded
  <1> SUFFICES ASSUME NEW c \in held
               PROVE  /\ \A job \in Jobs :
                           LET verdict == CanResume(c, job) IN
                           /\ verdict.can /\ job.framework # Unsaid /\ Problems(c) \subseteq {"checksum"} =>
                                c.framework = job.framework
                           /\ verdict.can => "missing" \notin Problems(c) /\ "count" \notin Problems(c)
                           /\ verdict.reshard => "reshard" \in verdict.warnings /\ Size(job.target) = ShardsOut(c, job.target)
                           /\ verdict.can /\ GatherRequired(c, job.target) =>
                                verdict.reshard \/ c.scheme \in {"single", "per_rank"}
                           /\ verdict.can /\ c.scheme = "per_rank" => WorldSize(c) = Size(job.target)
                      /\ Problems(c) = {} => \A t \in CompatibleTopologies(c) :
                           /\ CanResume(c, JobAt(t)).can
                           /\ \A job \in Jobs : job.framework \in {Unsaid, c.framework} =>
                                CanResume(c, [job EXCEPT !.target = t]).can
    BY DEF VerdictsAreFounded
  <1>1. Checkpoint(c)
    BY DEF CheckpointsInv, Numbered
  <1>2. WorldSize(c) \in Nat
    <2>1. c.topology[1] \in Nat /\ c.topology[2] \in Nat /\ c.topology[3] \in Nat
      BY <1>1 DEF Checkpoint
    <2> HIDE DEF Checkpoint
    <2> QED BY <2>1 DEF WorldSize, Size
  <1>3. ASSUME MissingShards(c) = {} PROVE "missing" \notin Problems(c) /\ "count" \notin Problems(c)
    <2>1. CASE c.scheme = "per_rank"
      <3>1. c.ranks = 0 .. WorldSize(c) - 1
        BY <1>1, <1>3, <2>1 DEF MissingShards, Checkpoint, AllRanks
      <3>2. Cardinality(c.ranks) = WorldSize(c)
        BY <1>2, <3>1, FS_Interval
      <3> QED BY <1>3, <3>2 DEF Problems
    <2>2. CASE c.scheme # "per_rank"
      BY <1>3, <2>2 DEF Problems
    <2> QED BY <2>1, <2>2
  <1>4. \A job : CanResume(c, job).can <=>
          /\ MissingShards(c) = {} /\ ~OnlyAtItsSize(c, job.target) /\ ~Differ(job.framework, c.framework)
    BY DEF CanResume, Blockers
  <1>5. \A job : /\ CanResume(c, job).reshard <=>
                      CanResume(c, job).can /\ c.topology # job.target /\ c.scheme \in {"sharded", "consolidated"}
                 /\ CanResume(c, job).warnings = Warnings(c, job)
                 /\ c.topology # job.target /\ c.scheme \in {"sharded", "consolidated"} => "reshard" \in Warnings(c, job)
    BY DEF CanResume, Warnings
  <1>6. ASSUME NEW job \in Jobs
        PROVE  LET verdict == CanResume(c, job) IN
               /\ verdict.can /\ job.framework # Unsaid /\ Problems(c) \subseteq {"checksum"} =>
                    c.framework = job.framework
               /\ verdict.can => "missing" \notin Problems(c) /\ "count" \notin Problems(c)
               /\ verdict.reshard => "reshard" \in verdict.warnings /\ Size(job.target) = ShardsOut(c, job.target)
               /\ verdict.can /\ GatherRequired(c, job.target) =>
                    verdict.reshard \/ c.scheme \in {"single", "per_rank"}
               /\ verdict.can /\ c.scheme = "per_rank" => WorldSize(c) = Size(job.target)
    <2> DEFINE verdict == CanResume(c, job)
    <2>1. verdict.can /\ job.framework # Unsaid /\ Problems(c) \subseteq {"checksum"} => c.framework = job.framework
      <3>1. Problems(c) \subseteq {"checksum"} => c.framework # Unsaid
        BY DEF Problems
      <3> QED BY <1>4, <3>1 DEF Differ
    <2>2. verdict.can => "missing" \notin Problems(c) /\ "count" \notin Problems(c)
      BY <1>3, <1>4
    <2>3. verdict.reshard => "reshard" \in verdict.warnings /\ Size(job.target) = ShardsOut(c, job.target)
      BY <1>5 DEF ShardsOut
    <2>4. GatherRequired(c, job.target) => c.topology # job.target
      <3>1. c.topology[2] \in Int /\ c.topology[3] \in Int
        BY <1>1 DEF Checkpoint
      <3> QED BY <3>1 DEF GatherRequired
    <2>5. verdict.can /\ GatherRequired(c, job.target) => verdict.reshard \/ c.scheme \in {"single", "per_rank"}
      BY <1>1, <1>5, <2>4 DEF Checkpoint
    <2>6. verdict.can /\ c.scheme = "per_rank" => WorldSize(c) = Size(job.target)
      BY <1>4 DEF OnlyAtItsSize
    <2> QED BY <2>1, <2>2, <2>3, <2>5, <2>6
  <1>7. ASSUME Problems(c) = {}, NEW t \in CompatibleTopologies(c)
        PROVE  /\ CanResume(c, JobAt(t)).can
               /\ \A job \in Jobs : job.framework \in {Unsaid, c.framework} => CanResume(c, [job EXCEPT !.target = t]).can
    <2>1. MissingShards(c) = {}
      BY <1>7 DEF Problems
    <2>2. ~OnlyAtItsSize(c, t)
      BY <1>7 DEF OnlyAtItsSize, CompatibleTopologies, WorldSize
    <2>3. JobAt(t).target = t /\ JobAt(t).framework = Unsaid
      BY DEF JobAt
    <2>4. \A job \in Jobs : [job EXCEPT !.target = t].target = t /\ [job EXCEPT !.target = t].framework = job.framework
      BY CheckpointAssumption DEF CheckpointAssumption
    <2> QED BY <1>4, <2>1, <2>2, <2>3, <2>4 DEF Differ
  <1> QED BY <1>6, <1>7

(***************************************************************************)
(* ai/serve/deployments.py                                                 *)
(***************************************************************************)

\* What the variants that serve get, all together.
WeightsOf(vs)       == [n \in DOMAIN vs |-> vs[n].weight]
RoutedBy(g, vs, A) == SumUp(g, WeightsOf(vs), A) /\ Routed(vs) = g[A]

LEMMA Routing ==
  ASSUME NEW vs, NEW A, A = ActiveVariants(vs), IsFiniteSet(A), \A n \in A : vs[n].weight \in Int
  PROVE  \E g \in [SUBSET A -> Int] : RoutedBy(g, vs, A)
  <1> DEFINE f == WeightsOf(vs)
  <1>1. A \subseteq DOMAIN vs /\ \A n \in A : f[n] \in Int /\ f[n] = vs[n].weight
    BY DEF ActiveVariants, WeightsOf
  <1> HIDE DEF f
  <1> DEFINE iter == CHOOSE g : SumUp(g, f, A)
  <1>2. PICK g \in [SUBSET A -> Int] : SumUp(g, f, A)
    BY <1>1, SumsExist
  <1>3. SumUp(iter, f, A)
    BY <1>2
  <1>4. Routed(vs) = iter[A]
    BY DEF Routed, FoldFunctionOnSet, MapThenFoldSet, SumUp, WeightsOf, f
  <1> HIDE DEF iter
  <1>5. iter[A] = g[A]
    <2>1. A \in SUBSET (A \cap A) /\ \A x \in A : f[x] = f[x]
      OBVIOUS
    <2> QED BY <1>2, <1>3, <2>1, SumsAgree
  <1> QED BY <1>2, <1>4, <1>5 DEF f, RoutedBy

\* If one gets a share and the others another each.
OneAndTheOthers(vs, A, n, share, each) ==
  /\ A = ActiveVariants(vs) /\ IsFiniteSet(A) /\ n \in A /\ share \in Int /\ each \in Int
  /\ vs[n].weight = share /\ \A x \in A \ {n} : vs[x].weight = each

LEMMA RoutedToOneAndTheOthers ==
  ASSUME NEW vs, NEW A, NEW n, NEW share, NEW each, OneAndTheOthers(vs, A, n, share, each)
  PROVE  Routed(vs) = share + Cardinality(A \ {n}) * each
  <1> USE DEF OneAndTheOthers
  <1> DEFINE f == WeightsOf(vs)
             B == A \ {n}
  <1>1. \A x \in A : vs[x].weight \in Int
    OBVIOUS
  <1>2. PICK g \in [SUBSET A -> Int] : SumUp(g, f, A) /\ Routed(vs) = g[A]
    <2>1. \E e \in [SUBSET A -> Int] : RoutedBy(e, vs, A)
      BY <1>1, Routing
    <2> QED BY <2>1 DEF RoutedBy
  <1>3. A \subseteq DOMAIN vs /\ f[n] = share /\ (\A x \in A : f[x] \in Int) /\ \A x \in B : f[x] = each
    BY DEF ActiveVariants, WeightsOf
  <1> HIDE DEF f
  <1>4. InAnyOrder(g, f, A)
    BY <1>2, <1>3, SumsInAnyOrder
  <1>5. g[A] = share + g[B]
    BY <1>3, <1>4 DEF InAnyOrder
  <1>6. IsFiniteSet(B) /\ B \in SUBSET A
    BY FS_Subset
  <1>7. PICK h \in [SUBSET B -> Int] : SumUp(h, f, B)
    BY <1>3, <1>6, SumsExist
  <1>8. h[B] = Cardinality(B) * each
    <2> HIDE DEF B
    <2> QED BY <1>3, <1>6, <1>7, SumOfEqual
  <1>9. g[B] = h[B]
    <2>1. B \in SUBSET (A \cap B) /\ \A x \in B : f[x] = f[x]
      OBVIOUS
    <2> QED BY <1>2, <1>6, <1>7, <2>1, SumsAgree
  <1> QED BY <1>2, <1>5, <1>8, <1>9

\* One that serves and gets nothing may as well not serve.
LEMMA RoutedWithout ==
  ASSUME NEW vs, NEW ws, NEW A, A = ActiveVariants(vs), IsFiniteSet(A), NEW n \in A,
         \A x \in A : vs[x].weight \in Int, vs[n].weight = 0,
         ActiveVariants(ws) = A \ {n}, \A x \in A \ {n} : ws[x].weight = vs[x].weight
  PROVE  Routed(ws) = Routed(vs)
  <1> DEFINE f == WeightsOf(vs)
             k == WeightsOf(ws)
             B == A \ {n}
  <1>1. PICK g \in [SUBSET A -> Int] : SumUp(g, f, A) /\ Routed(vs) = g[A]
    <2>1. \E e \in [SUBSET A -> Int] : RoutedBy(e, vs, A)
      BY Routing
    <2> QED BY <2>1 DEF RoutedBy
  <1>2. IsFiniteSet(B) /\ B \in SUBSET A /\ B \in SUBSET (A \cap B)
    BY FS_Subset
  <1>3. PICK h \in [SUBSET B -> Int] : SumUp(h, k, B) /\ Routed(ws) = h[B]
    <2>1. \E e \in [SUBSET B -> Int] : RoutedBy(e, ws, B)
      BY <1>2, Routing
    <2> QED BY <2>1 DEF RoutedBy
  <1>4. /\ A \subseteq DOMAIN vs /\ B \subseteq DOMAIN ws
        /\ (\A x \in A : f[x] \in Int) /\ f[n] = 0 /\ \A x \in B : f[x] = k[x]
    BY DEF ActiveVariants, WeightsOf
  <1> HIDE DEF f, k
  <1>5. InAnyOrder(g, f, A)
    BY <1>1, <1>4, SumsInAnyOrder
  <1>6. g[A] = 0 + g[B] /\ g[B] \in Int
    BY <1>2, <1>4, <1>5 DEF InAnyOrder
  <1>7. g[B] = h[B]
    BY <1>1, <1>2, <1>3, <1>4, SumsAgree
  <1> QED BY <1>1, <1>3, <1>6, <1>7

\* Those that serve are the same and get the same.
LEMMA RoutedTheSame ==
  ASSUME NEW vs, NEW ws, NEW A, A = ActiveVariants(vs), IsFiniteSet(A), A = ActiveVariants(ws),
         \A x \in A : vs[x].weight \in Int, \A x \in A : ws[x].weight = vs[x].weight
  PROVE  Routed(ws) = Routed(vs)
  <1> DEFINE f == WeightsOf(vs)
             k == WeightsOf(ws)
  <1>1. PICK g \in [SUBSET A -> Int] : SumUp(g, f, A) /\ Routed(vs) = g[A]
    <2>1. \E e \in [SUBSET A -> Int] : RoutedBy(e, vs, A)
      BY Routing
    <2> QED BY <2>1 DEF RoutedBy
  <1>2. PICK h \in [SUBSET A -> Int] : SumUp(h, k, A) /\ Routed(ws) = h[A]
    <2>1. \E e \in [SUBSET A -> Int] : RoutedBy(e, ws, A)
      BY Routing
    <2> QED BY <2>1 DEF RoutedBy
  <1>3. A \in SUBSET (A \cap A) /\ A \subseteq DOMAIN vs /\ A \subseteq DOMAIN ws /\ \A x \in A : f[x] = k[x]
    BY DEF ActiveVariants, WeightsOf
  <1> HIDE DEF f, k
  <1>4. g[A] = h[A]
    BY <1>1, <1>2, <1>3, SumsAgree
  <1> QED BY <1>1, <1>2, <1>4

\* An equal part is at least one if there is one for each, and the parts are off by no more
\* than half for each.
LEMMA RoundedParts ==
  ASSUME NEW x \in Nat, NEW n \in Nat \ {0}
  PROVE  /\ Rounded(x, n) \in Nat
         /\ x >= n => Rounded(x, n) > 0
         /\ x = 0 => Rounded(x, n) = 0
         /\ n * Rounded(x, n) \in Nat
         /\ 2 * (n * Rounded(x, n) - x) <= n /\ 2 * (x - n * Rounded(x, n)) <= n
  <1> DEFINE q == x \div n
             r == x % n
  <1>1. q \in Int /\ r \in Nat /\ r < n /\ x = n * q + r
    OBVIOUS
  <1>2. Rounded(x, n) \in {q, q + 1} /\ (2 * r < n => Rounded(x, n) = q) /\ (2 * r > n => Rounded(x, n) = q + 1)
    BY <1>1 DEF Rounded
  <1> HIDE DEF q, r
  <1>3. q >= 0
    <2>1. ASSUME q <= -1 PROVE FALSE
      <3>1. n * q <= n * (-1)
        BY <1>1, <2>1
      <3> QED BY <1>1, <3>1
    <2> QED BY <1>1, <2>1
  <1>4. x >= n => q >= 1
    <2>1. ASSUME q <= 0, x >= n PROVE FALSE
      <3>1. q = 0
        BY <1>1, <1>3, <2>1
      <3> QED BY <1>1, <2>1, <3>1
    <2> QED BY <1>1, <2>1
  <1>5. x = 0 => Rounded(x, n) = 0
    <2>1. SUFFICES ASSUME x = 0 PROVE Rounded(x, n) = 0
      OBVIOUS
    <2>2. n * q \in Nat
      BY <1>1, <1>3
    <2>3. r = 0 /\ n * q = 0
      BY <1>1, <2>1, <2>2
    <2>4. q = 0
      BY <1>1, <1>3, <2>3
    <2> QED BY <1>1, <1>2, <2>3, <2>4
  <1>6. n * (q + 1) = n * q + n /\ n * q \in Nat
    BY <1>1, <1>3
  <1>7. CASE Rounded(x, n) = q
    <2>1. 2 * r <= n
      BY <1>1, <1>2, <1>7
    <2> QED BY <1>1, <1>3, <1>4, <1>5, <1>6, <1>7, <2>1
  <1>8. CASE Rounded(x, n) = q + 1
    <2>1. 2 * r >= n
      BY <1>1, <1>2, <1>8
    <2> QED BY <1>1, <1>3, <1>4, <1>5, <1>6, <1>8, <2>1
  <1> QED BY <1>2, <1>7, <1>8

LEMMA AllIsANumber == All \in Nat /\ All > 0
  BY SMT DEF All

Variant(v) == DOMAIN v = {"state", "weight", "retained"} /\ v.weight \in Nat

Share(s) == s \in 1 .. All /\ (s = All \/ All - s >= Cardinality(VariantNames))
Splits   == UNION {[D -> Nat] : D \in SUBSET VariantNames}

\* A split gives one variant a share, and the others an equal part of the rest.
GoodSplit(sp) ==
  \E n \in DOMAIN sp, s \in 1 .. All :
    Share(s) /\ \A x \in DOMAIN sp : sp[x] = IF x = n THEN s ELSE Rounded(All - s, Cardinality(DOMAIN sp \ {n}))

\* What is routed is the whole exactly, or but for a rounding and then nobody serves for nothing.
Whole(vs) ==
  LET A == ActiveVariants(vs)
  IN  \/ Routed(vs) = All
      \/ 2 * Magnitude(Routed(vs) - All) <= Cardinality(A) /\ \A n \in A : vs[n].weight > 0

VariantsOK(vs) ==
  /\ DOMAIN vs \subseteq VariantNames /\ \A n \in DOMAIN vs : Variant(vs[n])
  /\ \A a, b \in DOMAIN vs : vs[a].state = "live" /\ vs[b].state = "live" => a = b
  /\ Cardinality(ActiveVariants(vs)) > 1 => Whole(vs)

\* The steps of a plan name the same variants, whoever serves among them.
PlansOK(vs, plans) ==
  /\ plans \in Seq(Splits)
  /\ \A i \in DOMAIN plans : /\ ActiveVariants(vs) \subseteq DOMAIN plans[i] /\ DOMAIN plans[i] \subseteq DOMAIN vs
                             /\ DOMAIN plans[i] = DOMAIN plans[1]
                             /\ GoodSplit(plans[i])

DeploymentsInv == VariantsOK(variants) /\ PlansOK(variants, rollout)

LEMMA NothingPlanned ==
  ASSUME NEW vs
  PROVE  PlansOK(vs, << >>)
  BY DEF PlansOK

LEMMA FewServe ==
  ASSUME NEW vs, DOMAIN vs \subseteq VariantNames
  PROVE  /\ IsFiniteSet(ActiveVariants(vs)) /\ Cardinality(ActiveVariants(vs)) \in Nat
         /\ Cardinality(ActiveVariants(vs)) <= Cardinality(VariantNames) /\ Cardinality(VariantNames) \in Nat
  <1>1. ActiveVariants(vs) \in SUBSET VariantNames /\ IsFiniteSet(VariantNames)
    BY RolloutAssumption DEF ActiveVariants, RolloutAssumption
  <1> QED BY <1>1, FS_Subset, FS_CardinalityType

LEMMA SplitsAreWhole ==
  ASSUME NEW vs, DOMAIN vs \subseteq VariantNames, NEW sp, GoodSplit(sp),
         ActiveVariants(vs) = DOMAIN sp, \A x \in DOMAIN sp : vs[x].weight = sp[x],
         Cardinality(ActiveVariants(vs)) > 1
  PROVE  Whole(vs)
  <1> DEFINE A == ActiveVariants(vs)
  <1>1. PICK n \in A, s \in 1 .. All :
          Share(s) /\ \A x \in A : sp[x] = IF x = n THEN s ELSE Rounded(All - s, Cardinality(A \ {n}))
    <2>1. A = DOMAIN sp
      OBVIOUS
    <2> HIDE DEF A
    <2> QED BY <2>1 DEF GoodSplit
  <1>0. A = ActiveVariants(vs)
    OBVIOUS
  <1> DEFINE k == Cardinality(A \ {n})
             each == Rounded(All - s, k)
  <1>2. IsFiniteSet(A) /\ Cardinality(A) \in Nat /\ Cardinality(A) <= Cardinality(VariantNames) /\ Cardinality(VariantNames) \in Nat
    BY FewServe
  <1>3. k = Cardinality(A) - 1
    BY <1>2, FS_RemoveElement
  <1>4. k \in Nat \ {0} /\ All - s \in Nat /\ s \in Nat /\ All \in Nat
    BY <1>2, <1>3, AllIsANumber
  <1>5. vs[n].weight = s /\ \A x \in A \ {n} : vs[x].weight = each
    BY <1>1
  <1> HIDE DEF A, k
  <1>6. /\ each \in Nat /\ (All - s >= k => each > 0) /\ (All - s = 0 => each = 0) /\ k * each \in Nat
        /\ 2 * (k * each - (All - s)) <= k /\ 2 * ((All - s) - k * each) <= k
    BY <1>4, RoundedParts
  <1> HIDE DEF each
  <1>7. Routed(vs) = s + k * each
    <2>1. s \in Int /\ each \in Int
      BY <1>4, <1>6
    <2>2. OneAndTheOthers(vs, A, n, s, each)
      BY <1>0, <1>2, <1>5, <2>1 DEF OneAndTheOthers
    <2> QED BY <2>2, RoutedToOneAndTheOthers DEF k
  <1>8. CASE s = All
    <2>1. each = 0 /\ k * each = 0
      BY <1>4, <1>6, <1>8
    <2> QED BY <1>4, <1>7, <1>8, <2>1 DEF Whole
  <1>9. CASE s # All
    <2>1. All - s >= k
      BY <1>1, <1>2, <1>3, <1>4, <1>9 DEF Share
    <2>2. \A x \in A : vs[x].weight > 0
      BY <1>1, <1>4, <1>5, <1>6, <2>1
    <2>3. 2 * Magnitude(Routed(vs) - All) <= Cardinality(A)
      <3> DEFINE m == k * each
      <3>1. m \in Nat /\ Routed(vs) - All = m - (All - s) /\ 2 * (m - (All - s)) <= k /\ 2 * ((All - s) - m) <= k
        BY <1>4, <1>6, <1>7
      <3> HIDE DEF m
      <3> QED BY <1>2, <1>3, <1>4, <3>1 DEF Magnitude
    <2> QED BY <2>2, <2>3 DEF Whole, A
  <1> QED BY <1>8, <1>9

LEMMA PromotionTakesAll ==
  ASSUME NEW vs, VariantsOK(vs), NEW n \in DOMAIN vs
  PROVE  VariantsOK(Promoted(vs, n))
  <1> DEFINE ws == Promoted(vs, n)
             A == ActiveVariants(ws)
  <1>1. /\ DOMAIN ws = DOMAIN vs
        /\ \A x \in DOMAIN vs : Variant(vs[x])
        /\ DOMAIN vs \subseteq VariantNames
    BY DEF Promoted, VariantsOK
  <1>2. ws[n] = [vs[n] EXCEPT !.state = "live", !.weight = All]
    BY DEF Promoted
  <1>3. \A x \in DOMAIN vs \ {n} : IF ServesTraffic(vs[x]) THEN ws[x] = [vs[x] EXCEPT !.state = "draining", !.weight = 0]
                                   ELSE ws[x] = vs[x]
    BY DEF Promoted
  <1> HIDE DEF ws
  <1>4. Variant(ws[n]) /\ ws[n].state = "live" /\ ws[n].weight = All
    BY <1>1, <1>2, AllIsANumber DEF Variant
  <1>5. \A x \in DOMAIN vs \ {n} :
          /\ Variant(ws[x]) /\ ws[x].state # "live"
          /\ ServesTraffic(ws[x]) => ws[x].weight = 0
    <2> TAKE x \in DOMAIN vs \ {n}
    <2>1. CASE ServesTraffic(vs[x])
      <3>1. ws[x] = [vs[x] EXCEPT !.state = "draining", !.weight = 0] /\ Variant(vs[x])
        BY <1>1, <1>3, <2>1
      <3>2. DOMAIN ws[x] = DOMAIN vs[x] /\ ws[x].state = "draining" /\ ws[x].weight = 0
        BY <3>1 DEF Variant
      <3> QED BY <3>1, <3>2 DEF Variant
    <2>2. CASE ~ServesTraffic(vs[x])
      BY <1>1, <1>3, <2>2 DEF Variant, ServesTraffic
    <2> QED BY <2>1, <2>2
  <1>6. n \in A /\ \A x \in A \ {n} : ws[x].weight = 0
    BY <1>1, <1>4, <1>5 DEF ActiveVariants, ServesTraffic
  <1>7. IsFiniteSet(A)
    BY <1>1, FewServe
  <1>8. All \in Int /\ 0 \in Int
    BY AllIsANumber
  <1>9. Routed(ws) = All + Cardinality(A \ {n}) * 0
    <2>1. A = ActiveVariants(ws)
      OBVIOUS
    <2> HIDE DEF A
    <2>2. OneAndTheOthers(ws, A, n, All, 0)
      BY <1>4, <1>6, <1>7, <1>8, <2>1 DEF OneAndTheOthers
    <2> QED BY <2>2, RoutedToOneAndTheOthers
  <1>10. Cardinality(A \ {n}) \in Nat
    BY <1>7, FS_RemoveElement, FS_CardinalityType
  <1>11. Routed(ws) = All
    <2> HIDE DEF A
    <2> QED BY <1>8, <1>9, <1>10
  <1>12. VariantsOK(ws)
    BY <1>1, <1>4, <1>5, <1>11 DEF VariantsOK, Whole
  <1> QED BY <1>12 DEF ws

LEMMA RolloutsArePlanned ==
  ASSUME NEW vs, DOMAIN vs \subseteq VariantNames, NEW n \in DOMAIN vs
  PROVE  PlansOK(vs, RolloutPlan(vs, n))
  <1> DEFINE others == ActiveVariants(vs) \ {n}
             D == {n} \cup others
             split(share) == [x \in D |-> IF x = n THEN share ELSE Rounded(All - share, Cardinality(others))]
             plans == [i \in DOMAIN RolloutSteps |-> split(RolloutSteps[i])]
  <1>1. RolloutPlan(vs, n) = plans
    BY DEF RolloutPlan
  <1>2. /\ DOMAIN RolloutSteps = 1 .. Len(RolloutSteps) /\ Len(RolloutSteps) \in Nat
        /\ \A i \in DOMAIN RolloutSteps : RolloutSteps[i] \in 1 .. All /\ Share(RolloutSteps[i])
    <2>1. RolloutSteps \in Seq(1 .. All)
      BY RolloutAssumption DEF RolloutAssumption
    <2>2. \A i \in DOMAIN RolloutSteps : RolloutSteps[i] = All \/ All - RolloutSteps[i] >= Cardinality(VariantNames)
      BY RolloutAssumption DEF RolloutAssumption
    <2>3. DOMAIN RolloutSteps = 1 .. Len(RolloutSteps) /\ Len(RolloutSteps) \in Nat
      BY <2>1
    <2>4. \A i \in DOMAIN RolloutSteps : RolloutSteps[i] \in 1 .. All
      BY <2>1, <2>3, ElementOfSeq
    <2> QED BY <2>2, <2>3, <2>4 DEF Share
  <1>3. D \subseteq DOMAIN vs /\ ActiveVariants(vs) \subseteq D /\ D \ {n} = others /\ D \in SUBSET VariantNames
    BY DEF ActiveVariants
  <1>4. IsFiniteSet(others) /\ Cardinality(others) \in Nat /\ (others # {} => Cardinality(others) # 0)
    BY FewServe, FS_RemoveElement, FS_CardinalityType, FS_EmptySet
  <1> HIDE DEF others
  <1>5. ASSUME NEW s \in 1 .. All, Share(s)
        PROVE  split(s) \in Splits /\ DOMAIN split(s) = D /\ GoodSplit(split(s))
    <2>1. \A x \in D : x # n => Rounded(All - s, Cardinality(others)) \in Nat
      <3> SUFFICES ASSUME NEW x \in D, x # n PROVE Rounded(All - s, Cardinality(others)) \in Nat
        OBVIOUS
      <3>1. Cardinality(others) \in Nat \ {0} /\ All - s \in Nat
        BY <1>3, <1>4, AllIsANumber
      <3> QED BY <3>1, RoundedParts
    <2>2. split(s) \in [D -> Nat]
      BY <2>1
    <2>3. split(s) \in Splits
      BY <1>3, <2>2 DEF Splits
    <2>4. GoodSplit(split(s))
      BY <1>3, <1>5 DEF GoodSplit
    <2> QED BY <2>3, <2>4
  <1> HIDE DEF split, D
  <1>6. plans \in Seq(Splits)
    <2>1. plans \in [1 .. Len(RolloutSteps) -> Splits]
      BY <1>2, <1>5
    <2> HIDE DEF plans
    <2> QED BY <1>2, <2>1, SeqDef
  <1>7. \A i \in DOMAIN plans : DOMAIN plans[i] = D /\ GoodSplit(plans[i]) /\ 1 \in DOMAIN plans
    BY <1>2, <1>5
  <1> QED BY <1>1, <1>3, <1>6, <1>7 DEF PlansOK

LEMMA DeploymentsBegin ==
  ASSUME DeploymentsInit
  PROVE  DeploymentsInv
  <1>1. variants = << >> /\ rollout = << >>
    BY DEF DeploymentsInit
  <1>2. DOMAIN variants = {} /\ ActiveVariants(variants) = {}
    BY <1>1 DEF ActiveVariants
  <1>3. Cardinality(ActiveVariants(variants)) = 0
    BY <1>2, FS_EmptySet
  <1>4. VariantsOK(variants)
    BY <1>2, <1>3 DEF VariantsOK
  <1> QED BY <1>1, <1>4, NothingPlanned DEF DeploymentsInv

\* Nothing that is served changes when a variant is added that serves nobody.
LEMMA AddingIsWhole ==
  ASSUME DeploymentsInv, AddVariant
  PROVE  DeploymentsInv'
  <1>1. PICK n \in VariantNames \ DOMAIN variants :
          variants' = [x \in DOMAIN variants \cup {n} |->
                         IF x = n THEN [state |-> "pending", weight |-> 0, retained |-> TRUE] ELSE variants[x]]
    BY DEF AddVariant
  <1> DEFINE vs == variants
             ws == variants'
             A == ActiveVariants(vs)
  <1>2. /\ DOMAIN ws = DOMAIN vs \cup {n} /\ ws[n] = [state |-> "pending", weight |-> 0, retained |-> TRUE]
        /\ \A x \in DOMAIN vs : ws[x] = vs[x]
    BY <1>1
  <1>3. VariantsOK(vs) /\ rollout' = << >>
    BY DEF DeploymentsInv, AddVariant
  <1> HIDE DEF vs, ws
  <1>4. ActiveVariants(ws) = A /\ \A x \in A : ws[x] = vs[x]
    BY <1>2 DEF ActiveVariants, ServesTraffic
  <1>5. IsFiniteSet(A) /\ \A x \in A : vs[x].weight \in Int
    BY <1>3, FewServe DEF VariantsOK, Variant, ActiveVariants
  <1>6. Routed(ws) = Routed(vs)
    <2>1. A = ActiveVariants(vs) /\ A = ActiveVariants(ws) /\ \A x \in A : ws[x].weight = vs[x].weight
      BY <1>4
    <2> HIDE DEF A
    <2> QED BY <1>5, <2>1, RoutedTheSame
  <1>7. Whole(vs) => Whole(ws)
    BY <1>4, <1>6 DEF Whole
  <1>8. \A x \in DOMAIN ws : Variant(ws[x])
    BY <1>2, <1>3 DEF VariantsOK, Variant
  <1>9. \A a, b \in DOMAIN ws : ws[a].state = "live" /\ ws[b].state = "live" => a = b
    BY <1>2, <1>3 DEF VariantsOK
  <1>10. VariantsOK(ws)
    BY <1>2, <1>3, <1>4, <1>7, <1>8, <1>9 DEF VariantsOK
  <1> QED BY <1>3, <1>10, NothingPlanned DEF DeploymentsInv, ws

LEMMA StepsAreWhole ==
  ASSUME DeploymentsInv, TakeStep
  PROVE  DeploymentsInv'
  <1> DEFINE vs == variants
             ws == variants'
             sp == Head(rollout)
             D == DOMAIN sp
  <1>1. /\ rollout # << >> /\ rollout' = Tail(rollout)
        /\ variants' = [x \in DOMAIN variants |->
                          IF x \notin DOMAIN Head(rollout) THEN variants[x]
                          ELSE [variants[x] EXCEPT !.weight = Head(rollout)[x],
                                  !.state = IF ServesTraffic(variants[x]) THEN @ ELSE "canary"]]
    BY DEF TakeStep
  <1>2. VariantsOK(vs) /\ PlansOK(vs, rollout)
    BY DEF DeploymentsInv
  <1>3. /\ rollout \in Seq(Splits) /\ Len(rollout) \in Nat \ {0} /\ DOMAIN rollout = 1 .. Len(rollout)
        /\ sp = rollout[1]
    <2>1. rollout \in Seq(Splits)
      BY <1>2 DEF PlansOK
    <2>2. Len(rollout) \in Nat \ {0} /\ DOMAIN rollout = 1 .. Len(rollout)
      BY <1>1, <2>1, EmptySeq, LenProperties
    <2>3. Head(rollout) = rollout[1]
      OBVIOUS
    <2> QED BY <2>1, <2>2, <2>3
  <1>4. ActiveVariants(vs) \subseteq D /\ D \subseteq DOMAIN vs /\ GoodSplit(sp)
    BY <1>2, <1>3 DEF PlansOK
  <1>5. sp \in Splits
    BY <1>3, ElementOfSeq
  <1>6. D \subseteq VariantNames /\ \A x \in D : sp[x] \in Nat
    BY <1>5 DEF Splits
  <1>7. /\ DOMAIN ws = DOMAIN vs
        /\ \A x \in DOMAIN vs \ D : ws[x] = vs[x]
        /\ \A x \in D : ws[x] = [vs[x] EXCEPT !.weight = sp[x],
                                   !.state = IF ServesTraffic(vs[x]) THEN @ ELSE "canary"]
    BY <1>1, <1>4
  <1> HIDE DEF vs, ws, sp
  <1>8. ASSUME NEW x \in D
        PROVE  /\ Variant(ws[x]) /\ ServesTraffic(ws[x]) /\ ws[x].weight = sp[x]
               /\ ws[x].state = "live" => vs[x].state = "live"
    <2>1. Variant(vs[x]) /\ ws[x] = [vs[x] EXCEPT !.weight = sp[x],
                                       !.state = IF ServesTraffic(vs[x]) THEN @ ELSE "canary"]
      BY <1>2, <1>4, <1>7 DEF VariantsOK
    <2>2. /\ DOMAIN ws[x] = DOMAIN vs[x] /\ ws[x].weight = sp[x]
          /\ ws[x].state = IF ServesTraffic(vs[x]) THEN vs[x].state ELSE "canary"
      BY <2>1 DEF Variant
    <2> QED BY <1>6, <2>1, <2>2 DEF Variant, ServesTraffic
  <1>9. ActiveVariants(ws) = D
    BY <1>4, <1>7, <1>8 DEF ActiveVariants
  <1>10. VariantsOK(ws)
    <2>1. \A x \in DOMAIN ws : Variant(ws[x]) /\ (ws[x].state = "live" => vs[x].state = "live")
      BY <1>2, <1>7, <1>8 DEF VariantsOK
    <2>2. Cardinality(ActiveVariants(ws)) > 1 => Whole(ws)
      BY <1>2, <1>4, <1>7, <1>8, <1>9, SplitsAreWhole DEF VariantsOK
    <2> QED BY <1>2, <1>7, <2>1, <2>2 DEF VariantsOK
  <1>11. PlansOK(ws, Tail(rollout))
    <2> DEFINE rest == Tail(rollout)
    <2>1. /\ rest \in Seq(Splits) /\ Len(rest) = Len(rollout) - 1
          /\ \A i \in 1 .. Len(rest) : rest[i] = rollout[i + 1]
      BY <1>1, <1>3, HeadTailProperties
    <2>2. DOMAIN rest = 1 .. Len(rollout) - 1 /\ \A i \in 1 .. Len(rollout) - 1 : rest[i] = rollout[i + 1]
      <3> HIDE DEF rest
      <3> QED BY <2>1, LenProperties
    <2>3. ASSUME NEW i \in DOMAIN rest
          PROVE  DOMAIN rest[i] = D /\ GoodSplit(rest[i])
      <3>1. i + 1 \in DOMAIN rollout /\ rest[i] = rollout[i + 1]
        BY <1>3, <2>2
      <3> QED BY <1>2, <1>3, <3>1 DEF PlansOK
    <2>4. \A i \in DOMAIN rest : 1 \in DOMAIN rest
      BY <1>3, <2>2
    <2> HIDE DEF rest
    <2>5. PlansOK(ws, rest)
      BY <1>4, <1>7, <1>9, <2>1, <2>3, <2>4 DEF PlansOK
    <2> QED BY <2>5 DEF rest
  <1> QED BY <1>1, <1>10, <1>11 DEF DeploymentsInv, ws

LEMMA RetiringIsWhole ==
  ASSUME DeploymentsInv, Retire
  PROVE  DeploymentsInv'
  <1>1. PICK n \in DOMAIN variants, kept \in BOOLEAN :
          /\ TrafficTo(variants, n) = 0 /\ rollout = << >>
          /\ variants' = [variants EXCEPT ![n].state = "retired", ![n].weight = 0, ![n].retained = @ /\ kept]
    BY DEF Retire
  <1> DEFINE vs == variants
             ws == variants'
             A == ActiveVariants(vs)
             B == A \ {n}
  <1>2. VariantsOK(vs) /\ rollout' = << >>
    BY <1>1 DEF DeploymentsInv, Retire
  <1>3. DOMAIN ws = DOMAIN vs /\ (\A x \in DOMAIN vs \ {n} : ws[x] = vs[x]) /\ Variant(vs[n])
    BY <1>1, <1>2 DEF VariantsOK
  <1>4. ws[n] = [vs[n] EXCEPT !.state = "retired", !.weight = 0, !.retained = @ /\ kept]
    BY <1>1
  <1>5. Variant(ws[n]) /\ ws[n].state = "retired"
    BY <1>3, <1>4 DEF Variant
  <1> HIDE DEF vs, ws
  <1>6. ActiveVariants(ws) = B /\ \A x \in B : ws[x] = vs[x]
    BY <1>3, <1>5 DEF ActiveVariants, ServesTraffic
  <1>7. IsFiniteSet(A) /\ Cardinality(A) \in Nat /\ \A x \in A : vs[x].weight \in Int
    BY <1>2, FewServe DEF VariantsOK, Variant, ActiveVariants
  <1>8. ASSUME Cardinality(B) > 1 PROVE Whole(ws)
    <2>1. CASE n \in A
      <3>1. vs[n].weight = 0
        BY <1>1, <2>1 DEF TrafficTo, vs
      <3>2. Cardinality(A) > 1
        <4>1. B = A \ {n}
          OBVIOUS
        <4> HIDE DEF A, B
        <4>2. Cardinality(B) = Cardinality(A) - 1
          BY <1>7, <2>1, <4>1, FS_RemoveElement
        <4> QED BY <1>7, <1>8, <4>2
      <3>3. Whole(vs)
        BY <1>2, <3>2 DEF VariantsOK
      <3>4. Routed(vs) = All
        <4>1. ~(vs[n].weight > 0)
          BY <3>1
        <4> QED BY <2>1, <3>3, <4>1 DEF Whole
      <3>5. Routed(ws) = Routed(vs)
        <4>1. A = ActiveVariants(vs) /\ ActiveVariants(ws) = A \ {n} /\ \A x \in A \ {n} : ws[x].weight = vs[x].weight
          BY <1>6
        <4> HIDE DEF A, B
        <4> QED BY <1>7, <2>1, <3>1, <4>1, RoutedWithout
      <3> QED BY <3>4, <3>5 DEF Whole
    <2>2. CASE n \notin A
      <3>1. B = A
        BY <2>2
      <3>2. Whole(vs)
        BY <1>2, <1>8, <3>1 DEF VariantsOK
      <3>3. Routed(ws) = Routed(vs)
        <4>1. A = ActiveVariants(vs) /\ A = ActiveVariants(ws) /\ \A x \in A : ws[x].weight = vs[x].weight
          BY <1>6, <3>1
        <4> HIDE DEF A, B
        <4> QED BY <1>7, <4>1, RoutedTheSame
      <3> QED BY <1>6, <3>1, <3>2, <3>3 DEF Whole
    <2> QED BY <2>1, <2>2
  <1>9. VariantsOK(ws)
    <2>1. \A x \in DOMAIN ws : Variant(ws[x]) /\ (ws[x].state = "live" => x # n /\ vs[x].state = "live")
      BY <1>2, <1>3, <1>5 DEF VariantsOK
    <2>2. Cardinality(ActiveVariants(ws)) > 1 => Whole(ws)
      BY <1>6, <1>8
    <2> QED BY <1>2, <1>3, <2>1, <2>2 DEF VariantsOK
  <1> QED BY <1>2, <1>9, NothingPlanned DEF DeploymentsInv, ws

LEMMA DeploymentsGoOn ==
  ASSUME DeploymentsInv, DeploymentsNext \/ UNCHANGED deploymentVars
  PROVE  DeploymentsInv'
  <1>1. CASE PlanRollout
    <2>1. PICK n \in DOMAIN variants : rollout' = RolloutPlan(variants, n) /\ variants' = variants
      BY <1>1 DEF PlanRollout
    <2>2. PlansOK(variants, RolloutPlan(variants, n)) /\ VariantsOK(variants)
      BY RolloutsArePlanned DEF DeploymentsInv, VariantsOK
    <2> QED BY <2>1, <2>2 DEF DeploymentsInv
  <1>2. ASSUME NEW n \in DOMAIN variants, variants' = Promoted(variants, n), rollout' = << >>
        PROVE  DeploymentsInv'
    <2>1. VariantsOK(Promoted(variants, n))
      BY PromotionTakesAll DEF DeploymentsInv
    <2> QED BY <1>2, <2>1, NothingPlanned DEF DeploymentsInv
  <1>3. CASE Promote
    BY <1>2, <1>3 DEF Promote
  <1>4. CASE Rollback
    BY <1>2, <1>4 DEF Rollback, CanRollback
  <1>5. CASE UNCHANGED deploymentVars
    BY <1>5 DEF deploymentVars, DeploymentsInv
  <1> QED BY <1>1, <1>3, <1>4, <1>5, AddingIsWhole, StepsAreWhole, RetiringIsWhole DEF DeploymentsNext

LEMMA TrafficGoesSomewhere ==
  ASSUME DeploymentsInv
  PROVE  TrafficIsRouted
  <1> DEFINE A == ActiveVariants(variants)
             Live == {n \in DOMAIN variants : variants[n].state = "live"}
  <1>1. VariantsOK(variants)
    BY DEF DeploymentsInv
  <1>2. IsFiniteSet(A) /\ Cardinality(A) \in Nat /\ \A x \in A : variants[x].weight \in Nat
    BY <1>1, FewServe DEF VariantsOK, Variant, ActiveVariants
  <1>3. Cardinality(A) > 1 => 2 * Magnitude(Routed(variants) - All) <= Cardinality(A)
    <2>1. Routed(variants) = All => Magnitude(Routed(variants) - All) = 0
      BY AllIsANumber DEF Magnitude
    <2> QED BY <1>1, <1>2, <2>1 DEF VariantsOK, Whole
  <1>4. {x \in A : variants[x].weight < 0} = {}
    BY <1>2
  <1>5. Cardinality(Live) <= 1
    <2>1. CASE Live = {}
      BY <2>1, FS_EmptySet
    <2>2. CASE Live # {}
      <3>1. PICK n \in Live : TRUE
        BY <2>2
      <3>2. Live = {n}
        BY <1>1, <3>1 DEF VariantsOK
      <3> HIDE DEF Live
      <3> QED BY <3>2, FS_Singleton
    <2> QED BY <2>1, <2>2
  <1>6. ~(Cardinality(Live) > 1)
    <2>1. Cardinality(Live) \in Nat
      <3>1. Live \in SUBSET VariantNames
        BY <1>1 DEF VariantsOK
      <3> HIDE DEF Live
      <3> QED BY <3>1, RolloutAssumption, FS_Subset, FS_CardinalityType DEF RolloutAssumption
    <2> HIDE DEF Live
    <2> QED BY <1>5, <2>1
  <1>7. ValidateSplit(variants, strategy) \cap {"negative", "two live"} = {}
    <2> HIDE DEF Live
    <2>1. {"negative" : n \in {x \in A : variants[x].weight < 0}} = {}
      BY <1>4
    <2> QED BY <1>6, <2>1 DEF ValidateSplit, Live
  <1> QED BY <1>3, <1>7 DEF TrafficIsRouted

(***************************************************************************)
(* ai/quality/safety.py                                                    *)
(***************************************************************************)

LEMMA SetsHaveSequences ==
  ASSUME NEW S, IsFiniteSet(S)
  PROVE  SetToSeq(S) \in Seq(S)
  <1> DEFINE n == Cardinality(S)
  <1>1. n \in Nat /\ ExistsBijection(1 .. n, S)
    BY FS_CardinalityType
  <1> HIDE DEF n
  <1>2. PICK f \in [1 .. n -> S] : IsInjective(f)
    BY <1>1 DEF ExistsBijection, Bijection, Injection
  <1>3. SetToSeq(S) \in [1 .. n -> S]
    BY <1>2 DEF SetToSeq, n
  <1> QED BY <1>1, <1>3, SeqDef

\* What is in a sequence that grew, and how many things are in it.
LEMMA GrownRange ==
  ASSUME NEW S, NEW s \in Seq(S), NEW e \in S
  PROVE  Append(s, e) \in Seq(S) /\ Range(Append(s, e)) = Range(s) \cup {e}
  <1>1. Len(s) \in Nat /\ DOMAIN s = 1 .. Len(s)
    BY LenProperties
  <1>2. /\ Append(s, e) \in Seq(S) /\ DOMAIN Append(s, e) = 1 .. Len(s) + 1
        /\ \A i \in 1 .. Len(s) : Append(s, e)[i] = s[i]
        /\ Append(s, e)[Len(s) + 1] = e
    BY <1>1
  <1> DEFINE t == Append(s, e)
  <1> HIDE DEF t
  <1>3. DOMAIN t = DOMAIN s \cup {Len(s) + 1} /\ (\A i \in DOMAIN s : t[i] = s[i]) /\ t[Len(s) + 1] = e
    BY <1>1, <1>2 DEF t
  <1>4. Range(t) = Range(s) \cup {e}
    BY <1>3 DEF Range
  <1> QED BY <1>2, <1>4 DEF t

LEMMA RangesAreFinite ==
  ASSUME NEW S, NEW s \in Seq(S)
  PROVE  IsFiniteSet(Range(s)) /\ Range(s) \subseteq S
  <1>1. Len(s) \in Nat /\ DOMAIN s = 1 .. Len(s)
    BY LenProperties
  <1>2. \A i \in DOMAIN s : s[i] \in S
    BY <1>1, ElementOfSeq
  <1>3. IsFiniteSet(1 .. Len(s))
    BY <1>1, FS_Interval
  <1>4. s \in Surjection(1 .. Len(s), Range(s))
    BY <1>1 DEF Surjection, Range
  <1>5. IsFiniteSet(Range(s))
    BY <1>3, <1>4, FS_Surjection DEF ExistsSurjection
  <1> QED BY <1>2, <1>5 DEF Range

IsRun(run) == IsFiniteSet(DOMAIN run) /\ run \in [DOMAIN run -> BOOLEAN]

\* A finding with a probe has it in the suite, and one that is closed without was forced.
FindingOK(f) ==
  /\ DOMAIN findings[f] = {"state", "probe"}
  /\ findings[f].probe # NoProbe => f \in Range(suite)
  /\ IsClosedUnguarded(findings[f]) => f \in forced
  /\ f \in forced => IsClosed(findings[f].state)

SafetyInv ==
  /\ suite \in Seq(Findings \cup Benign)
  /\ DOMAIN findings \subseteq Findings /\ forced \subseteq DOMAIN findings
  /\ \A f \in DOMAIN findings : FindingOK(f)
  /\ IsRun(results) /\ IsRun(baseline)

LEMMA NothingWasRun == IsRun(<< >>)
  <1>1. DOMAIN << >> = {}
    OBVIOUS
  <1> QED BY <1>1, FS_EmptySet DEF IsRun

LEMMA SafetyBegins ==
  ASSUME SafetyInit
  PROVE  SafetyInv
  <1>1. findings = << >> /\ results = << >> /\ baseline = << >> /\ forced = {}
    BY DEF SafetyInit
  <1>2. PICK b \in SUBSET Benign : suite = SetToSeq(b)
    BY DEF SafetyInit
  <1>3. suite \in Seq(b)
    BY <1>2, SafetyAssumption, FS_Subset, SetsHaveSequences DEF SafetyAssumption
  <1>4. suite \in Seq(Findings \cup Benign)
    BY <1>3, SeqMonotonic
  <1>5. DOMAIN findings = {}
    BY <1>1
  <1> QED BY <1>1, <1>4, <1>5, NothingWasRun DEF SafetyInv

LEMMA SafetyGoesOn ==
  ASSUME SafetyInv, SafetyNext \/ UNCHANGED safetyVars
  PROVE  SafetyInv'
  <1> USE DEF SafetyInv
  <1>1. CASE ReportFinding
    <2>1. PICK f \in Findings \ DOMAIN findings :
            findings' = [g \in DOMAIN findings \cup {f} |->
                           IF g = f THEN [state |-> "open", probe |-> NoProbe] ELSE findings[g]]
      BY <1>1 DEF ReportFinding
    <2>2. UNCHANGED <<suite, forced, results, baseline>>
      BY <1>1 DEF ReportFinding, NoRelease
    <2>3. /\ DOMAIN findings' = DOMAIN findings \cup {f} /\ f \notin forced
          /\ findings'[f] = [state |-> "open", probe |-> NoProbe]
          /\ \A g \in DOMAIN findings : findings'[g] = findings[g]
      BY <2>1
    <2>4. \A g \in DOMAIN findings : FindingOK(g)'
      BY <2>2, <2>3 DEF FindingOK
    <2>5. FindingOK(f)'
      BY <2>2, <2>3 DEF FindingOK, IsClosedUnguarded, IsClosed
    <2> QED BY <2>2, <2>3, <2>4, <2>5
  <1>2. CASE Guard
    <2>1. PICK f \in DOMAIN findings :
            /\ findings[f].probe = NoProbe
            /\ findings' = [findings EXCEPT ![f].probe = f] /\ suite' = Append(suite, f)
      BY <1>2 DEF Guard
    <2>2. UNCHANGED <<forced, results, baseline>>
      BY <1>2 DEF Guard, NoRelease
    <2>3. suite' \in Seq(Findings \cup Benign) /\ Range(suite') = Range(suite) \cup {f}
      BY <2>1, GrownRange
    <2>4. FindingOK(f) /\ \A g \in DOMAIN findings \ {f} : FindingOK(g)
      OBVIOUS
    <2>5. /\ DOMAIN findings' = DOMAIN findings
          /\ findings'[f] = [findings[f] EXCEPT !.probe = f]
          /\ \A g \in DOMAIN findings \ {f} : findings'[g] = findings[g]
      BY <2>1
    <2>6. /\ DOMAIN findings'[f] = {"state", "probe"} /\ findings'[f].probe = f
          /\ findings'[f].state = findings[f].state
      BY <2>4, <2>5 DEF FindingOK
    <2>7. FindingOK(f)'
      <3>1. f # NoProbe
        BY SafetyAssumption DEF SafetyAssumption
      <3> QED BY <2>2, <2>3, <2>4, <2>6, <3>1 DEF FindingOK, IsClosedUnguarded
    <2>8. \A g \in DOMAIN findings \ {f} : FindingOK(g)'
      BY <2>2, <2>3, <2>4, <2>5 DEF FindingOK
    <2> QED BY <2>2, <2>3, <2>5, <2>7, <2>8
  <1>3. CASE CloseFinding
    <2>1. PICK f \in DOMAIN findings, state \in {"fixed", "accepted"}, force \in BOOLEAN :
            /\ MayClose(findings[f], force)
            /\ findings' = [findings EXCEPT ![f].state = state]
            /\ forced' = IF force /\ findings[f].probe = NoProbe THEN forced \cup {f} ELSE forced
      BY <1>3 DEF CloseFinding
    <2>2. UNCHANGED <<suite, results, baseline>>
      BY <1>3 DEF CloseFinding, NoRelease
    <2>3. FindingOK(f) /\ \A g \in DOMAIN findings \ {f} : FindingOK(g)
      OBVIOUS
    <2>4. /\ DOMAIN findings' = DOMAIN findings
          /\ findings'[f] = [findings[f] EXCEPT !.state = state]
          /\ \A g \in DOMAIN findings \ {f} : findings'[g] = findings[g]
      BY <2>1
    <2>5. /\ DOMAIN findings'[f] = {"state", "probe"} /\ findings'[f].state = state
          /\ findings'[f].probe = findings[f].probe
      BY <2>3, <2>4 DEF FindingOK
    <2>6. findings[f].probe = NoProbe => f \in forced'
      BY <2>1 DEF MayClose
    <2>7. FindingOK(f)'
      BY <2>2, <2>3, <2>5, <2>6 DEF FindingOK, IsClosedUnguarded, IsClosed
    <2>8. forced' \ {f} = forced \ {f} /\ forced' \subseteq DOMAIN findings
      BY <2>1
    <2>9. \A g \in DOMAIN findings \ {f} : FindingOK(g)'
      BY <2>2, <2>3, <2>4, <2>8 DEF FindingOK
    <2> QED BY <2>2, <2>4, <2>7, <2>8, <2>9
  <1>4. CASE RunSuite
    <2>1. PICK ran \in SUBSET Range(suite) : results' \in [ran -> BOOLEAN] /\ baseline' = results
      BY <1>4 DEF RunSuite
    <2>2. UNCHANGED <<findings, suite, forced>>
      BY <1>4 DEF RunSuite
    <2>3. IsFiniteSet(ran)
      BY RangesAreFinite, FS_Subset
    <2>4. IsRun(results') /\ IsRun(baseline')
      BY <2>1, <2>3 DEF IsRun
    <2> QED BY <2>2, <2>4 DEF FindingOK
  <1>5. CASE UNCHANGED safetyVars
    BY <1>5 DEF safetyVars, FindingOK
  <1> QED BY <1>1, <1>2, <1>3, <1>4, <1>5 DEF SafetyNext

\* Every probe that was run passed, failed to refuse or refused too much, and only one of these.
LEMMA EveryProbeCountsOnce ==
  ASSUME NEW run, IsRun(run)
  PROVE  RefusalReport(run).passed = Cardinality({p \in DOMAIN run : PassedIn(run, p)})
  <1> DEFINE D == DOMAIN run
             U == UnderRefusals(run)
             O == OverRefusals(run)
             P == {p \in D : PassedIn(run, p)}
  <1>1. IsFiniteSet(D) /\ \A p \in D : run[p] \in BOOLEAN
    BY DEF IsRun
  <1>2. \A p \in D : ExpectedRefusal(p) \in BOOLEAN
    BY DEF ExpectedRefusal
  <1>3. U \subseteq D /\ \A p \in D : p \in U <=> ~run[p] /\ ExpectedRefusal(p)
    BY DEF UnderRefusals
  <1>4. O \subseteq D /\ \A p \in D : p \in O <=> run[p] /\ ~ExpectedRefusal(p)
    BY DEF OverRefusals
  <1>5. P \subseteq D /\ \A p \in D : p \in P <=> (run[p] = ExpectedRefusal(p))
    BY DEF PassedIn
  <1> DEFINE R == D \ U
  <1>6. RefusalReport(run).passed = Cardinality(D) - Cardinality(U) - Cardinality(O)
    BY DEF RefusalReport
  <1> HIDE DEF D, U, O, P
  <1>7. \A p \in D : p \in P <=> p \notin U /\ p \notin O
    BY <1>1, <1>2, <1>3, <1>4, <1>5
  <1>8. D \cap U = U /\ R \cap O = O /\ R \ O = P
    BY <1>2, <1>3, <1>4, <1>5, <1>7
  <1>9. IsFiniteSet(R) /\ Cardinality(R) = Cardinality(D) - Cardinality(U)
    BY <1>1, <1>8, FS_Difference
  <1> HIDE DEF R
  <1>10. Cardinality(P) = Cardinality(R) - Cardinality(O)
    <2>1. Cardinality(R \ O) = Cardinality(R) - Cardinality(R \cap O)
      BY <1>9, FS_Difference
    <2> QED BY <1>8, <2>1
  <1> QED BY <1>6, <1>9, <1>10 DEF D, P

LEMMA ReturnsAreTold ==
  ASSUME SafetyInv
  PROVE  RecurrenceIsTold
  <1>1. Unguarded(findings) = {f \in forced : findings[f].probe = NoProbe}
    BY DEF SafetyInv, FindingOK, Unguarded, IsClosedUnguarded
  <1>2. ASSUME NEW f \in {g \in DOMAIN findings : IsClosed(findings[g].state)} \ Unguarded(findings)
        PROVE  /\ f \in Range(suite)
               /\ f \in DOMAIN results /\ ~results[f] =>
                    /\ f \in Regressed(results, baseline) \cup StillFailing(results, baseline)
                    /\ f \in DOMAIN baseline /\ baseline[f] => ~RegressionsClean(results, baseline)
               /\ f \notin DOMAIN results => f \in MissingFrom(results, suite)
    <2>1. f \in Range(suite)
      BY <1>2 DEF SafetyInv, FindingOK, Unguarded, IsClosedUnguarded
    <2>2. ExpectedRefusal(f) = TRUE
      BY SafetyAssumption DEF SafetyInv, SafetyAssumption, ExpectedRefusal
    <2>3. ASSUME f \in DOMAIN results, ~results[f]
          PROVE  ~PassedIn(results, f)
      BY <2>2, <2>3 DEF PassedIn
    <2>4. ASSUME f \in DOMAIN baseline, baseline[f]
          PROVE  PassedIn(baseline, f)
      <3>1. baseline[f] \in BOOLEAN
        BY <2>4 DEF SafetyInv, IsRun
      <3> QED BY <2>2, <2>4, <3>1 DEF PassedIn
    <2>5. ASSUME f \in DOMAIN results, ~results[f]
          PROVE  f \in Regressed(results, baseline) \cup StillFailing(results, baseline)
      BY <2>3, <2>5 DEF Regressed, StillFailing
    <2>6. ASSUME f \in DOMAIN results, ~results[f], f \in DOMAIN baseline, baseline[f]
          PROVE  ~RegressionsClean(results, baseline)
      <3>1. f \in Regressed(results, baseline)
        BY <2>3, <2>4, <2>6 DEF Regressed
      <3> QED BY <3>1 DEF RegressionsClean
    <2> QED BY <2>1, <2>5, <2>6 DEF MissingFrom
  <1>3. RefusalReport(results).passed = Cardinality({p \in DOMAIN results : PassedIn(results, p)})
    BY EveryProbeCountsOnce DEF SafetyInv
  <1> QED BY <1>1, <1>2, <1>3 DEF RecurrenceIsTold

(***************************************************************************)
(* ai/prompts.py                                                           *)
(***************************************************************************)

PromptVersions == [digest : PromptTexts, created : Nat, author : {"author", "rollback"}]

\* The versions are dated, and none is of tomorrow.
PromptsInv ==
  /\ today \in Nat
  /\ versions \in Seq(PromptVersions)
  /\ \A i \in DOMAIN versions : versions[i].created <= today

LEMMA PromptsBegin ==
  ASSUME PromptsInit
  PROVE  PromptsInv
  <1>1. versions = << >> /\ today = 0
    BY DEF PromptsInit
  <1>2. DOMAIN versions = {}
    BY <1>1
  <1> QED BY <1>1, <1>2, EmptySeq DEF PromptsInv

LEMMA VersionsAreTyped ==
  ASSUME PromptsInv, NEW i \in DOMAIN versions
  PROVE  versions[i].digest \in PromptTexts /\ versions[i].created \in Nat
  <1>1. versions[i] \in PromptVersions
    BY LenProperties, ElementOfSeq DEF PromptsInv
  <1> QED BY <1>1 DEF PromptVersions

\* What a step does to the history: nothing, or it adds a version of today.
OneMore(text, who) == versions' = Append(versions, Version(text, who))

LEMMA HistoryGrows ==
  ASSUME PromptsInv, PromptsNext \/ UNCHANGED promptVars
  PROVE  /\ today' \in {today, today + 1}
         /\ \/ versions' = versions
            \/ today' = today /\ \E t \in PromptTexts, who \in {"author", "rollback"} : OneMore(t, who)
  <1>1. CASE Commit
    BY <1>1 DEF Commit, OneMore
  <1>2. CASE RollbackPrompt
    <2>1. PICK t \in Digests(versions) : versions' = Append(versions, Version(t, "rollback")) /\ today' = today
      BY <1>2 DEF RollbackPrompt
    <2>2. PICK i \in DOMAIN versions : t = versions[i].digest
      BY DEF Digests
    <2>3. t \in PromptTexts
      BY <2>2, VersionsAreTyped
    <2> QED BY <2>1, <2>3 DEF OneMore
  <1>3. CASE Bind
    BY <1>3 DEF Bind
  <1>4. CASE NextDay
    BY <1>4 DEF NextDay
  <1>5. CASE UNCHANGED promptVars
    BY <1>5 DEF promptVars
  <1> QED BY <1>1, <1>2, <1>3, <1>4, <1>5 DEF PromptsNext

LEMMA OneMoreIsToday ==
  ASSUME PromptsInv, NEW t \in PromptTexts, NEW who \in {"author", "rollback"}, OneMore(t, who)
  PROVE  /\ versions' \in Seq(PromptVersions)
         /\ Len(versions) \in Nat /\ Len(versions') = Len(versions) + 1
         /\ DOMAIN versions = 1 .. Len(versions) /\ DOMAIN versions' = 1 .. Len(versions) + 1
         /\ \A i \in DOMAIN versions : versions'[i] = versions[i]
         /\ versions'[Len(versions) + 1].created = today
  <1> DEFINE v == Version(t, who)
  <1>1. v \in PromptVersions /\ v.created = today
    BY DEF Version, PromptVersions, PromptsInv
  <1>2. versions' = Append(versions, v)
    BY DEF OneMore
  <1>3. Len(versions) \in Nat /\ DOMAIN versions = 1 .. Len(versions)
    BY LenProperties DEF PromptsInv
  <1> HIDE DEF v
  <1> QED BY <1>1, <1>2, <1>3 DEF PromptsInv

LEMMA PromptsGoOn ==
  ASSUME PromptsInv, PromptsNext \/ UNCHANGED promptVars
  PROVE  PromptsInv'
  <1>1. today' \in Nat /\ today' >= today
    BY HistoryGrows DEF PromptsInv
  <1>2. CASE versions' = versions
    <2>1. \A i \in DOMAIN versions : versions[i].created \in Nat
      BY VersionsAreTyped
    <2> QED BY <1>1, <1>2, <2>1 DEF PromptsInv
  <1>3. CASE today' = today /\ \E t \in PromptTexts, who \in {"author", "rollback"} : OneMore(t, who)
    <2>1. PICK t \in PromptTexts, who \in {"author", "rollback"} : OneMore(t, who)
      BY <1>3
    <2>2. \A i \in DOMAIN versions' : i \in DOMAIN versions \/ i = Len(versions) + 1
      BY <2>1, OneMoreIsToday
    <2>3. \A i \in DOMAIN versions' : versions'[i].created <= today
      BY <2>1, <2>2, OneMoreIsToday DEF PromptsInv
    <2>4. Len(versions) + 1 \in Nat /\ DOMAIN versions' = 1 .. Len(versions) + 1
      BY <2>1, OneMoreIsToday
    <2> QED BY <1>1, <1>3, <2>1, <2>3, <2>4, OneMoreIsToday DEF PromptsInv
  <1> QED BY <1>2, <1>3, HistoryGrows

\* The history says as much of the past as it did.
LEMMA ThePastIsKept ==
  ASSUME PromptsInv, PromptsNext \/ UNCHANGED promptVars
  PROVE  PastAnswersKept
  <1>1. CASE versions' = versions
    <2>1. ~Drifted(versions', Current(versions).digest)
      BY <1>1 DEF Drifted
    <2>2. VersionAt(versions', 0) = VersionAt(versions', 0)
      OBVIOUS
    <2> QED BY <1>1, <2>1 DEF PastAnswersKept
  <1>2. ASSUME NEW t \in PromptTexts, NEW who \in {"author", "rollback"}, OneMore(t, who)
        PROVE  PastAnswersKept
    <2> DEFINE n == Len(versions)
    <2>1. /\ n \in Nat /\ DOMAIN versions = 1 .. n /\ DOMAIN versions' = 1 .. n + 1 /\ Len(versions') = n + 1
          /\ \A i \in 1 .. n : versions'[i] = versions[i]
          /\ versions'[n + 1].created = today
      BY <1>2, OneMoreIsToday
    <2>2. ASSUME NEW d \in 0 .. today - 1
          PROVE  VersionAt(versions', d) = VersionAt(versions, d)
      <3> DEFINE old == {i \in DOMAIN versions : versions[i].created <= d}
                 new == {i \in DOMAIN versions' : versions'[i].created <= d}
      <3>1. ~(versions'[n + 1].created <= d)
        BY <2>1 DEF PromptsInv
      <3>2. \A i \in 1 .. n + 1 : i # n + 1 => i \in 1 .. n
        BY <2>1
      <3>3. 1 .. n \subseteq 1 .. n + 1
        BY <2>1
      <3>4. new = old
        BY <2>1, <3>1, <3>2, <3>3
      <3>5. old # {} => Max(old) \in 1 .. n
        <4>1. old \in SUBSET (1 .. n) /\ IsFiniteSet(1 .. n) /\ 1 .. n \subseteq Int
          BY <2>1, FS_Interval
        <4> HIDE DEF old
        <4>2. IsFiniteSet(old) /\ old \in SUBSET Int
          BY <4>1, FS_Subset
        <4>3. ASSUME old # {} PROVE \E m \in old : \A k \in old : m >= k
          <5>1. PICK m \in old : \A k \in old : k <= m
            BY <4>2, <4>3, FiniteHasGreatest
          <5>2. \A k \in old : m >= k
            BY <4>2, <5>1
          <5> QED BY <5>2
        <4>4. old # {} => Max(old) \in old
          BY <4>3 DEF Max
        <4> QED BY <4>1, <4>4
      <3> QED BY <2>1, <3>4, <3>5 DEF VersionAt
    <2>3. Len(PromptHistory(versions)) = n /\ Len(PromptHistory(versions')) = n + 1
      <3>1. DOMAIN PromptHistory(versions) = 1 .. n /\ DOMAIN PromptHistory(versions') = 1 .. n + 1
        BY <2>1 DEF PromptHistory
      <3> QED BY <2>1, <3>1
    <2>4. n + 1 > n
      BY <2>1
    <2> QED BY <2>2, <2>3, <2>4 DEF PastAnswersKept
  <1> QED BY <1>1, <1>2, HistoryGrows

(***************************************************************************)
(* ai/train/tokenizers.py                                                  *)
(***************************************************************************)

LEMMA GrownIsReadable == GrowthIsCompatible
  BY DEF GrowthIsCompatible, IsSuperset, InvalidatesEmbeddings, Reindexed, Removed

\* What was cached decodes, and the templates are framed by tokens that are still special.
Decodes       == \A i \in DOMAIN cached : cached[i] \in DOMAIN vocabulary /\ vocabulary[cached[i]] = i
TokenizersInv == Decodes /\ templates = special /\ tokens \in Int

LEMMA TokenizersBegin ==
  ASSUME AssetsInit
  PROVE  TokenizersInv
  <1>1. CASE desk = "tokenizers"
    <2>1. cached = << >> /\ templates = special /\ tokens = ContextWindow
      BY <1>1 DEF AssetsInit, TokenizersInit
    <2> QED BY <2>1, TokenAssumption DEF TokenizersInv, Decodes, TokenAssumption
  <1>2. CASE desk # "tokenizers"
    <2>1. cached = << >> /\ templates = {} /\ special = {} /\ tokens = 0
      BY <1>2 DEF AssetsInit
    <2> QED BY <2>1 DEF TokenizersInv, Decodes
  <1> QED BY <1>1, <1>2

LEMMA SmallerOfTwo ==
  ASSUME NEW a \in Int, NEW b \in Int
  PROVE  Min({a, b}) \in {a, b}
  <1>1. \E x \in {a, b} : \A y \in {a, b} : x <= y
    OBVIOUS
  <1> QED BY <1>1 DEF Min

LEMMA TokenizersGoOn ==
  ASSUME TokenizersInv, TokenizersNext \/ UNCHANGED tokenizerVars
  PROVE  TokenizersInv'
  <1>1. CASE Embed
    <2>1. PICK t \in DOMAIN vocabulary :
            cached' = [i \in DOMAIN cached \cup {vocabulary[t]} |-> IF i = vocabulary[t] THEN t ELSE cached[i]]
      BY <1>1 DEF Embed
    <2> QED BY <1>1, <2>1 DEF Embed, TokenizersInv, Decodes
  <1>2. CASE NextTokenizer
    <2>1. PICK v \in Vocabularies, s \in SUBSET Controls, ratio \in TokenRatios :
            /\ vocabulary' = v /\ special' = s
            /\ IF Compatible(vocabulary, v, special, s) THEN UNCHANGED <<cached, templates>>
               ELSE cached' = << >> /\ templates' = s
            /\ tokens' = Min({Reestimate(tokens, ratio), MaxTokens})
      BY <1>2 DEF NextTokenizer
    <2>2. tokens' \in Int
      <3>1. MaxTokens \in Int /\ tokens \in Int /\ ratio[1] \in Nat /\ ratio[2] \in Nat \ {0}
        BY <2>1, TokenAssumption DEF TokenAssumption, TokenizersInv
      <3> DEFINE n == tokens * ratio[1]
                 d == ratio[2]
      <3>2. n \in Int /\ d \in Nat \ {0}
        BY <3>1
      <3> HIDE DEF n, d
      <3>3. n \div d \in Int /\ n \div d + 1 \in Int
        BY <3>2
      <3>4. Reestimate(tokens, ratio) \in {n \div d, n \div d + 1}
        BY DEF Reestimate, n, d
      <3>5. Reestimate(tokens, ratio) \in Int
        BY <3>3, <3>4
      <3> QED BY <2>1, <3>1, <3>5, SmallerOfTwo
    <2>3. CASE Compatible(vocabulary, v, special, s)
      <3>1. \A t \in DOMAIN vocabulary : t \in DOMAIN v /\ v[t] = vocabulary[t]
        BY <2>3 DEF Compatible, InvalidatesEmbeddings, Reindexed, Removed
      <3>2. cached' = cached /\ templates' = templates /\ vocabulary' = v /\ special' = special
        BY <2>1, <2>3 DEF Compatible
      <3> QED BY <2>2, <3>1, <3>2 DEF TokenizersInv, Decodes
    <2>4. CASE ~Compatible(vocabulary, v, special, s)
      <3>1. cached' = << >> /\ templates' = special'
        BY <2>1, <2>4
      <3> QED BY <2>2, <3>1 DEF TokenizersInv, Decodes
    <2> QED BY <2>3, <2>4
  <1>3. CASE UNCHANGED tokenizerVars
    BY <1>3 DEF tokenizerVars, TokenizersInv, Decodes
  <1> QED BY <1>1, <1>2, <1>3 DEF TokenizersNext

LEMMA KeptVectorsDecode ==
  ASSUME TokenizersInv
  PROVE  KeptVectorsStillDecode
  <1> DEFINE room == ContextWindow - Reserve
             verdict == BudgetCheck(tokens)
  <1>1. room \in Int /\ tokens \in Int
    BY TokenAssumption DEF TokenAssumption, TokenizersInv
  <1>2. /\ verdict.fits = (tokens <= room) /\ verdict.overflow = Max({0, tokens - room})
        /\ verdict.headroom = Max({0, room - tokens})
    BY DEF BudgetCheck
  <1> HIDE DEF room, verdict
  <1>3. /\ verdict.overflow = (IF tokens - room > 0 THEN tokens - room ELSE 0)
        /\ verdict.headroom = (IF room - tokens > 0 THEN room - tokens ELSE 0)
    <2>1. tokens - room \in Int /\ room - tokens \in Int
      BY <1>1
    <2> QED BY <1>2, <2>1, AtLeastNothing
  <1>4. tokens + verdict.headroom - verdict.overflow = room
    BY <1>1, <1>3
  <1>5. verdict.fits = (verdict.overflow = 0)
    <2>1. (tokens <= room) = (verdict.overflow = 0)
      BY <1>1, <1>3
    <2> QED BY <1>2, <2>1
  <1> QED BY <1>4, <1>5 DEF TokenizersInv, Decodes, KeptVectorsStillDecode, room, verdict

(***************************************************************************)
(* ai/: the recorders, and the reports on what they wrote                  *)
(***************************************************************************)

EdgeRows  == Assets \X Assets \X Range(EvidenceOrder) \X BOOLEAN
SpecNames == {UNPARTITIONED, "keyed"}
Graphs == [nodes : SUBSET Assets, edges : Seq(EdgeRows), spec : UNION {[S -> SpecNames] : S \in SUBSET Assets}]
Feeds(lin, a, b) == \E e \in Range(lin.edges) : e[1] = a /\ e[2] = b

\* What a row of the graph may say: a base model comes with no list of columns.
RowOK(nodes, e) == e \in EdgeRows /\ e[1] \in nodes /\ e[2] \in nodes /\ (e[3] = "training:base" => ~e[4])
GraphOK(lin) == /\ lin \in Graphs /\ lin.spec \in [lin.nodes -> SpecNames]
                /\ \A e \in Range(lin.edges) : RowOK(lin.nodes, e)
More(lin, new) == lin.nodes \subseteq new.nodes /\ Range(lin.edges) \subseteq Range(new.edges)

CallIsKept(lin, agent, c) ==
  (\A d \in c.reads : Feeds(lin, d, agent)) /\ (\A d \in c.writes : Feeds(lin, agent, d))
RunIsKept(lin, r) == \A k \in 1 .. Len(r.calls) : CallIsKept(lin, r.agent, r.calls[k])

ExposureInv ==
  /\ GraphOK(lineage) /\ stored \in Seq(Assets) /\ runs \in Seq(AgentRuns)
  /\ \A i \in 1 .. Len(runs) : RunIsKept(lineage, runs[i])

LEMMA RangeOfBoth ==
  ASSUME NEW S, NEW s \in Seq(S), NEW t \in Seq(S)
  PROVE  s \o t \in Seq(S) /\ Range(s \o t) = Range(s) \cup Range(t)
  <1>1. Len(s) \in Nat /\ DOMAIN s = 1 .. Len(s) /\ Len(t) \in Nat /\ DOMAIN t = 1 .. Len(t)
    BY LenProperties
  <1> DEFINE u == s \o t
  <1>2. /\ u \in Seq(S) /\ Len(u) = Len(s) + Len(t)
        /\ \A i \in 1 .. Len(s) + Len(t) : u[i] = IF i <= Len(s) THEN s[i] ELSE t[i - Len(s)]
    BY ConcatProperties
  <1> HIDE DEF u
  <1>3. DOMAIN u = 1 .. Len(s) + Len(t)
    BY <1>2, LenProperties
  <1>4. \A i \in DOMAIN s : i \in DOMAIN u /\ u[i] = s[i]
    BY <1>1, <1>2, <1>3
  <1>5. \A i \in DOMAIN t : i + Len(s) \in DOMAIN u /\ u[i + Len(s)] = t[i]
    BY <1>1, <1>2, <1>3
  <1>6. \A i \in DOMAIN u : (i \in DOMAIN s /\ u[i] = s[i]) \/ (i - Len(s) \in DOMAIN t /\ u[i] = t[i - Len(s)])
    BY <1>1, <1>2, <1>3
  <1>7. Range(u) = Range(s) \cup Range(t)
    BY <1>4, <1>5, <1>6 DEF Range
  <1> QED BY <1>2, <1>7 DEF u

LEMMA EvidenceIs == \A via \in {"agent:read", "agent:tool", "agent:write", "context", "context:sink",
                                "embedding:corpus", "embedding:space", "eval", "feature:offline",
                                "feature:online", "prompt:variable", "training", "training:base"} :
                      via \in Range(EvidenceOrder)
  <1>1. /\ 1 \in DOMAIN EvidenceOrder /\ EvidenceOrder[1] = "agent:read"
        /\ 2 \in DOMAIN EvidenceOrder /\ EvidenceOrder[2] = "agent:tool"
        /\ 3 \in DOMAIN EvidenceOrder /\ EvidenceOrder[3] = "agent:write"
        /\ 4 \in DOMAIN EvidenceOrder /\ EvidenceOrder[4] = "context"
        /\ 5 \in DOMAIN EvidenceOrder /\ EvidenceOrder[5] = "context:sink"
        /\ 6 \in DOMAIN EvidenceOrder /\ EvidenceOrder[6] = "embedding:corpus"
        /\ 7 \in DOMAIN EvidenceOrder /\ EvidenceOrder[7] = "embedding:space"
        /\ 8 \in DOMAIN EvidenceOrder /\ EvidenceOrder[8] = "eval"
        /\ 9 \in DOMAIN EvidenceOrder /\ EvidenceOrder[9] = "feature:offline"
        /\ 10 \in DOMAIN EvidenceOrder /\ EvidenceOrder[10] = "feature:online"
        /\ 11 \in DOMAIN EvidenceOrder /\ EvidenceOrder[11] = "prompt:variable"
        /\ 12 \in DOMAIN EvidenceOrder /\ EvidenceOrder[12] = "training"
        /\ 13 \in DOMAIN EvidenceOrder /\ EvidenceOrder[13] = "training:base"
    BY DEF EvidenceOrder
  <1> HIDE DEF EvidenceOrder
  <1> QED BY <1>1 DEF Range

\* Any step that adds datasets and rows, and gives the new datasets specs.
GraphOf(nodes, edges, spec) == [nodes |-> nodes, edges |-> edges, spec |-> spec]

LEMMA GraphsGrow ==
  ASSUME NEW lin, GraphOK(lin), NEW nodes \in SUBSET Assets, lin.nodes \subseteq nodes,
         NEW rows \in Seq(EdgeRows), \A e \in Range(rows) : RowOK(nodes, e),
         NEW spec \in [nodes -> SpecNames],
         NEW edges, edges = lin.edges \o rows,
         NEW new, new = GraphOf(nodes, edges, spec)
  PROVE  GraphOK(new) /\ More(lin, new) /\ Range(rows) \subseteq Range(new.edges)
  <1>1. lin.edges \in Seq(EdgeRows)
    BY DEF GraphOK, Graphs
  <1>2. edges \in Seq(EdgeRows) /\ Range(edges) = Range(lin.edges) \cup Range(rows)
    BY <1>1, RangeOfBoth
  <1>3. \A e \in Range(edges) : RowOK(nodes, e)
    BY <1>2 DEF GraphOK, RowOK
  <1>4. new \in Graphs
    BY <1>2 DEF Graphs, GraphOf
  <1> QED BY <1>2, <1>3, <1>4 DEF GraphOK, More, GraphOf

LEMMA SpecsAreNamed ==
  ASSUME NEW lin, GraphOK(lin)
  PROVE  (\A d : SpecOf(lin, d) \in SpecNames) /\ (\A d : SpecFor(d) \in SpecNames)
  BY DEF GraphOK, SpecOf, SpecFor, SpecNames

LEMMA LinkIsOK ==
  ASSUME NEW lin, GraphOK(lin), NEW a \in Assets, NEW b \in Assets, NEW via \in Range(EvidenceOrder),
         NEW columns \in BOOLEAN, via = "training:base" => ~columns, NEW x \in SpecNames, NEW y \in SpecNames
  PROVE  LET new == Link(lin, Edge(a, b, via, columns), x, y)
         IN  GraphOK(new) /\ More(lin, new) /\ Feeds(new, a, b)
  <1> DEFINE e == <<a, b, via, columns>>
             nodes == lin.nodes \cup {a, b}
             kept(d, given) == IF SpecOf(lin, d) # UNPARTITIONED THEN SpecOf(lin, d) ELSE given
             spec == [d \in nodes |-> CASE d = a -> kept(d, x) [] d = b -> kept(d, y) [] OTHER -> SpecOf(lin, d)]
             new == Link(lin, Edge(a, b, via, columns), x, y)
  <1>1. new = [nodes |-> nodes, edges |-> Append(lin.edges, e), spec |-> spec]
    BY DEF Link, Edge
  <1>2. spec \in [nodes -> SpecNames]
    <2>1. ASSUME NEW d \in nodes PROVE spec[d] \in SpecNames
      BY SpecsAreNamed
    <2> QED BY <2>1
  <1>3. e \in EdgeRows /\ RowOK(nodes, e)
    BY DEF EdgeRows, RowOK
  <1>4. lin.edges \in Seq(EdgeRows) /\ nodes \in SUBSET Assets
    BY DEF GraphOK, Graphs
  <1> HIDE DEF e, nodes, spec, new
  <1>5. PICK rows : rows = <<e>>
    OBVIOUS
  <1>6. rows \in Seq(EdgeRows) /\ Range(rows) = {e}
    <2>1. rows \in Seq(EdgeRows) /\ DOMAIN rows = {1} /\ rows[1] = e
      BY <1>3, <1>5
    <2> QED BY <2>1 DEF Range
  <1>7. Append(lin.edges, e) = lin.edges \o rows
    BY <1>3, <1>4, <1>5, AppendIsConcat
  <1>8. lin.nodes \subseteq nodes
    BY DEF nodes
  <1>9. GraphOK(new) /\ More(lin, new) /\ Range(rows) \subseteq Range(new.edges)
    <2>1. PICK edges : edges = lin.edges \o rows
      OBVIOUS
    <2>2. new = GraphOf(nodes, edges, spec)
      BY <1>1, <1>7, <2>1 DEF GraphOf
    <2>3. \A r \in Range(rows) : RowOK(nodes, r)
      BY <1>3, <1>6
    <2> QED BY ONLY GraphOK(lin), <1>2, <1>4, <1>6, <1>8, <2>1, <2>2, <2>3, GraphsGrow
  <1>10. Feeds(new, a, b)
    <2>1. e \in Range(new.edges) /\ e[1] = a /\ e[2] = b
      BY <1>6, <1>9 DEF e
    <2> QED BY <2>1 DEF Feeds
  <1> QED BY <1>9, <1>10 DEF new

LEMMA AssetsAreNumbers ==
  ASSUME NEW S \in SUBSET Assets
  PROVE  S \in SUBSET Nat /\ IsFiniteSet(S) /\ 0 \notin S
  BY ExposureAssumption, FS_Subset DEF ExposureAssumption

LEMMA NamesAreIn ==
  ASSUME NEW S \in SUBSET Assets
  PROVE  \A i \in DOMAIN Sorted(S) : Sorted(S)[i] \in S
  <1>1. PICK s, N : s = Sorted(S) /\ N = Cardinality(S)
    OBVIOUS
  <1>2. DOMAIN s = 1 .. N /\ \A n \in 1 .. N : s[n] \in S
    BY <1>1, NamesSorted, AssetsAreNumbers
  <1> QED BY <1>1, <1>2

\* A row for each of the datasets in the order of their names.
LEMMA RowsByName ==
  ASSUME NEW S \in SUBSET Assets, NEW row, \A d \in S : row[d] \in EdgeRows,
         NEW rows, rows = [i \in DOMAIN Sorted(S) |-> row[Sorted(S)[i]]]
  PROVE  /\ rows \in Seq(EdgeRows)
         /\ \A e \in Range(rows) : \E d \in S : e = row[d]
         /\ \A d \in S : row[d] \in Range(rows)
  <1>1. PICK s : s = Sorted(S)
    OBVIOUS
  <1>2. PICK N : N = Cardinality(S)
    OBVIOUS
  <1>3. /\ N \in Nat /\ DOMAIN s = 1 .. N
        /\ \A n \in 1 .. N : s[n] \in S
        /\ \A d \in S : \E n \in 1 .. N : s[n] = d
    BY <1>1, <1>2, NamesSorted, AssetsAreNumbers
  <1>4. rows = [i \in 1 .. N |-> row[s[i]]]
    BY <1>1, <1>3
  <1>5. rows \in [1 .. N -> EdgeRows]
    BY <1>3, <1>4
  <1>6. rows \in Seq(EdgeRows)
    BY <1>3, <1>5, SeqDef
  <1>7. DOMAIN rows = 1 .. N /\ \A i \in 1 .. N : rows[i] = row[s[i]]
    BY <1>4
  <1> QED BY <1>3, <1>6, <1>7 DEF Range

LEMMA LinkAllIsOK ==
  ASSUME NEW lin, GraphOK(lin), NEW sources \in SUBSET Assets, NEW dst \in Assets,
         NEW via \in Range(EvidenceOrder), via # "training:base", NEW columns \in BOOLEAN
  PROVE  LET new == LinkAll(lin, sources, dst, via, columns)
         IN  GraphOK(new) /\ More(lin, new) /\ \A d \in sources : Feeds(new, d, dst)
  <1> DEFINE row == [d \in sources |-> <<d, dst, via, columns>>]
             nodes == lin.nodes \cup (IF sources = {} THEN {} ELSE sources \cup {dst})
             spec == [d \in nodes |-> IF d = dst /\ SpecOf(lin, d) = UNPARTITIONED /\ sources # {} THEN SpecFor(dst)
                                      ELSE SpecOf(lin, d)]
             rows == [i \in DOMAIN Sorted(sources) |-> row[Sorted(sources)[i]]]
             edges == lin.edges \o rows
             new == LinkAll(lin, sources, dst, via, columns)
  <1>1. \A d \in sources : row[d] \in EdgeRows /\ row[d] = <<d, dst, via, columns>>
    BY DEF EdgeRows
  <1>2. \A i \in DOMAIN Sorted(sources) : Sorted(sources)[i] \in sources
    BY NamesAreIn
  <1>3. rows = [i \in DOMAIN Sorted(sources) |-> <<Sorted(sources)[i], dst, via, columns>>]
    BY <1>1, <1>2
  <1>4. new = GraphOf(nodes, edges, spec)
    <2> HIDE DEF rows, row
    <2> QED BY <1>3 DEF LinkAll, GraphOf
  <1>5. /\ rows \in Seq(EdgeRows)
        /\ \A e \in Range(rows) : \E d \in sources : e = row[d]
        /\ \A d \in sources : row[d] \in Range(rows)
    <2> HIDE DEF row
    <2> QED BY <1>1, RowsByName
  <1>6. spec \in [nodes -> SpecNames]
    <2>1. ASSUME NEW d \in nodes PROVE spec[d] \in SpecNames
      BY SpecsAreNamed
    <2> QED BY <2>1
  <1>7. nodes \in SUBSET Assets /\ lin.nodes \subseteq nodes
    BY DEF GraphOK, Graphs
  <1>8. \A d \in sources : RowOK(nodes, row[d])
    BY <1>1 DEF RowOK
  <1> HIDE DEF row, nodes, rows, spec, edges, new
  <1>9. \A e \in Range(rows) : RowOK(nodes, e)
    BY <1>5, <1>8
  <1>10. edges = lin.edges \o rows
    BY DEF edges
  <1>11. GraphOK(new) /\ More(lin, new) /\ Range(rows) \subseteq Range(new.edges)
    BY ONLY GraphOK(lin), <1>4, <1>5, <1>6, <1>7, <1>9, <1>10, GraphsGrow
  <1>12. ASSUME NEW d \in sources PROVE Feeds(new, d, dst)
    <2>1. PICK e : e = row[d]
      OBVIOUS
    <2>2. e \in Range(new.edges)
      BY <1>5, <1>11, <2>1
    <2>3. e = <<d, dst, via, columns>>
      BY <1>1, <2>1
    <2> QED BY <2>2, <2>3 DEF Feeds
  <1> QED BY <1>11, <1>12 DEF new

LEMMA LinkEachIsOK ==
  ASSUME NEW lin, GraphOK(lin), NEW src \in Assets, NEW targets \in SUBSET Assets,
         NEW via \in Range(EvidenceOrder), via # "training:base"
  PROVE  LET new == LinkEach(lin, src, targets, via)
         IN  GraphOK(new) /\ More(lin, new) /\ \A d \in targets : Feeds(new, src, d)
  <1> DEFINE row == [d \in targets |-> <<src, d, via, FALSE>>]
             nodes == lin.nodes \cup (IF targets = {} THEN {} ELSE targets \cup {src})
             spec == [d \in nodes |-> SpecOf(lin, d)]
             rows == [i \in DOMAIN Sorted(targets) |-> row[Sorted(targets)[i]]]
             edges == lin.edges \o rows
             new == LinkEach(lin, src, targets, via)
  <1>1. \A d \in targets : row[d] \in EdgeRows /\ row[d] = <<src, d, via, FALSE>>
    BY DEF EdgeRows
  <1>2. \A i \in DOMAIN Sorted(targets) : Sorted(targets)[i] \in targets
    BY NamesAreIn
  <1>3. rows = [i \in DOMAIN Sorted(targets) |-> <<src, Sorted(targets)[i], via, FALSE>>]
    BY <1>1, <1>2
  <1>4. new = GraphOf(nodes, edges, spec)
    <2> HIDE DEF rows, row
    <2> QED BY <1>3 DEF LinkEach, GraphOf
  <1>5. /\ rows \in Seq(EdgeRows)
        /\ \A e \in Range(rows) : \E d \in targets : e = row[d]
        /\ \A d \in targets : row[d] \in Range(rows)
    <2> HIDE DEF row
    <2> QED BY <1>1, RowsByName
  <1>6. spec \in [nodes -> SpecNames]
    BY SpecsAreNamed
  <1>7. nodes \in SUBSET Assets /\ lin.nodes \subseteq nodes
    BY DEF GraphOK, Graphs
  <1>8. \A d \in targets : RowOK(nodes, row[d])
    BY <1>1 DEF RowOK
  <1> HIDE DEF row, nodes, rows, spec, edges, new
  <1>9. \A e \in Range(rows) : RowOK(nodes, e)
    BY <1>5, <1>8
  <1>10. edges = lin.edges \o rows
    BY DEF edges
  <1>11. GraphOK(new) /\ More(lin, new) /\ Range(rows) \subseteq Range(new.edges)
    BY ONLY GraphOK(lin), <1>4, <1>5, <1>6, <1>7, <1>9, <1>10, GraphsGrow
  <1>12. ASSUME NEW d \in targets PROVE Feeds(new, src, d)
    <2>1. PICK e : e = row[d]
      OBVIOUS
    <2>2. e \in Range(new.edges)
      BY <1>5, <1>11, <2>1
    <2>3. e = <<src, d, via, FALSE>>
      BY <1>1, <2>1
    <2> QED BY <2>2, <2>3 DEF Feeds
  <1> QED BY <1>11, <1>12 DEF new

LEMMA MoreIsMore ==
  ASSUME NEW a, NEW b, NEW c, More(a, b), More(b, c)
  PROVE  More(a, c)
  BY DEF More

LEMMA MoreFeeds ==
  ASSUME NEW a, NEW b, More(a, b)
  PROVE  /\ \A x, y : Feeds(a, x, y) => Feeds(b, x, y)
         /\ \A agent, call : CallIsKept(a, agent, call) => CallIsKept(b, agent, call)
  BY DEF More, Feeds, CallIsKept

LEMMA BothSpecs == UNPARTITIONED \in SpecNames /\ "keyed" \in SpecNames
  BY DEF SpecNames

LEMMA TrainedIsOK ==
  ASSUME NEW lin, GraphOK(lin), NEW r \in TrainingRuns
  PROVE  GraphOK(TrainedOn(lin, r)) /\ More(lin, TrainedOn(lin, r))
  <1>0. r.inputs \in SUBSET Assets /\ r.model \in Assets /\ r.columns \in BOOLEAN /\ r.base \in Assets \cup {0}
    BY ExposureAssumption DEF ExposureAssumption
  <1>a. "training" \in Range(EvidenceOrder) /\ "training:base" \in Range(EvidenceOrder)
    BY EvidenceIs
  <1>1. PICK fed : fed = LinkAll(lin, r.inputs, r.model, "training", r.columns)
    OBVIOUS
  <1>2. GraphOK(fed) /\ More(lin, fed)
    BY <1>0, <1>1, <1>a, LinkAllIsOK
  <1>3. CASE r.base # 0
    <2>1. PICK new : new = Link(fed, Edge(r.base, r.model, "training:base", FALSE), "keyed", SpecFor(r.model))
      OBVIOUS
    <2>2. TrainedOn(lin, r) = new
      BY <1>1, <1>3, <2>1 DEF TrainedOn
    <2>3. GraphOK(new) /\ More(fed, new)
      BY <1>0, <1>2, <1>3, <1>a, <2>1, LinkIsOK, SpecsAreNamed, BothSpecs
    <2> QED BY <1>2, <2>2, <2>3, MoreIsMore
  <1>4. CASE r.base = 0 /\ r.inputs # {}
    BY <1>1, <1>2, <1>4 DEF TrainedOn
  <1>5. CASE r.base = 0 /\ r.inputs = {}
    <2> DEFINE nodes == lin.nodes \cup {r.model}
               spec == [d \in nodes |-> IF d = r.model THEN SpecFor(d) ELSE SpecOf(lin, d)]
    <2>1. lin = [nodes |-> lin.nodes, edges |-> lin.edges, spec |-> lin.spec]
      BY DEF GraphOK, Graphs
    <2>2. TrainedOn(lin, r) = GraphOf(nodes, lin.edges, spec)
      BY <1>5, <2>1 DEF TrainedOn, GraphOf
    <2>3. spec \in [nodes -> SpecNames]
      BY SpecsAreNamed
    <2>4. nodes \in SUBSET Assets /\ lin.nodes \subseteq nodes /\ lin.edges \in Seq(EdgeRows)
      BY <1>0 DEF GraphOK, Graphs
    <2> HIDE DEF nodes, spec
    <2>5. PICK rows, edges : rows = << >> /\ edges = lin.edges \o rows
      OBVIOUS
    <2>6. edges = lin.edges /\ rows \in Seq(EdgeRows) /\ Range(rows) = {}
      BY <2>4, <2>5, ConcatEmptySeq DEF Range
    <2>7. \A e \in Range(rows) : RowOK(nodes, e)
      BY <2>6
    <2>8. PICK new : new = GraphOf(nodes, edges, spec)
      OBVIOUS
    <2>9. GraphOK(new) /\ More(lin, new)
      BY ONLY GraphOK(lin), <2>3, <2>4, <2>5, <2>6, <2>7, <2>8, GraphsGrow
    <2> QED BY <2>2, <2>6, <2>8, <2>9
  <1> QED BY <1>3, <1>4, <1>5

LEMMA ContextIsOK ==
  ASSUME NEW lin, GraphOK(lin), NEW c \in Contexts
  PROVE  GraphOK(InContext(lin, c)) /\ More(lin, InContext(lin, c))
  <1>0. c.sources \in SUBSET Assets /\ c.model \in Assets /\ c.sink \in Assets \cup {0}
    BY ExposureAssumption DEF ExposureAssumption
  <1>a. "context" \in Range(EvidenceOrder) /\ "context:sink" \in Range(EvidenceOrder)
    BY EvidenceIs
  <1>1. PICK read : read = LinkAll(lin, c.sources, c.model, "context", FALSE)
    OBVIOUS
  <1>2. GraphOK(read) /\ More(lin, read)
    BY <1>0, <1>1, <1>a, LinkAllIsOK
  <1>3. CASE c.sink = 0
    BY <1>1, <1>2, <1>3 DEF InContext
  <1>4. CASE c.sink # 0
    <2>1. PICK new : new = Link(read, Edge(c.model, c.sink, "context:sink", FALSE), UNPARTITIONED, UNPARTITIONED)
      OBVIOUS
    <2>2. InContext(lin, c) = new
      BY <1>1, <1>4, <2>1 DEF InContext
    <2>3. GraphOK(new) /\ More(read, new)
      BY <1>0, <1>2, <1>4, <1>a, <2>1, LinkIsOK, BothSpecs
    <2> QED BY <1>2, <2>2, <2>3, MoreIsMore
  <1> QED BY <1>3, <1>4

LEMMA IndexIsOK ==
  ASSUME NEW lin, GraphOK(lin), NEW i \in Indexes
  PROVE  GraphOK(Indexed(lin, i)) /\ More(lin, Indexed(lin, i))
  <1>0. i.corpus \in Assets /\ i.space \in Assets /\ i.index \in Assets
    BY ExposureAssumption DEF ExposureAssumption
  <1>a. "embedding:corpus" \in Range(EvidenceOrder) /\ "embedding:space" \in Range(EvidenceOrder)
    BY EvidenceIs
  <1>1. PICK made : made = Link(lin, Edge(i.corpus, i.index, "embedding:corpus", FALSE), SpecFor(i.corpus), "keyed")
    OBVIOUS
  <1>2. GraphOK(made) /\ More(lin, made)
    BY <1>0, <1>1, <1>a, LinkIsOK, SpecsAreNamed, BothSpecs
  <1>3. PICK new : new = Link(made, Edge(i.space, i.index, "embedding:space", FALSE), "keyed", "keyed")
    OBVIOUS
  <1>4. Indexed(lin, i) = new
    BY <1>1, <1>3 DEF Indexed
  <1>5. GraphOK(new) /\ More(made, new)
    BY <1>0, <1>2, <1>3, <1>a, LinkIsOK, BothSpecs
  <1> QED BY <1>2, <1>4, <1>5, MoreIsMore

LEMMA ViewIsOK ==
  ASSUME NEW lin, GraphOK(lin), NEW v \in Views
  PROVE  GraphOK(Materialized(lin, v)) /\ More(lin, Materialized(lin, v))
  <1>0. v.sources \in SUBSET Assets /\ v.view \in Assets /\ v.online \in Assets \cup {0}
    BY ExposureAssumption DEF ExposureAssumption
  <1>a. "feature:offline" \in Range(EvidenceOrder) /\ "feature:online" \in Range(EvidenceOrder)
    BY EvidenceIs
  <1>1. PICK offline : offline = LinkAll(lin, v.sources, v.view, "feature:offline", TRUE)
    OBVIOUS
  <1>2. GraphOK(offline) /\ More(lin, offline)
    BY <1>0, <1>1, <1>a, LinkAllIsOK
  <1>3. CASE v.online = 0
    BY <1>1, <1>2, <1>3 DEF Materialized
  <1>4. CASE v.online # 0
    <2>1. PICK new : new = Link(offline, Edge(v.view, v.online, "feature:online", TRUE), UNPARTITIONED, UNPARTITIONED)
      OBVIOUS
    <2>2. Materialized(lin, v) = new
      BY <1>1, <1>4, <2>1 DEF Materialized
    <2>3. GraphOK(new) /\ More(offline, new)
      BY <1>0, <1>2, <1>4, <1>a, <2>1, LinkIsOK, BothSpecs
    <2> QED BY <1>2, <2>2, <2>3, MoreIsMore
  <1> QED BY <1>3, <1>4

Calls == [tool : Assets, reads : SUBSET Assets, writes : SUBSET Assets, egress : BOOLEAN]

LEMMA CallIsOK ==
  ASSUME NEW lin, GraphOK(lin), NEW agent \in Assets, NEW c \in Calls
  PROVE  /\ GraphOK(Called(lin, agent, c)) /\ More(lin, Called(lin, agent, c))
         /\ CallIsKept(Called(lin, agent, c), agent, c)
  <1>0. c.tool \in Assets /\ c.reads \in SUBSET Assets /\ c.writes \in SUBSET Assets
    BY DEF Calls
  <1>a. \A via \in {"agent:tool", "agent:read", "agent:write"} : via \in Range(EvidenceOrder)
    BY EvidenceIs
  <1>1. PICK used : used = Link(lin, Edge(c.tool, agent, "agent:tool", FALSE), "keyed", "keyed")
    OBVIOUS
  <1>2. GraphOK(used) /\ More(lin, used)
    BY <1>0, <1>1, <1>a, LinkIsOK, BothSpecs
  <1>3. PICK read : read = LinkAll(used, c.reads, agent, "agent:read", FALSE)
    OBVIOUS
  <1>4. GraphOK(read) /\ More(used, read) /\ \A d \in c.reads : Feeds(read, d, agent)
    BY <1>0, <1>2, <1>3, <1>a, LinkAllIsOK
  <1>5. PICK new : new = LinkEach(read, agent, c.writes, "agent:write")
    OBVIOUS
  <1>6. GraphOK(new) /\ More(read, new) /\ \A d \in c.writes : Feeds(new, agent, d)
    BY <1>0, <1>4, <1>5, <1>a, LinkEachIsOK
  <1>7. Called(lin, agent, c) = new
    BY <1>1, <1>3, <1>5 DEF Called
  <1>8. More(lin, new)
    BY <1>2, <1>4, <1>6, MoreIsMore
  <1>9. \A d \in c.reads : Feeds(new, d, agent)
    BY <1>4, <1>6, MoreFeeds
  <1> QED BY <1>6, <1>7, <1>8, <1>9 DEF CallIsKept

LEMMA RunsAreOfCalls ==
  ASSUME NEW r \in AgentRuns
  PROVE  r.agent \in Assets /\ Len(r.calls) \in Nat /\ \A k \in 1 .. Len(r.calls) : r.calls[k] \in Calls
  <1>1. r.agent \in Assets /\ r.calls \in Seq(Calls)
    BY ExposureAssumption DEF ExposureAssumption, Calls
  <1> QED BY <1>1, LenProperties, ElementOfSeq

\* A run's calls, one after the other.
LEMMA RunIsOK ==
  ASSUME NEW lin, GraphOK(lin), NEW r \in AgentRuns
  PROVE  GraphOK(AllCalled(lin, r)) /\ More(lin, AllCalled(lin, r)) /\ RunIsKept(AllCalled(lin, r), r)
  <1> DEFINE N == Len(r.calls)
             U == {g \in Graphs : GraphOK(g)}
             F == [p \in (1 .. N) \X U |-> Called(p[2], r.agent, r.calls[p[1]])]
             Made(h) == h = [i \in 0 .. N |-> IF i = 0 THEN lin ELSE Called(h[i - 1], r.agent, r.calls[i])]
             called == CHOOSE h : Made(h)
  <1>1. r.agent \in Assets /\ N \in Nat /\ \A k \in 1 .. N : r.calls[k] \in Calls
    BY RunsAreOfCalls
  <1>2. AllCalled(lin, r) = called[N]
    BY DEF AllCalled
  <1>3. lin \in U
    BY DEF GraphOK
  <1>4. ASSUME NEW g \in U, NEW k \in 1 .. N
        PROVE  /\ Called(g, r.agent, r.calls[k]) \in U /\ More(g, Called(g, r.agent, r.calls[k]))
               /\ CallIsKept(Called(g, r.agent, r.calls[k]), r.agent, r.calls[k])
    <2>1. GraphOK(g) /\ r.calls[k] \in Calls
      BY <1>1
    <2>2. /\ GraphOK(Called(g, r.agent, r.calls[k])) /\ More(g, Called(g, r.agent, r.calls[k]))
          /\ CallIsKept(Called(g, r.agent, r.calls[k]), r.agent, r.calls[k])
      BY <1>1, <2>1, CallIsOK
    <2> QED BY <2>2 DEF GraphOK
  <1> HIDE DEF U
  <1>5. F \in [(1 .. N) \X U -> U]
    BY <1>4
  <1> HIDE DEF N
  <1>6. PICK f \in [0 .. N -> U] : InTurns(f, N, lin, F)
    <2> HIDE DEF F
    <2> QED BY <1>1, <1>3, <1>5, TurnsExist
  <1>7. Made(f)
    <2>1. f = [n \in 0 .. N |-> IF n = 0 THEN lin ELSE F[<<n, f[n - 1]>>]]
      BY <1>6 DEF InTurns
    <2>2. ASSUME NEW n \in 0 .. N, n # 0 PROVE F[<<n, f[n - 1]>>] = Called(f[n - 1], r.agent, r.calls[n])
      <3>1. n \in 1 .. N /\ n - 1 \in 0 .. N
        BY <1>1, <2>2
      <3>2. f[n - 1] \in U
        BY <1>6, <3>1
      <3> QED BY <3>1, <3>2
    <2> HIDE DEF F
    <2> QED BY <2>1, <2>2
  <1>8. Made(called)
    <2> HIDE DEF Made
    <2> QED BY <1>7
  <1> HIDE DEF called, F
  <1>9. called[0] = lin /\ \A n \in 0 .. N : n + 1 \in 0 .. N => called[n + 1] = Called(called[n], r.agent, r.calls[n + 1])
    <2>1. 0 \in 0 .. N /\ \A n \in 0 .. N : n + 1 # 0 /\ (n + 1) - 1 = n
      BY <1>1
    <2> QED BY <1>8, <2>1
  <1> HIDE DEF Made
  <1> DEFINE P == {n \in 0 .. N : /\ called[n] \in U /\ More(lin, called[n])
                                  /\ \A k \in 1 .. n : CallIsKept(called[n], r.agent, r.calls[k])}
  <1>10. 0 \in P
    BY <1>1, <1>3, <1>9 DEF More
  <1>11. ASSUME NEW n \in 0 .. N, n + 1 \in 0 .. N, n \in P PROVE n + 1 \in P
    <2>1. n + 1 \in 1 .. N /\ called[n] \in U /\ More(lin, called[n])
          /\ \A k \in 1 .. n : CallIsKept(called[n], r.agent, r.calls[k])
      BY <1>1, <1>11
    <2>2. /\ called[n + 1] \in U /\ More(called[n], called[n + 1])
          /\ CallIsKept(called[n + 1], r.agent, r.calls[n + 1])
      BY <1>4, <1>9, <1>11, <2>1
    <2>3. More(lin, called[n + 1]) /\ \A k \in 1 .. n : CallIsKept(called[n + 1], r.agent, r.calls[k])
      <3>1. PICK old, new : old = called[n] /\ new = called[n + 1]
        OBVIOUS
      <3>2. More(lin, old) /\ More(old, new)
        BY <2>1, <2>2, <3>1
      <3>3. \A k \in 1 .. n : CallIsKept(new, r.agent, r.calls[k])
        BY <2>1, <3>1, <3>2, MoreFeeds
      <3>4. More(lin, new)
        BY <3>2, MoreIsMore
      <3> QED BY <3>1, <3>3, <3>4
    <2>4. \A k \in 1 .. n + 1 : k \in 1 .. n \/ k = n + 1
      BY <1>1, <1>11
    <2> QED BY <1>11, <2>2, <2>3, <2>4
  <1>12. N \in P
    <2> HIDE DEF P
    <2> QED BY <1>1, <1>10, <1>11, UpTo
  <1>13. GraphOK(called[N]) /\ More(lin, called[N]) /\ \A k \in 1 .. N : CallIsKept(called[N], r.agent, r.calls[k])
    BY <1>12 DEF U
  <1> HIDE DEF P
  <1> QED BY <1>2, <1>13 DEF RunIsKept, N

\* What is saved is in the order of the ids, and every dataset has one.
LEMMA AllAreStored ==
  ASSUME NEW ids \in Seq(Assets), NEW lin, GraphOK(lin)
  PROVE  StoredAfter(ids, lin) \in Seq(Assets) /\ lin.nodes \subseteq Range(StoredAfter(ids, lin))
  <1>1. PICK S : S = lin.nodes \ Range(ids)
    OBVIOUS
  <1>2. S \in SUBSET Assets
    BY <1>1 DEF GraphOK, Graphs
  <1>3. PICK s, N : s = Sorted(S) /\ N = Cardinality(S)
    OBVIOUS
  <1>4. /\ N \in Nat /\ DOMAIN s = 1 .. N /\ s \in Seq(S)
        /\ \A d \in S : \E n \in 1 .. N : s[n] = d
    BY <1>2, <1>3, NamesSorted, AssetsAreNumbers
  <1>5. s \in Seq(Assets)
    <2>1. Len(s) \in Nat /\ s \in [1 .. Len(s) -> S]
      BY <1>4, LenProperties
    <2>2. s \in [1 .. Len(s) -> Assets]
      BY <1>2, <2>1
    <2> QED BY <2>1, <2>2, SeqDef
  <1>6. S \subseteq Range(s)
    BY <1>4 DEF Range
  <1>7. ids \o s \in Seq(Assets) /\ Range(ids \o s) = Range(ids) \cup Range(s)
    BY <1>5, RangeOfBoth
  <1> QED BY <1>1, <1>3, <1>6, <1>7 DEF StoredAfter

LEMMA PositionsTell ==
  ASSUME NEW s, DOMAIN s \subseteq Nat, NEW x \in Range(s)
  PROVE  Position(s, x) \in Nat /\ s[Position(s, x)] = x
  <1>1. \E i \in DOMAIN s : s[i] = x
    BY DEF Range
  <1>2. Position(s, x) \in DOMAIN s /\ s[Position(s, x)] = x
    BY <1>1 DEF Position
  <1> QED BY <1>2

\* The rows that save_graph keeps: of each key the last.
RowsKept(lin) == {lin.edges[i] : i \in {j \in DOMAIN lin.edges :
                    \A k \in DOMAIN lin.edges : k > j => Key(lin.edges[k]) # Key(lin.edges[j])}}

LEMMA OneRowOfEach ==
  ASSUME NEW lin, GraphOK(lin)
  PROVE  /\ RowsKept(lin) \subseteq Range(lin.edges) /\ IsFiniteSet(RowsKept(lin))
         /\ \A e, f \in RowsKept(lin) : Key(e) = Key(f) => e = f
         /\ \A e \in Range(lin.edges) : \E f \in RowsKept(lin) : Key(f) = Key(e)
  <1> DEFINE s == lin.edges
             N == Len(s)
             Lasting == {j \in DOMAIN s : \A k \in DOMAIN s : k > j => Key(s[k]) # Key(s[j])}
             R == {s[i] : i \in Lasting}
  <1>0. R = RowsKept(lin)
    BY DEF RowsKept
  <1>1. s \in Seq(EdgeRows) /\ N \in Nat /\ DOMAIN s = 1 .. N
    BY LenProperties DEF GraphOK, Graphs
  <1> HIDE DEF s, N
  <1>2. R \subseteq Range(s) /\ \A r \in R : \E i \in Lasting : r = s[i]
    BY DEF Range
  <1>3. IsFiniteSet(R)
    BY <1>1, <1>2, RangesAreFinite, FS_Subset
  <1>4. ASSUME NEW e \in R, NEW f \in R, Key(e) = Key(f) PROVE e = f
    <2>1. PICK i \in Lasting : e = s[i]
      OBVIOUS
    <2>2. PICK j \in Lasting : f = s[j]
      OBVIOUS
    <2>3. i \in Nat /\ j \in Nat /\ ~(j > i) /\ ~(i > j)
      BY <1>1, <1>4, <2>1, <2>2
    <2>4. i = j
      BY <2>3
    <2> QED BY <2>1, <2>2, <2>4
  <1>5. ASSUME NEW e \in Range(s) PROVE \E f \in R : Key(f) = Key(e)
    <2> DEFINE Same == {j \in 1 .. N : Key(s[j]) = Key(e)}
    <2>1. Same # {} /\ Same \in SUBSET (1 .. N)
      BY <1>1 DEF Range
    <2>2. IsFiniteSet(Same) /\ Same \in SUBSET Int
      <3>1. IsFiniteSet(1 .. N) /\ 1 .. N \subseteq Int
        BY <1>1, FS_Interval
      <3> HIDE DEF Same
      <3> QED BY <2>1, <3>1, FS_Subset
    <2>3. PICK m \in Same : \A k \in Same : k <= m
      <3> HIDE DEF Same
      <3> QED BY <2>1, <2>2, FiniteHasGreatest
    <2>4. m \in Lasting
      <3>1. m \in DOMAIN s /\ m \in Nat
        BY <1>1
      <3>2. \A k \in DOMAIN s : k > m => Key(s[k]) # Key(s[m])
        BY <1>1, <2>3
      <3> QED BY <3>1, <3>2
    <2>5. s[m] \in R /\ Key(s[m]) = Key(e)
      BY <2>4
    <2> QED BY <2>5
  <1> HIDE DEF R
  <1> QED BY <1>0, <1>2, <1>3, <1>4, <1>5 DEF s

\* Loading puts the rows kept in the order of the store: each is there, once.
LexBefore(a, b, c, x, y, z) == a < x \/ (a = x /\ (b < y \/ (b = y /\ c < z)))

LEMMA LexIsAnOrder ==
  /\ \A a, b, c \in Nat : ~LexBefore(a, b, c, a, b, c)
  /\ \A a, b, c, x, y, z, u, v, w \in Nat :
       LexBefore(a, b, c, x, y, z) /\ LexBefore(x, y, z, u, v, w) => LexBefore(a, b, c, u, v, w)
  /\ \A a, b, c, x, y, z \in Nat :
       a # x \/ b # y \/ c # z => LexBefore(a, b, c, x, y, z) \/ LexBefore(x, y, z, a, b, c)
  BY DEF LexBefore

LEMMA ReloadedRows ==
  ASSUME NEW ids \in Seq(Assets), NEW lin, GraphOK(lin), lin.nodes \subseteq Range(ids)
  PROVE  LET edges == Reloaded(ids, lin).edges
         IN  edges \in Seq(EdgeRows) /\ Range(edges) = RowsKept(lin)
  <1> DEFINE rows == RowsKept(lin)
             P(e) == Position(ids, e[1])
             Q(e) == Position(ids, e[2])
             V(e) == Position(EvidenceOrder, e[3])
             B == {p \in rows \X rows : StoredBefore(ids, p[1], p[2])}
             N == Cardinality(rows)
             edges == Reloaded(ids, lin).edges
  <1>1. /\ rows \subseteq Range(lin.edges) /\ IsFiniteSet(rows)
        /\ \A e, f \in rows : Key(e) = Key(f) => e = f
    BY OneRowOfEach
  <1>2. \A e \in rows : e \in EdgeRows /\ e[1] \in Range(ids) /\ e[2] \in Range(ids) /\ e[3] \in Range(EvidenceOrder)
    BY <1>1 DEF GraphOK, RowOK, EdgeRows
  <1>3. DOMAIN EvidenceOrder \subseteq Nat /\ DOMAIN ids \subseteq Nat
    <2>1. DOMAIN EvidenceOrder \subseteq Nat
      BY DEF EvidenceOrder
    <2>2. DOMAIN ids \subseteq Nat
      BY LenProperties
    <2> QED BY <2>1, <2>2
  <1> HIDE DEF rows
  <1>4. ASSUME NEW e \in rows
        PROVE  /\ P(e) \in Nat /\ Q(e) \in Nat /\ V(e) \in Nat
               /\ ids[P(e)] = e[1] /\ ids[Q(e)] = e[2] /\ EvidenceOrder[V(e)] = e[3]
    BY <1>2, <1>3, PositionsTell
  <1>5. \A e, f \in rows : StoredBefore(ids, e, f) <=> LexBefore(P(e), Q(e), V(e), P(f), Q(f), V(f))
    BY DEF StoredBefore, LexBefore
  <1>6. \A e, f \in rows : <<e, f>> \in B <=> LexBefore(P(e), Q(e), V(e), P(f), Q(f), V(f))
    BY <1>5
  <1> HIDE DEF B
  <1>7. \A e, f \in rows : P(e) = P(f) /\ Q(e) = Q(f) /\ V(e) = V(f) => e = f
    <2>1. \A e, f \in rows : P(e) = P(f) /\ Q(e) = Q(f) /\ V(e) = V(f) => e[1] = f[1] /\ e[2] = f[2] /\ e[3] = f[3]
      <3> HIDE DEF P, Q, V
      <3> QED BY <1>4
    <2> QED BY <1>1, <2>1 DEF Key
  <1> HIDE DEF P, Q, V
  <1>8. \A e \in rows : <<e, e>> \notin B
    BY <1>4, <1>6, LexIsAnOrder
  <1>9. \A e, f, g \in rows : <<e, f>> \in B /\ <<f, g>> \in B => <<e, g>> \in B
    <2>1. ASSUME NEW e \in rows, NEW f \in rows, NEW g \in rows, <<e, f>> \in B, <<f, g>> \in B PROVE <<e, g>> \in B
      <3>1. P(e) \in Nat /\ Q(e) \in Nat /\ V(e) \in Nat /\ P(f) \in Nat /\ Q(f) \in Nat /\ V(f) \in Nat
            /\ P(g) \in Nat /\ Q(g) \in Nat /\ V(g) \in Nat
        BY <1>4
      <3>2. LexBefore(P(e), Q(e), V(e), P(f), Q(f), V(f)) /\ LexBefore(P(f), Q(f), V(f), P(g), Q(g), V(g))
        BY <1>6, <2>1
      <3>3. LexBefore(P(e), Q(e), V(e), P(g), Q(g), V(g))
        BY ONLY <3>1, <3>2 DEF LexBefore
      <3> QED BY <1>6, <3>3
    <2> QED BY <2>1
  <1>10. \A e, f \in rows : e # f => <<e, f>> \in B \/ <<f, e>> \in B
    <2>1. ASSUME NEW e \in rows, NEW f \in rows, e # f PROVE <<e, f>> \in B \/ <<f, e>> \in B
      <3>1. P(e) \in Nat /\ Q(e) \in Nat /\ V(e) \in Nat /\ P(f) \in Nat /\ Q(f) \in Nat /\ V(f) \in Nat
        BY <1>4
      <3>2. P(e) # P(f) \/ Q(e) # Q(f) \/ V(e) # V(f)
        BY <1>7, <2>1
      <3>3. LexBefore(P(e), Q(e), V(e), P(f), Q(f), V(f)) \/ LexBefore(P(f), Q(f), V(f), P(e), Q(e), V(e))
        BY ONLY <3>1, <3>2 DEF LexBefore
      <3> QED BY <1>6, <3>3
    <2> QED BY <2>1
  <1>11. /\ N \in Nat
         /\ \A e \in rows : RankBy(rows, B, e) \in 1 .. N
         /\ \A e, f \in rows : RankBy(rows, B, e) = RankBy(rows, B, f) => e = f
         /\ \A n \in 1 .. N : \E e \in rows : RankBy(rows, B, e) = n
    <2>1. IsFiniteSet(rows)
      BY <1>1
    <2> HIDE DEF N
    <2>2. N = Cardinality(rows)
      BY DEF N
    <2> QED BY ONLY <2>1, <2>2, <1>8, <1>9, <1>10, RanksTaken
  <1>12. ASSUME NEW e \in rows PROVE RankBy(rows, B, e) = Cardinality({f \in rows : StoredBefore(ids, f, e)}) + 1
    <2>1. \A f \in rows : <<f, e>> \in B <=> StoredBefore(ids, f, e)
      BY <1>5, <1>6
    <2>2. {f \in rows : <<f, e>> \in B} = {f \in rows : StoredBefore(ids, f, e)}
      BY <2>1
    <2> QED BY <2>2 DEF RankBy
  <1>13. edges = [n \in 1 .. N |-> CHOOSE e \in rows : Cardinality({f \in rows : StoredBefore(ids, f, e)}) + 1 = n]
    <2>1. lin = [nodes |-> lin.nodes, edges |-> lin.edges, spec |-> lin.spec]
      BY DEF GraphOK, Graphs
    <2> QED BY <2>1 DEF Reloaded, RowsKept, rows
  <1> HIDE DEF N, edges
  <1>14. \A n \in 1 .. N : edges[n] \in rows /\ RankBy(rows, B, edges[n]) = n
    <2>1. ASSUME NEW n \in 1 .. N PROVE edges[n] \in rows /\ RankBy(rows, B, edges[n]) = n
      <3>1. edges[n] = CHOOSE e \in rows : Cardinality({f \in rows : StoredBefore(ids, f, e)}) + 1 = n
        BY <1>13
      <3>2. \E e \in rows : Cardinality({f \in rows : StoredBefore(ids, f, e)}) + 1 = n
        BY <1>11, <1>12
      <3>3. edges[n] \in rows /\ Cardinality({f \in rows : StoredBefore(ids, f, edges[n])}) + 1 = n
        BY <3>1, <3>2
      <3> QED BY <1>12, <3>3
    <2> QED BY <2>1
  <1>15. DOMAIN edges = 1 .. N /\ edges \in [1 .. N -> EdgeRows]
    BY <1>2, <1>13, <1>14
  <1>16. \A e \in rows : \E n \in 1 .. N : edges[n] = e
    BY <1>11, <1>14
  <1>17. Range(edges) = rows
    BY <1>14, <1>15, <1>16 DEF Range
  <1>18. edges \in Seq(EdgeRows)
    BY <1>11, <1>15, SeqDef
  <1> QED BY <1>17, <1>18 DEF edges, rows

LEMMA ReloadedIsOK ==
  ASSUME NEW ids \in Seq(Assets), NEW lin, GraphOK(lin), lin.nodes \subseteq Range(ids)
  PROVE  /\ GraphOK(Reloaded(ids, lin))
         /\ \A a, b : Feeds(lin, a, b) => Feeds(Reloaded(ids, lin), a, b)
  <1>1. PICK new : new = Reloaded(ids, lin)
    OBVIOUS
  <1>2. lin = [nodes |-> lin.nodes, edges |-> lin.edges, spec |-> lin.spec]
    BY DEF GraphOK, Graphs
  <1>3. new = [nodes |-> lin.nodes, edges |-> new.edges, spec |-> lin.spec]
    BY <1>1, <1>2 DEF Reloaded
  <1>4. new.edges \in Seq(EdgeRows) /\ Range(new.edges) = RowsKept(lin)
    BY <1>1, ReloadedRows
  <1>5. /\ RowsKept(lin) \subseteq Range(lin.edges)
        /\ \A e \in Range(lin.edges) : \E f \in RowsKept(lin) : Key(f) = Key(e)
    BY OneRowOfEach
  <1>6. GraphOK(new)
    BY <1>3, <1>4, <1>5 DEF GraphOK, Graphs
  <1>7. ASSUME NEW a, NEW b, Feeds(lin, a, b) PROVE Feeds(new, a, b)
    <2>1. PICK e \in Range(lin.edges) : e[1] = a /\ e[2] = b
      BY <1>7 DEF Feeds
    <2>2. PICK f \in Range(new.edges) : Key(f) = Key(e)
      BY <1>4, <1>5
    <2>3. f[1] = a /\ f[2] = b
      BY <2>1, <2>2 DEF Key
    <2> QED BY <2>3 DEF Feeds
  <1> QED BY <1>1, <1>6, <1>7

LEMMA ExposureBegins ==
  ASSUME ExposureInit
  PROVE  ExposureInv
  <1>1. lineage.nodes = {} /\ lineage.edges = << >> /\ lineage.spec = << >> /\ stored = << >> /\ runs = << >>
        /\ lineage = [nodes |-> {}, edges |-> << >>, spec |-> << >>]
    BY DEF ExposureInit
  <1>2. lineage.edges \in Seq(EdgeRows) /\ Range(lineage.edges) = {}
    BY <1>1, EmptySeq DEF Range
  <1>3. lineage.spec \in [{} -> SpecNames]
    BY <1>1
  <1>4. lineage \in Graphs
    BY <1>1, <1>2, <1>3 DEF Graphs
  <1>5. GraphOK(lineage)
    BY <1>1, <1>2, <1>3, <1>4 DEF GraphOK
  <1>6. stored \in Seq(Assets) /\ runs \in Seq(AgentRuns) /\ Len(runs) = 0
    BY <1>1, EmptySeq
  <1> QED BY <1>5, <1>6 DEF ExposureInv

LEMMA RunsStayKept ==
  ASSUME NEW lin, NEW new, \A a, b : Feeds(lin, a, b) => Feeds(new, a, b), NEW r, RunIsKept(lin, r)
  PROVE  RunIsKept(new, r)
  BY DEF RunIsKept, CallIsKept

LEMMA ExposureGoesOn ==
  ASSUME ExposureInv, ExposureNext \/ UNCHANGED exposureVars
  PROVE  ExposureInv'
  <1>1. GraphOK(lineage) /\ stored \in Seq(Assets) /\ runs \in Seq(AgentRuns)
        /\ \A i \in 1 .. Len(runs) : RunIsKept(lineage, runs[i])
    BY DEF ExposureInv
  <1>2. ASSUME NEW lin, GraphOK(lin), More(lineage, lin), lineage' = lin, UNCHANGED <<stored, runs>>
        PROVE  ExposureInv'
    <2>1. \A a, b : Feeds(lineage, a, b) => Feeds(lin, a, b)
      BY <1>2, MoreFeeds
    <2>2. \A i \in 1 .. Len(runs) : RunIsKept(lin, runs[i])
      BY <1>1, <2>1, RunsStayKept
    <2> QED BY <1>1, <1>2, <2>2 DEF ExposureInv
  <1>3. CASE RecordTrainingRun
    <2>1. PICK r \in TrainingRuns : Recorded(TrainedOn(lineage, r))
      BY <1>3 DEF RecordTrainingRun
    <2> QED BY <1>1, <1>2, <2>1, TrainedIsOK DEF Recorded
  <1>4. CASE RecordEval
    <2>1. PICK e \in Evals : Recorded(Link(lineage, Edge(e.suite, e.model, "eval", FALSE), SpecFor(e.suite), "keyed"))
      BY <1>4 DEF RecordEval
    <2>2. e.suite \in Assets /\ e.model \in Assets /\ "eval" \in Range(EvidenceOrder)
      BY ExposureAssumption, EvidenceIs DEF ExposureAssumption
    <2>3. PICK lin : lin = Link(lineage, Edge(e.suite, e.model, "eval", FALSE), SpecFor(e.suite), "keyed")
      OBVIOUS
    <2>4. GraphOK(lin) /\ More(lineage, lin)
      BY <1>1, <2>2, <2>3, LinkIsOK, SpecsAreNamed, BothSpecs
    <2> QED BY <1>2, <2>1, <2>3, <2>4 DEF Recorded
  <1>5. CASE RecordContext
    <2>1. PICK c \in Contexts : Recorded(InContext(lineage, c))
      BY <1>5 DEF RecordContext
    <2> QED BY <1>1, <1>2, <2>1, ContextIsOK DEF Recorded
  <1>6. CASE RecordIndex
    <2>1. PICK i \in Indexes : Recorded(Indexed(lineage, i))
      BY <1>6 DEF RecordIndex
    <2> QED BY <1>1, <1>2, <2>1, IndexIsOK DEF Recorded
  <1>7. CASE RecordFeatureView
    <2>1. PICK v \in Views : Recorded(Materialized(lineage, v))
      BY <1>7 DEF RecordFeatureView
    <2> QED BY <1>1, <1>2, <2>1, ViewIsOK DEF Recorded
  <1>8. CASE RecordPrompt
    <2>1. PICK t \in Templates : Recorded(LinkAll(lineage, t.sources, t.prompt, "prompt:variable", TRUE))
      BY <1>8 DEF RecordPrompt
    <2>2. t.sources \in SUBSET Assets /\ t.prompt \in Assets /\ "prompt:variable" \in Range(EvidenceOrder)
      BY ExposureAssumption, EvidenceIs DEF ExposureAssumption
    <2>3. PICK lin : lin = LinkAll(lineage, t.sources, t.prompt, "prompt:variable", TRUE)
      OBVIOUS
    <2>4. GraphOK(lin) /\ More(lineage, lin)
      BY <1>1, <2>2, <2>3, LinkAllIsOK
    <2> QED BY <1>2, <2>1, <2>3, <2>4 DEF Recorded
  <1>9. CASE RecordAgentRun
    <2>1. PICK r \in AgentRuns : lineage' = AllCalled(lineage, r) /\ runs' = Append(runs, r) /\ UNCHANGED stored
      BY <1>9 DEF RecordAgentRun
    <2>2. GraphOK(lineage') /\ More(lineage, lineage') /\ RunIsKept(lineage', r)
      BY <1>1, <2>1, RunIsOK
    <2>3. runs' \in Seq(AgentRuns) /\ Len(runs') = Len(runs) + 1 /\ runs'[Len(runs) + 1] = r
          /\ \A i \in 1 .. Len(runs) : runs'[i] = runs[i]
      BY <1>1, <2>1, AppendProperties
    <2>4. \A a, b : Feeds(lineage, a, b) => Feeds(lineage', a, b)
      BY <2>2, MoreFeeds
    <2>5. \A i \in 1 .. Len(runs) : RunIsKept(lineage', runs[i])
      BY <1>1, <2>4, RunsStayKept
    <2>6. \A i \in 1 .. Len(runs') : i \in 1 .. Len(runs) \/ i = Len(runs) + 1
      BY <1>1, <2>3, LenProperties
    <2>7. \A i \in 1 .. Len(runs') : RunIsKept(lineage', runs'[i])
      BY <2>2, <2>3, <2>5, <2>6
    <2>8. stored' \in Seq(Assets)
      BY <1>1, <2>1
    <2> QED BY <2>2, <2>3, <2>7, <2>8 DEF ExposureInv
  <1>10. CASE SaveAndLoad
    <2>1. stored' = StoredAfter(stored, lineage) /\ lineage' = Reloaded(stored', lineage) /\ runs' = runs
      BY <1>10 DEF SaveAndLoad
    <2>2. stored' \in Seq(Assets) /\ lineage.nodes \subseteq Range(stored')
      BY <1>1, <2>1, AllAreStored
    <2>3. GraphOK(lineage') /\ \A a, b : Feeds(lineage, a, b) => Feeds(lineage', a, b)
      BY <1>1, <2>1, <2>2, ReloadedIsOK
    <2>4. \A i \in 1 .. Len(runs) : RunIsKept(lineage', runs[i])
      BY <1>1, <2>3, RunsStayKept
    <2> QED BY <1>1, <2>1, <2>2, <2>3, <2>4 DEF ExposureInv
  <1>11. CASE UNCHANGED exposureVars
    <2>1. lineage' = lineage /\ stored' = stored /\ runs' = runs
      BY <1>11 DEF exposureVars
    <2> QED BY <1>1, <2>1 DEF ExposureInv
  <1> QED BY <1>3, <1>4, <1>5, <1>6, <1>7, <1>8, <1>9, <1>10, <1>11 DEF ExposureNext

LEMMA GraphIs ==
  ASSUME NEW lin, GraphOK(lin), NEW g, g = InGraph(lin)
  PROVE  /\ IsLineage(g) /\ g.nodes = lin.nodes /\ g.edges = Range(lin.edges)
         /\ \A a, b : Feeds(lin, a, b) <=> b \in Children(g, a)
         /\ \A a, b : Feeds(lin, a, b) <=> a \in Parents(g, b)
         /\ \A a, b : Feeds(lin, a, b) => a \in lin.nodes /\ b \in lin.nodes
  <1>1. lin = [nodes |-> lin.nodes, edges |-> lin.edges, spec |-> lin.spec]
    BY DEF GraphOK, Graphs
  <1>2. g.nodes = lin.nodes /\ g.edges = Range(lin.edges)
    BY <1>1 DEF InGraph
  <1>3. g.nodes \in SUBSET Nat /\ IsFiniteSet(g.nodes)
    BY <1>2, AssetsAreNumbers DEF GraphOK, Graphs
  <1>4. \A e \in Range(lin.edges) : e[1] \in lin.nodes /\ e[2] \in lin.nodes
    BY DEF GraphOK, RowOK
  <1>5. IsLineage(g)
    BY <1>2, <1>3, <1>4 DEF IsLineage
  <1>6. \A a, b : Feeds(lin, a, b) <=> b \in Children(g, a)
    BY <1>2 DEF Feeds, Children, OutEdges
  <1>7. \A a, b : Feeds(lin, a, b) <=> a \in Parents(g, b)
    BY <1>2 DEF Feeds, Parents, InEdges
  <1>8. \A a, b : Feeds(lin, a, b) => a \in lin.nodes /\ b \in lin.nodes
    BY <1>4 DEF Feeds
  <1> QED BY <1>2, <1>5, <1>6, <1>7, <1>8

LEMMA RelatedLeak ==
  ASSUME NEW lin, NEW x, NEW s
  PROVE  LeakagePaths(lin, x, s) # {} <=> s \in Descendants(InGraph(lin), x) \/ x \in Descendants(InGraph(lin), s)
  <1>1. PICK g : g = InGraph(lin)
    OBVIOUS
  <1> DEFINE Pairs == {q \in {<<x, s>>, <<s, x>>} : HasPath(g, q[1], q[2])}
  <1>2. LeakagePaths(lin, x, s) = {ShortestPath(g, p[1], p[2]) : p \in Pairs}
    BY <1>1 DEF LeakagePaths
  <1>3. <<x, s>> \in Pairs <=> s \in Descendants(g, x)
    BY DEF HasPath
  <1>4. <<s, x>> \in Pairs <=> x \in Descendants(g, s)
    BY DEF HasPath
  <1>5. \A p \in Pairs : p = <<x, s>> \/ p = <<s, x>>
    OBVIOUS
  <1> HIDE DEF Pairs
  <1> QED BY <1>1, <1>2, <1>3, <1>4, <1>5

\* A verdict on an eval set is clean when nothing is shared and no path found, and
\* contaminated when there is a path.
LEMMA VerdictsMean ==
  ASSUME NEW lin, NEW g, g = InGraph(lin), NEW m, NEW s, NEW others, others = Parents(g, m) \ {s}
  PROVE  LET verdict == Contamination(lin, m, s).severity IN
         /\ verdict = "contaminated" <=> \E x \in others : s \in Descendants(g, x) \/ x \in Descendants(g, s)
         /\ verdict = "clean" => \A x \in others : /\ s \notin Descendants(g, x) /\ x \notin Descendants(g, s)
                                                   /\ Ancestors(g, x) \cap Ancestors(g, s) = {}
  <1> DEFINE shared == UNION {SharedAncestry(lin, x, s) : x \in others}
             paths  == UNION {LeakagePaths(lin, x, s) : x \in others}
  <1>1. Contamination(lin, m, s).severity =
          IF paths # {} THEN "contaminated" ELSE IF shared # {} THEN "suspect" ELSE "clean"
    BY DEF Contamination, TrainingInputs
  <1>2. paths # {} <=> \E x \in others : LeakagePaths(lin, x, s) # {}
    OBVIOUS
  <1>3. shared = {} => \A x \in others : Ancestors(g, x) \cap Ancestors(g, s) = {}
    BY DEF SharedAncestry, CommonAncestors
  <1>4. \A x \in others : LeakagePaths(lin, x, s) # {} <=> s \in Descendants(g, x) \/ x \in Descendants(g, s)
    BY RelatedLeak
  <1> HIDE DEF shared, paths
  <1>5. paths # {} <=> \E x \in others : s \in Descendants(g, x) \/ x \in Descendants(g, s)
    BY <1>2, <1>4
  <1> QED BY <1>1, <1>3, <1>5

LEMMA CleanIsClean ==
  ASSUME ExposureInv
  PROVE  CleanScoresShareNothing
  <1>1. PICK g : g = InGraph(lineage)
    OBVIOUS
  <1>2. /\ GraphOK(lineage) /\ IsLineage(g) /\ g.nodes = lineage.nodes
        /\ \A a, b : Feeds(lineage, a, b) <=> a \in Parents(g, b)
        /\ \A a, b : Feeds(lineage, a, b) <=> b \in Children(g, a)
        /\ \A a, b : Feeds(lineage, a, b) => a \in lineage.nodes /\ b \in lineage.nodes
    BY <1>1, GraphIs DEF ExposureInv
  <1>3. /\ \A x, y \in g.nodes : y \in Ancestors(g, x) <=> x \in Descendants(g, y)
        /\ \A y \in g.nodes : \A x \in Ancestors(g, y) : Ancestors(g, x) \subseteq Ancestors(g, y)
        /\ \A y \in g.nodes : Ancestors(g, y) \subseteq g.nodes /\ Descendants(g, y) \subseteq g.nodes
    BY <1>2, WalksAgree
  <1>4. SUFFICES ASSUME NEW m \in ModelsOf(lineage), NEW s \in EvalSetsFor(lineage, m)
        PROVE  LET verdict == Contamination(lineage, m, s).severity
                   related == {s} \cup Ancestors(g, s) \cup Descendants(g, s)
               IN  /\ verdict = "clean" =>
                        \A x \in TrainingInputs(lineage, m) \ {s} : ({x} \cup Ancestors(g, x)) \cap related = {}
                   /\ <<m, s>> \in ContaminatedModels(lineage) <=>
                        \E x \in TrainingInputs(lineage, m) \ {s} : s \in Ancestors(g, x) \/ x \in Ancestors(g, s)
                   /\ m \in ModelsEvaluatedBy(lineage, s)
                   /\ verdict = "clean" /\ HoldoutIntegrity(lineage, s) = {} =>
                        \A a \in Ancestors(g, s) \ {s} : ~IsModel(a) /\ a \notin BillOfMaterials(lineage, m).direct
    BY <1>1 DEF CleanScoresShareNothing
  <1> DEFINE verdict == Contamination(lineage, m, s).severity
  <1>5. m \in g.nodes /\ IsModel(m) /\ s \in Parents(g, m) /\ s \in g.nodes
    <2>1. m \in lineage.nodes /\ IsModel(m)
      BY DEF ModelsOf
    <2>2. s \in Parents(g, m)
      BY <1>1 DEF EvalSetsFor
    <2>3. Feeds(lineage, s, m)
      BY <1>2, <2>2
    <2> QED BY <1>2, <2>1, <2>2, <2>3
  <1>6. PICK others : others = Parents(g, m) \ {s}
    OBVIOUS
  <1>7. others \subseteq g.nodes /\ TrainingInputs(lineage, m) = Parents(g, m) /\ BillOfMaterials(lineage, m).direct = Parents(g, m)
    <2>1. TrainingInputs(lineage, m) = Parents(g, m)
      BY <1>1 DEF TrainingInputs
    <2>2. BillOfMaterials(lineage, m).direct = TrainingInputs(lineage, m)
      BY DEF BillOfMaterials
    <2>3. \A x \in others : Feeds(lineage, x, m)
      BY <1>2, <1>6
    <2> QED BY <1>2, <2>1, <2>2, <2>3
  <1>8. /\ verdict = "contaminated" <=> \E x \in others : s \in Descendants(g, x) \/ x \in Descendants(g, s)
        /\ verdict = "clean" => \A x \in others : /\ s \notin Descendants(g, x) /\ x \notin Descendants(g, s)
                                                  /\ Ancestors(g, x) \cap Ancestors(g, s) = {}
    BY <1>1, <1>6, VerdictsMean
  <1>9. <<m, s>> \in ContaminatedModels(lineage) <=> verdict = "contaminated"
    <2>1. AuditEvals(lineage, m)[s] = Contamination(lineage, m, s)
      BY DEF AuditEvals
    <2>2. m \in ModelsOf(lineage) /\ s \in EvalSetsFor(lineage, m)
      BY <1>4
    <2>3. \A n : \A t \in EvalSetsFor(lineage, n) : <<n, t>> = <<m, s>> => n = m /\ t = s
      OBVIOUS
    <2>4. <<m, s>> \in ContaminatedModels(lineage) <=> IsContaminated(AuditEvals(lineage, m)[s])
      BY <2>2 DEF ContaminatedModels
    <2> QED BY <2>1, <2>4 DEF IsContaminated
  <1> HIDE DEF verdict
  <1>10. ASSUME verdict = "clean", NEW x \in others
         PROVE  ({x} \cup Ancestors(g, x)) \cap ({s} \cup Ancestors(g, s) \cup Descendants(g, s)) = {}
    <2>1. x \in g.nodes /\ x # s /\ s \notin Descendants(g, x) /\ x \notin Descendants(g, s)
          /\ Ancestors(g, x) \cap Ancestors(g, s) = {}
      BY <1>6, <1>7, <1>8, <1>10
    <2>2. x \notin Ancestors(g, s) /\ s \notin Ancestors(g, x)
      BY <1>3, <1>5, <2>1
    <2>3. ASSUME NEW y \in Ancestors(g, x) PROVE y \notin Descendants(g, s)
      BY <1>3, <1>5, <2>1, <2>2
    <2> QED BY <2>1, <2>2, <2>3
  <1>11. (\E x \in others : s \in Descendants(g, x) \/ x \in Descendants(g, s))
           <=> \E x \in others : s \in Ancestors(g, x) \/ x \in Ancestors(g, s)
    BY <1>3, <1>5, <1>7
  <1>12. m \in ModelsEvaluatedBy(lineage, s)
    <2>1. m \in Children(g, s)
      BY <1>2, <1>5
    <2> QED BY <1>1, <1>5, <2>1 DEF ModelsEvaluatedBy
  <1>13. ASSUME verdict = "clean", HoldoutIntegrity(lineage, s) = {}, NEW a \in Ancestors(g, s) \ {s}
         PROVE  ~IsModel(a) /\ a \notin Parents(g, m)
    <2>1. ~IsModel(a)
      <3>1. {<<"derived from", b>> : b \in {x \in Ancestors(g, s) : IsModel(x)}} \subseteq HoldoutIntegrity(lineage, s)
        BY <1>1 DEF HoldoutIntegrity
      <3> QED BY <1>13, <3>1
    <2>2. a \notin others
      BY <1>3, <1>5, <1>7, <1>8, <1>13
    <2> QED BY <1>6, <1>13, <2>1, <2>2
  <1> QED BY <1>6, <1>7, <1>8, <1>9, <1>10, <1>11, <1>12, <1>13 DEF verdict

LEMMA WatchedAreFound ==
  ASSUME ExposureInv
  PROVE  WatchedFeaturesAreFound
  <1>1. PICK g : g = InGraph(lineage)
    OBVIOUS
  <1>2. GraphOK(lineage) /\ IsLineage(g) /\ g.nodes = lineage.nodes
    BY <1>1, GraphIs DEF ExposureInv
  <1>3. SUFFICES ASSUME NEW v \in lineage.nodes, KindOf[v] = "feature", NEW d \in Tables,
                        LabelReachesFeatures(lineage, d, v)
        PROVE  /\ v \in ViewsNeedingBackfill(lineage, d)
               /\ Head(LeakagePath(lineage, d, v)) = d
               /\ \A m \in ModelsUsing(lineage, v) : v \in FeaturesForModel(lineage, m) /\ m \in ModelsTrainedOn(lineage, d)
    BY DEF WatchedFeaturesAreFound
  <1>4. d \in g.nodes /\ v \in g.nodes /\ v \in Descendants(g, d) /\ HasPath(g, d, v)
    BY <1>1, <1>2, <1>3 DEF Tables, LabelReachesFeatures, HasPath
  <1>5. v \in ViewsNeedingBackfill(lineage, d)
    BY <1>1, <1>3, <1>4 DEF ViewsNeedingBackfill
  <1>6. PICK w : w = ShortestPath(g, d, v)
    OBVIOUS
  <1>7. LeakagePath(lineage, d, v) = w
    BY <1>1, <1>3, <1>6 DEF LeakagePath
  <1>8. Head(w) = d
    <2>1. (d = v => w = <<d>>) /\ (d # v => LeadsTo(g, d, w, v))
      BY <1>2, <1>4, <1>6, PathsAreWays
    <2> QED BY <2>1 DEF LeadsTo
  <1>9. ASSUME NEW m \in ModelsUsing(lineage, v)
        PROVE  v \in FeaturesForModel(lineage, m) /\ m \in ModelsTrainedOn(lineage, d)
    <2>1. m \in Descendants(g, v) /\ IsModel(m)
      BY <1>1 DEF ModelsUsing
    <2>2. m \in g.nodes /\ v \in Ancestors(g, m) /\ m \in Descendants(g, d)
      BY <1>2, <1>4, <2>1, WalksAgree
    <2> QED BY <1>1, <1>3, <2>1, <2>2 DEF FeaturesForModel, ModelsTrainedOn
  <1> QED BY <1>5, <1>7, <1>8, <1>9

\* What a route means for the data: an asset has it in its weights when the remedy without
\* keys is to retrain.
NotTables(g, o) == {d \in Descendants(g, o) : KindOf[d] # "table"}
InWeights(X)    == {a \in DOMAIN X : IsInWeights(X[a])}

LEMMA RetrainsAreWeights ==
  ASSUME NEW lin, NEW o, NEW g, g = InGraph(lin), NEW X, X = Exposures(lin, o)
  PROVE  /\ DOMAIN X = NotTables(g, o)
         /\ \A a \in DOMAIN X : X[a].route = RouteOf(lin, a)
         /\ RetrainingRequired(lin, o) = InWeights(X)
  <1>1. DOMAIN X = NotTables(g, o)
        /\ \A a \in DOMAIN X : X[a].route = RouteOf(lin, a)
    BY DEF Exposures, NotTables
  <1>2. DOMAIN Obligations(lin, o, {}, {}) = DOMAIN X
    BY DEF Obligations
  <1>3. \A a \in DOMAIN X : Obligations(lin, o, {}, {})[a].remedy = Remediation(X[a], a, {}, {})
    BY DEF Obligations
  <1>4. ASSUME NEW a \in DOMAIN X PROVE Remediation(X[a], a, {}, {}) = "retrain" <=> IsInWeights(X[a])
    <2>1. CASE IsInWeights(X[a])
      BY <2>1 DEF Remediation
    <2>2. CASE ~IsInWeights(X[a])
      <3>1. Remediation(X[a], a, {}, {}) \in {"purge_logs", "delete_vectors", "none"}
        BY <2>2 DEF Remediation
      <3> QED BY <2>2, <3>1
    <2> QED BY <2>1, <2>2
  <1>5. RetrainingRequired(lin, o) = InWeights(X)
    BY <1>2, <1>3, <1>4 DEF RetrainingRequired, InWeights
  <1> QED BY <1>1, <1>5

LEMMA LearnedIsInWeights ==
  ASSUME ExposureInv
  PROVE  LearnedMeansInWeights
  <1>1. PICK g : g = InGraph(lineage)
    OBVIOUS
  <1>2. GraphOK(lineage) /\ g.edges = Range(lineage.edges)
    BY <1>1, GraphIs DEF ExposureInv
  <1>3. SUFFICES ASSUME NEW o \in Tables, NEW m \in ModelsTrainedOn(lineage, o),
                        \A e \in InEdges(g, m) : RouteFromEvidence(e[3]) \in {"training", "unknown"}
        PROVE  /\ m \in RetrainingRequired(lineage, o) /\ ~IsDeletionSufficient(lineage, o)
               /\ m \in CompletenessStatement(lineage, o, {}).affected
               /\ <<"weights", m>> \in UnreachableCopies(lineage, o)
    BY <1>1 DEF LearnedMeansInWeights
  <1>4. m \in Descendants(g, o) /\ KindOf[m] \in Weights
    BY <1>1 DEF ModelsTrainedOn, IsModel
  <1>5. RouteOf(lineage, m) \in {"training", "fine_tune"}
    <2> DEFINE told == {i \in DOMAIN lineage.edges :
                          lineage.edges[i][2] = m /\ RouteFromEvidence(lineage.edges[i][3]) # "unknown"}
    <2>1. RouteOf(lineage, m) = IF told = {} THEN RouteOfKind(KindOf[m])
                                ELSE RouteFromEvidence(lineage.edges[Min(told)][3])
      BY DEF RouteOf
    <2>2. CASE told = {}
      <3>1. RouteOfKind(KindOf[m]) \in {"training", "fine_tune"}
        BY <1>4 DEF RouteOfKind, Weights
      <3> QED BY <2>1, <2>2, <3>1
    <2>3. CASE told # {}
      <3>1. told \in SUBSET Nat
        BY <1>2, LenProperties DEF GraphOK, Graphs
      <3>2. \E i \in told : \A j \in told : i <= j
        <4> HIDE DEF told
        <4> QED BY <2>3, <3>1, LeastNumber
      <3>3. Min(told) \in told
        <4> HIDE DEF told
        <4> QED BY <3>2 DEF Min
      <3>4. PICK i \in told : i = Min(told)
        BY <3>3
      <3>5. lineage.edges[i] \in InEdges(g, m)
        BY <1>2 DEF InEdges, Range
      <3>6. RouteFromEvidence(lineage.edges[i][3]) = "training"
        BY <1>3, <3>5
      <3> HIDE DEF told
      <3> QED BY <2>1, <2>3, <3>4, <3>6
    <2> QED BY <2>2, <2>3
  <1>6. PICK X : X = Exposures(lineage, o)
    OBVIOUS
  <1>7. m \in DOMAIN X /\ X[m].route = RouteOf(lineage, m) /\ RetrainingRequired(lineage, o) = InWeights(X)
    <2>1. KindOf[m] # "table"
      BY <1>4 DEF Weights
    <2>2. DOMAIN X = NotTables(g, o) /\ (\A a \in DOMAIN X : X[a].route = RouteOf(lineage, a))
          /\ RetrainingRequired(lineage, o) = InWeights(X)
      BY ONLY <1>1, <1>6, RetrainsAreWeights
    <2> QED BY <1>4, <2>1, <2>2 DEF NotTables
  <1>8. IsInWeights(X[m])
    BY <1>5, <1>7 DEF IsInWeights
  <1>9. m \in RetrainingRequired(lineage, o)
    BY <1>7, <1>8 DEF InWeights
  <1>10. ~IsDeletionSufficient(lineage, o)
    BY <1>6, <1>7, <1>8 DEF IsDeletionSufficient
  <1>11. m \in CompletenessStatement(lineage, o, {}).affected
    <2>1. PICK due : due = Obligations(lineage, o, {}, {})
      OBVIOUS
    <2>2. m \in DOMAIN due /\ due[m].route = X[m].route
      BY <1>6, <1>7, <2>1 DEF Obligations
    <2>3. IsInWeights(due[m])
      BY <1>8, <2>2 DEF IsInWeights
    <2>4. CompletenessStatement(lineage, o, {}).affected = {a \in DOMAIN due : IsInWeights(due[a])}
      BY <2>1 DEF CompletenessStatement
    <2> QED BY <2>2, <2>3, <2>4
  <1>12. <<"weights", m>> \in UnreachableCopies(lineage, o)
    BY <1>6, <1>7, <1>8 DEF UnreachableCopies
  <1> QED BY <1>9, <1>10, <1>11, <1>12

LEMMA BillsAgree ==
  ASSUME ExposureInv
  PROVE  ReportsAgree
  <1>1. PICK g : g = InGraph(lineage)
    OBVIOUS
  <1>2. GraphOK(lineage) /\ IsLineage(g) /\ g.nodes = lineage.nodes /\ g.edges = Range(lineage.edges)
    BY <1>1, GraphIs DEF ExposureInv
  <1>3. /\ \A x, y \in g.nodes : y \in Ancestors(g, x) <=> x \in Descendants(g, y)
        /\ \A y \in g.nodes : /\ Parents(g, y) = {} => Ancestors(g, y) = {}
                              /\ Descendants(g, y) \subseteq g.nodes
    BY <1>2, WalksAgree
  <1>4. ASSUME NEW o \in Tables
        PROVE  /\ IsDeletionSufficient(lineage, o) <=> RetrainingRequired(lineage, o) = {}
               /\ ModelsExposedTo(lineage, o) = ModelsTrainedOn(lineage, o)
               /\ SumFunction(ExposureSummary(lineage, o)) = Cardinality(DOMAIN Exposures(lineage, o))
               /\ \A m \in ModelsOf(lineage) :
                    o \in BillOfMaterials(lineage, m).transitive <=> m \in ModelsTrainedOn(lineage, o)
    <2>1. PICK X : X = Exposures(lineage, o)
      OBVIOUS
    <2>2. DOMAIN X = {d \in Descendants(g, o) : KindOf[d] # "table"}
          /\ RetrainingRequired(lineage, o) = {a \in DOMAIN X : IsInWeights(X[a])}
      <3>1. DOMAIN X = NotTables(g, o) /\ RetrainingRequired(lineage, o) = InWeights(X)
        BY ONLY <1>1, <2>1, RetrainsAreWeights
      <3> QED BY <3>1 DEF NotTables, InWeights
    <2>3. IsDeletionSufficient(lineage, o) <=> RetrainingRequired(lineage, o) = {}
      BY <2>1, <2>2 DEF IsDeletionSufficient
    <2>4. ModelsExposedTo(lineage, o) = ModelsTrainedOn(lineage, o)
      BY <1>1, <2>1, <2>2 DEF ModelsExposedTo, ModelsTrainedOn, IsModel, Weights
    <2>5. o \in g.nodes
      BY <1>2 DEF Tables
    <2>6. SumFunction(ExposureSummary(lineage, o)) = Cardinality(DOMAIN X)
      <3> DEFINE c == [a \in DOMAIN X |-> X[a].route]
                 T == {X[a].route : a \in DOMAIN X}
      <3>1. IsFiniteSet(DOMAIN X)
        <4>1. DOMAIN X \in SUBSET g.nodes /\ IsFiniteSet(g.nodes)
          BY <1>2, <1>3, <2>2, <2>5 DEF IsLineage
        <4> QED BY <4>1, FS_Subset
      <3>2. IsFiniteSet(T) /\ \A a \in DOMAIN X : c[a] \in T /\ c[a] = X[a].route
        <4>1. c \in Surjection(DOMAIN X, T)
          BY DEF Surjection
        <4> HIDE DEF T
        <4>2. IsFiniteSet(T)
          BY <3>1, <4>1, FS_Surjection DEF ExistsSurjection
        <4> QED BY <4>2 DEF T
      <3>3. ExposureSummary(lineage, o) = [t \in T |-> CountOf(DOMAIN X, c, t)]
        <4>1. ASSUME NEW t \in T PROVE CountOf(DOMAIN X, c, t) = Cardinality({a \in DOMAIN X : X[a].route = t})
          <5>1. {a \in DOMAIN X : c[a] = t} = {a \in DOMAIN X : X[a].route = t}
            BY <3>2
          <5> QED BY <5>1 DEF CountOf
        <4> QED BY <2>1, <4>1 DEF ExposureSummary
      <3> HIDE DEF c, T
      <3>4. SumFunction([t \in T |-> CountOf(DOMAIN X, c, t)]) = Cardinality(DOMAIN X)
        BY <3>1, <3>2, CountByClass
      <3> QED BY <3>3, <3>4
    <2>7. ASSUME NEW m \in ModelsOf(lineage)
          PROVE  o \in BillOfMaterials(lineage, m).transitive <=> m \in ModelsTrainedOn(lineage, o)
      <3>1. m \in g.nodes /\ IsModel(m)
        BY <1>2 DEF ModelsOf
      <3>2. BillOfMaterials(lineage, m).transitive = Ancestors(g, m)
        BY <1>1 DEF BillOfMaterials
      <3> QED BY <1>1, <1>3, <2>5, <3>1, <3>2 DEF ModelsTrainedOn
    <2> QED BY <2>1, <2>3, <2>4, <2>6, <2>7
  <1>5. ASSUME NEW m \in ModelsOf(lineage)
        PROVE  LET bill == BillOfMaterials(lineage, m)
               IN  /\ bill.gaps = {} =>
                        bill.direct # {} /\ \A e \in InEdges(g, m) : e[3] # "training:base"
                   /\ m \in UntrackedModels(lineage) => bill.gaps # {}
    <2>1. m \in g.nodes
      BY <1>2 DEF ModelsOf
    <2>2. PICK gaps : gaps = ProvenanceGaps(lineage, m)
      OBVIOUS
    <2>3. BillOfMaterials(lineage, m).gaps = gaps /\ BillOfMaterials(lineage, m).direct = Parents(g, m)
      BY <1>1, <2>2 DEF BillOfMaterials, TrainingInputs
    <2>4. Parents(g, m) = {} => gaps # {}
      BY <1>1, <1>3, <2>1, <2>2 DEF ProvenanceGaps
    <2>5. ASSUME NEW e \in InEdges(g, m), e[3] = "training:base" PROVE gaps # {}
      <3>1. ~e[4]
        BY <1>2, <2>5 DEF InEdges, GraphOK, RowOK
      <3>2. <<"columns", e[1]>> \in gaps \/ Ancestors(g, m) = {}
        BY <1>1, <2>2, <2>5, <3>1 DEF ProvenanceGaps
      <3>3. Ancestors(g, m) = {} => gaps # {}
        BY <1>1, <2>2 DEF ProvenanceGaps
      <3> QED BY <3>2, <3>3
    <2>6. m \in UntrackedModels(lineage) => Parents(g, m) = {}
      BY <1>1 DEF UntrackedModels, Parents
    <2> QED BY <2>3, <2>4, <2>5, <2>6
  <1> QED BY <1>1, <1>4, <1>5 DEF ReportsAgree

LEMMA LaunderedIsSeen ==
  ASSUME ExposureInv
  PROVE  LaunderingIsSeen
  <1>1. PICK g : g = InGraph(lineage)
    OBVIOUS
  <1>2. /\ GraphOK(lineage) /\ IsLineage(g) /\ g.nodes = lineage.nodes
        /\ \A a, b : Feeds(lineage, a, b) <=> a \in Parents(g, b)
        /\ \A a, b : Feeds(lineage, a, b) <=> b \in Children(g, a)
        /\ \A a, b : Feeds(lineage, a, b) => a \in lineage.nodes /\ b \in lineage.nodes
    BY <1>1, GraphIs DEF ExposureInv
  <1>3. runs \in Seq(AgentRuns) /\ Len(runs) \in Nat /\ DOMAIN runs = 1 .. Len(runs)
    BY LenProperties DEF ExposureInv
  <1>4. LeastPrivilegeGap(Assets, runs) \cap DOMAIN AccessFrequency(runs) = {}
    BY DEF LeastPrivilegeGap, AccessFrequency
  <1>5. ASSUME NEW i \in DOMAIN runs, NEW d \in RiskReport(lineage, runs[i], runs).novel,
               NEW j \in DOMAIN runs, d \in DatasetsRead(runs[j])
        PROVE  runs[j].id = runs[i].id
    <2>1. d \in FirstTimeAccess(runs[i], runs)
      BY <1>5 DEF RiskReport
    <2> QED BY <1>5, <2>1 DEF FirstTimeAccess
  <1>6. ASSUME NEW i \in DOMAIN runs
        PROVE  /\ \A d \in DatasetsRead(runs[i]) : Feeds(lineage, d, runs[i].agent)
               /\ \A d \in DatasetsWritten(runs[i]) : Feeds(lineage, runs[i].agent, d)
    <2>1. PICK r \in AgentRuns : r = runs[i]
      BY <1>3, ElementOfSeq
    <2>2. RunIsKept(lineage, r)
      BY <1>3, <2>1 DEF ExposureInv
    <2>3. DOMAIN r.calls = 1 .. Len(r.calls)
      <3>1. r.calls \in Seq(Calls)
        BY ExposureAssumption DEF ExposureAssumption, Calls
      <3> QED BY <3>1, LenProperties
    <2> QED BY <2>1, <2>2, <2>3 DEF DatasetsRead, DatasetsWritten, RunIsKept, CallIsKept
  <1>7. ASSUME NEW i \in DOMAIN runs, NEW j \in DOMAIN runs
        PROVE  LET passed == DatasetsWritten(runs[i]) \cap DatasetsRead(runs[j])
               IN  /\ passed \subseteq UnreviewedWrites(lineage, runs[i].agent)
                   /\ passed # {} => DatasetsWritten(runs[j]) \subseteq BlastRadius(lineage, runs[i].agent)
                   /\ DatasetsRead(runs[i]) \cap Labelled # {} /\ passed # {} /\ EgressPoints(runs[j]) # {}
                        => RiskReport(lineage, runs[j], SubSeq(runs, 1, j - 1)).exfiltration # {}
    <2>1. PICK a, b : a = runs[i].agent /\ b = runs[j].agent
      OBVIOUS
    <2> DEFINE passed == DatasetsWritten(runs[i]) \cap DatasetsRead(runs[j])
    <2>2. ASSUME NEW d \in passed
          PROVE  /\ d \in Children(g, a) /\ d \in Parents(g, b) /\ b \in Children(g, d)
                 /\ a \in g.nodes /\ d \in g.nodes /\ b \in g.nodes
      BY <1>2, <1>6, <2>1
    <2>3. ASSUME NEW d \in passed PROVE d \in UnreviewedWrites(lineage, a)
      <3>1. OutEdges(g, d) # {}
        BY <2>2 DEF Children
      <3> QED BY <1>1, <2>2, <3>1 DEF UnreviewedWrites
    <2>4. ASSUME NEW d \in passed PROVE DatasetsWritten(runs[j]) \subseteq Descendants(g, a)
      <3>1. d \in Descendants(g, a) /\ \A x \in Descendants(g, a) : Children(g, x) \subseteq Descendants(g, a)
        BY <1>2, <2>2, BelowIsClosed
      <3>2. b \in Descendants(g, a)
        BY <2>2, <3>1
      <3>3. \A w \in DatasetsWritten(runs[j]) : w \in Children(g, b)
        BY <1>2, <1>6, <2>1
      <3> QED BY <3>1, <3>2, <3>3
    <2>5. ASSUME NEW d \in passed, NEW l \in DatasetsRead(runs[i]) \cap Labelled, EgressPoints(runs[j]) # {}
          PROVE  RiskReport(lineage, runs[j], SubSeq(runs, 1, j - 1)).exfiltration # {}
      <3>1. l \in Parents(g, a) /\ a \in Parents(g, d) /\ l \in g.nodes
        BY <1>2, <1>6, <2>1, <2>2
      <3>2. a \in Ancestors(g, d) /\ l \in Ancestors(g, a) /\ Ancestors(g, a) \subseteq Ancestors(g, d)
        BY <1>2, <2>2, <3>1, WalksAgree
      <3>3. d \in DatasetsRead(runs[j]) /\ l \in Ancestors(g, d) /\ l \in Labelled
        BY <3>2
      <3>4. l \in LabelsTouched(lineage, runs[j])
        BY <1>1, <3>3 DEF LabelsTouched, AgentReach
      <3>5. ExfiltrationPaths(lineage, runs[j]) = EgressPoints(runs[j])
        BY <3>4 DEF ExfiltrationPaths
      <3> QED BY <2>5, <3>5 DEF RiskReport
    <2> HIDE DEF passed
    <2>6. /\ passed \subseteq UnreviewedWrites(lineage, a)
          /\ passed # {} => DatasetsWritten(runs[j]) \subseteq BlastRadius(lineage, a)
      BY <1>1, <2>3, <2>4 DEF BlastRadius
    <2> QED BY <2>1, <2>5, <2>6 DEF passed
  <1> QED BY <1>4, <1>5, <1>7 DEF LaunderingIsSeen

\* The plan of a widened erasure once the assets of P were seen to: each has its remedy or
\* its refusal, and the refusals that read as their old reasons are gone.
BlockedBy(d) == IF d \notin DOMAIN Capabilities THEN "no adapter"
                ELSE IF Capabilities[d] = "none" THEN "refuses deletion" ELSE NoNote
PlainTarget(d) == [mode |-> IF BlockedBy(d) = NoNote THEN "rewrite" ELSE "none", blocked |-> BlockedBy(d)]
DueTarget(remedy) == [mode |-> IF remedy = "crypto_shred" THEN "crypto_shred" ELSE "none",
                      blocked |-> IF remedy = "crypto_shred" THEN NoNote ELSE remedy]
PlanAfter(R, due, P) ==
  [targets |-> [d \in R |-> IF d \in P THEN DueTarget(due[d].remedy) ELSE PlainTarget(d)],
   refusals |-> ({<<0, BlockedBy(d)>> : d \in {x \in R : BlockedBy(x) # NoNote}}
                   \ {<<0, BlockedBy(d)>> : d \in {x \in P : BlockedBy(x) # NoNote}})
                \cup {<<a, due[a].remedy>> : a \in {x \in P : due[x].remedy # "crypto_shred"}}]

LEMMA PlansStart ==
  ASSUME NEW lin, NEW o, NEW due, NEW R, R = {o} \cup Descendants(InGraph(lin), o)
  PROVE  BasePlan(lin, o) = PlanAfter(R, due, {})
  <1>1. BasePlan(lin, o) = [targets |-> [d \in R |-> PlainTarget(d)],
                            refusals |-> {<<0, BlockedBy(d)>> : d \in {x \in R : BlockedBy(x) # NoNote}}]
    BY DEF BasePlan, PlainTarget, BlockedBy
  <1>2. PlanAfter(R, due, {}).targets = [d \in R |-> PlainTarget(d)]
    BY DEF PlanAfter
  <1>3. PlanAfter(R, due, {}).refusals = {<<0, BlockedBy(d)>> : d \in {x \in R : BlockedBy(x) # NoNote}}
    BY DEF PlanAfter
  <1>4. PlanAfter(R, due, {}) = [targets |-> PlanAfter(R, due, {}).targets, refusals |-> PlanAfter(R, due, {}).refusals]
    BY DEF PlanAfter
  <1> QED BY <1>1, <1>2, <1>3, <1>4

LEMMA PlansGoOn ==
  ASSUME NEW due, NEW R, NEW P, P \subseteq R, NEW a \in R \ P, 0 \notin R
  PROVE  WithObligation(PlanAfter(R, due, P), a, due[a].remedy) = PlanAfter(R, due, P \cup {a})
  <1> DEFINE p == PlanAfter(R, due, P)
             q == PlanAfter(R, due, P \cup {a})
             remedy == due[a].remedy
             w == WithObligation(p, a, remedy)
             shred == remedy = "crypto_shred"
             kept == IF BlockedBy(a) = NoNote THEN p.refusals ELSE p.refusals \ {<<0, BlockedBy(a)>>}
  <1>1. DOMAIN p.targets = R /\ p.targets[a].blocked = BlockedBy(a)
        /\ \A d \in R : p.targets[d] = IF d \in P THEN DueTarget(due[d].remedy) ELSE PlainTarget(d)
    BY DEF PlanAfter, PlainTarget
  <1>2. w = [targets |-> [d \in R \cup {a} |-> IF d = a THEN DueTarget(remedy) ELSE p.targets[d]],
             refusals |-> IF shred THEN kept ELSE kept \cup {<<a, remedy>>}]
    <2> HIDE DEF p
    <2> QED BY <1>1 DEF WithObligation, DueTarget
  <1>3. q.targets = [d \in R |-> IF d \in P \cup {a} THEN DueTarget(due[d].remedy) ELSE PlainTarget(d)]
    BY DEF PlanAfter
  <1>4. w.targets = q.targets
    <2>1. R \cup {a} = R
      OBVIOUS
    <2>2. \A d \in R : (IF d = a THEN DueTarget(remedy) ELSE p.targets[d])
                         = IF d \in P \cup {a} THEN DueTarget(due[d].remedy) ELSE PlainTarget(d)
      <3> HIDE DEF p
      <3> QED BY <1>1
    <2>3. w.targets = [d \in R |-> IF d = a THEN DueTarget(remedy) ELSE p.targets[d]]
      BY <1>2, <2>1
    <2> HIDE DEF w, q, p
    <2> QED BY <1>3, <2>2, <2>3
  <1> DEFINE All0 == {<<0, BlockedBy(d)>> : d \in {x \in R : BlockedBy(x) # NoNote}}
             Gone(S) == {<<0, BlockedBy(d)>> : d \in {x \in S : BlockedBy(x) # NoNote}}
             Told(S) == {<<x, due[x].remedy>> : x \in {y \in S : due[y].remedy # "crypto_shred"}}
  <1>5. p.refusals = (All0 \ Gone(P)) \cup Told(P) /\ q.refusals = (All0 \ Gone(P \cup {a})) \cup Told(P \cup {a})
    BY DEF PlanAfter
  <1>6. Gone(P \cup {a}) = IF BlockedBy(a) = NoNote THEN Gone(P) ELSE Gone(P) \cup {<<0, BlockedBy(a)>>}
    OBVIOUS
  <1>7. Told(P \cup {a}) = IF shred THEN Told(P) ELSE Told(P) \cup {<<a, remedy>>}
    OBVIOUS
  <1>8. <<0, BlockedBy(a)>> \notin Told(P) /\ a # 0
    OBVIOUS
  <1>9. w.refusals = IF shred THEN kept ELSE kept \cup {<<a, remedy>>}
    BY <1>2
  <1>10. w = [targets |-> w.targets, refusals |-> w.refusals] /\ q = [targets |-> q.targets, refusals |-> q.refusals]
    BY <1>2 DEF PlanAfter
  <1> HIDE DEF w, q, p, All0, Gone, Told
  <1>11. w.refusals = q.refusals
    BY <1>5, <1>6, <1>7, <1>8, <1>9
  <1> QED BY <1>4, <1>10, <1>11 DEF w, q, p

\* Every asset that is due is seen to, by name.
LEMMA PlansAreExtended ==
  ASSUME NEW lin, GraphOK(lin), NEW o \in lin.nodes, NEW shreddable,
         NEW R, R = {o} \cup Descendants(InGraph(lin), o)
  PROVE  LET due == Obligations(lin, o, shreddable, {})
         IN  /\ DOMAIN due \subseteq R
             /\ ExtendPlan(lin, o, BasePlan(lin, o), shreddable) = PlanAfter(R, due, DOMAIN due)
  <1> DEFINE due == Obligations(lin, o, shreddable, {})
             D == DOMAIN due
             order == Sorted(D)
             N == Len(order)
  <1>1. PICK g : g = InGraph(lin)
    OBVIOUS
  <1>2. IsLineage(g) /\ g.nodes = lin.nodes /\ lin.nodes \subseteq Assets
    BY <1>1, GraphIs DEF GraphOK, Graphs
  <1>3. D = {d \in Descendants(g, o) : KindOf[d] # "table"}
    BY <1>1 DEF Obligations, Exposures
  <1>4. Descendants(g, o) \subseteq g.nodes
    BY <1>2, WalksAgree
  <1> HIDE DEF D
  <1>5. D \subseteq R /\ R \subseteq Assets /\ 0 \notin R
    BY <1>1, <1>2, <1>3, <1>4, AssetsAreNumbers
  <1>6. ExtendPlan(lin, o, BasePlan(lin, o), shreddable)
          = (CHOOSE h : h = [i \in 0 .. N |-> IF i = 0 THEN BasePlan(lin, o)
                                              ELSE WithObligation(h[i - 1], order[i], due[order[i]].remedy)])[N]
    BY DEF ExtendPlan, D
  <1>7. /\ N \in Nat
        /\ \A n \in 1 .. N : order[n] \in D
        /\ \A d \in D : \E n \in 1 .. N : order[n] = d
        /\ \A m, n \in 1 .. N : order[m] = order[n] => m = n
    <2>1. D \in SUBSET Nat /\ IsFiniteSet(D)
      BY <1>5, AssetsAreNumbers
    <2> QED BY <2>1, NamesSorted
  <1> HIDE DEF due, order, N
  <1> DEFINE SeenTo(n) == {order[i] : i \in 1 .. n}
             Extended(h) == h = [i \in 0 .. N |-> IF i = 0 THEN BasePlan(lin, o)
                                                  ELSE WithObligation(h[i - 1], order[i], due[order[i]].remedy)]
             extended == CHOOSE h : Extended(h)
             f == [n \in 0 .. N |-> PlanAfter(R, due, SeenTo(n))]
  <1>8. ExtendPlan(lin, o, BasePlan(lin, o), shreddable) = extended[N]
    BY <1>6
  <1>9. SeenTo(0) = {} /\ SeenTo(N) = D
    BY <1>7
  <1>10. BasePlan(lin, o) = PlanAfter(R, due, SeenTo(0))
    <2> HIDE DEF SeenTo
    <2> QED BY <1>9, PlansStart
  <1>11. ASSUME NEW n \in 1 .. N
         PROVE  WithObligation(PlanAfter(R, due, SeenTo(n - 1)), order[n], due[order[n]].remedy) = PlanAfter(R, due, SeenTo(n))
    <2>1. SeenTo(n) = SeenTo(n - 1) \cup {order[n]}
      <3>1. 1 .. n = (1 .. n - 1) \cup {n}
        BY <1>7
      <3> QED BY <3>1
    <2>2. SeenTo(n - 1) \subseteq R /\ order[n] \in R
      <3>1. \A i \in 1 .. n - 1 : i \in 1 .. N
        BY <1>7
      <3> QED BY <1>5, <1>7, <3>1
    <2>3. order[n] \notin SeenTo(n - 1)
      BY <1>7
    <2> HIDE DEF SeenTo
    <2> QED BY <1>5, <2>1, <2>2, <2>3, PlansGoOn
  <1> HIDE DEF SeenTo
  <1>12. Extended(f)
    <2>1. ASSUME NEW i \in 0 .. N
          PROVE  f[i] = IF i = 0 THEN BasePlan(lin, o) ELSE WithObligation(f[i - 1], order[i], due[order[i]].remedy)
      <3>1. CASE i = 0
        BY <1>10, <3>1
      <3>2. CASE i # 0
        <4>1. i \in 1 .. N /\ i - 1 \in 0 .. N
          BY <1>7, <3>2
        <4> QED BY <1>11, <3>2, <4>1
      <3> QED BY <3>1, <3>2
    <2>2. f = [i \in 0 .. N |-> f[i]]
      OBVIOUS
    <2> HIDE DEF f
    <2> QED BY <2>1, <2>2
  <1>13. Extended(extended)
    <2> HIDE DEF Extended
    <2> QED BY <1>12
  <1> HIDE DEF extended, f
  <1>14. extended[0] = BasePlan(lin, o)
         /\ \A n \in 0 .. N : n + 1 \in 0 .. N =>
              extended[n + 1] = WithObligation(extended[n], order[n + 1], due[order[n + 1]].remedy)
    <2>1. 0 \in 0 .. N /\ \A n \in 0 .. N : n + 1 # 0 /\ (n + 1) - 1 = n
      BY <1>7
    <2> QED BY <1>13, <2>1
  <1> HIDE DEF Extended
  <1> DEFINE Q == {n \in 0 .. N : extended[n] = PlanAfter(R, due, SeenTo(n))}
  <1>15. 0 \in Q
    BY <1>7, <1>10, <1>14
  <1>16. ASSUME NEW n \in 0 .. N, n + 1 \in 0 .. N, n \in Q PROVE n + 1 \in Q
    <2>1. n + 1 \in 1 .. N /\ (n + 1) - 1 = n
      BY <1>7, <1>16
    <2>2. WithObligation(PlanAfter(R, due, SeenTo(n)), order[n + 1], due[order[n + 1]].remedy) = PlanAfter(R, due, SeenTo(n + 1))
      BY <1>11, <2>1
    <2> QED BY <1>14, <1>16, <2>2
  <1>17. N \in Q
    <2> HIDE DEF Q
    <2> QED BY <1>7, <1>15, <1>16, UpTo
  <1> QED BY <1>5, <1>8, <1>9, <1>17 DEF due, D

LEMMA PlansAdmitAll ==
  ASSUME ExposureInv
  PROVE  ExtendedPlansAdmitAll
  <1>1. SUFFICES ASSUME NEW o \in Tables, NEW shreddable \in SUBSET ModelsOf(lineage)
        PROVE  LET whole == ExtendPlan(lineage, o, BasePlan(lineage, o), shreddable)
                   due  == Obligations(lineage, o, shreddable, {})
                   shred == {a \in DOMAIN due : due[a].remedy = "crypto_shred"}
               IN  /\ PlanIsComplete(whole) <=>
                        /\ DOMAIN due = shred
                        /\ \A d \in DOMAIN whole.targets \ shred :
                             d \in DOMAIN Capabilities /\ Capabilities[d] = "rewrite"
                   /\ \A a \in DOMAIN due \ shred :
                        whole.targets[a].blocked = due[a].remedy /\ <<a, due[a].remedy>> \in whole.refusals
    BY DEF ExtendedPlansAdmitAll
  <1>2. PICK due, R, whole : /\ due = Obligations(lineage, o, shreddable, {})
                            /\ R = {o} \cup Descendants(InGraph(lineage), o)
                            /\ whole = ExtendPlan(lineage, o, BasePlan(lineage, o), shreddable)
    OBVIOUS
  <1> DEFINE D == DOMAIN due
             shred == {a \in D : due[a].remedy = "crypto_shred"}
  <1>3. D \subseteq R /\ whole = PlanAfter(R, due, D)
    <2>1. GraphOK(lineage) /\ o \in lineage.nodes
      BY DEF ExposureInv, Tables
    <2> QED BY ONLY <1>2, <2>1, PlansAreExtended DEF D
  <1>4. /\ DOMAIN whole.targets = R
        /\ \A d \in R : whole.targets[d] = IF d \in D THEN DueTarget(due[d].remedy) ELSE PlainTarget(d)
        /\ whole.refusals = ({<<0, BlockedBy(d)>> : d \in {x \in R : BlockedBy(x) # NoNote}}
                              \ {<<0, BlockedBy(d)>> : d \in {x \in D : BlockedBy(x) # NoNote}})
                           \cup {<<a, due[a].remedy>> : a \in {x \in D : due[x].remedy # "crypto_shred"}}
    BY <1>3 DEF PlanAfter
  <1> HIDE DEF D
  <1>5. \A d \in R : BlockedBy(d) = NoNote <=> d \in DOMAIN Capabilities /\ Capabilities[d] = "rewrite"
    BY ExposureAssumption DEF ExposureAssumption, BlockedBy, NoNote
  <1>6. \A a \in D \ shred : whole.targets[a].blocked = due[a].remedy /\ <<a, due[a].remedy>> \in whole.refusals
    <2>1. ASSUME NEW a \in D \ shred PROVE whole.targets[a] = DueTarget(due[a].remedy) /\ due[a].remedy # "crypto_shred"
      BY <1>3, <1>4
    <2>2. ASSUME NEW a \in D \ shred PROVE whole.targets[a].blocked = due[a].remedy
      <3>1. whole.targets[a] = [mode |-> "none", blocked |-> due[a].remedy]
        BY <2>1 DEF DueTarget
      <3> QED BY <3>1
    <2>3. ASSUME NEW a \in D \ shred PROVE <<a, due[a].remedy>> \in whole.refusals
      <3>1. <<a, due[a].remedy>> \in {<<b, due[b].remedy>> : b \in {x \in D : due[x].remedy # "crypto_shred"}}
        BY <2>1
      <3> QED BY <1>4, <3>1
    <2> QED BY <2>2, <2>3
  <1>7. ASSUME PlanIsComplete(whole)
        PROVE  D = shred /\ \A d \in R \ shred : d \in DOMAIN Capabilities /\ Capabilities[d] = "rewrite"
    <2>1. D = shred
      BY <1>6, <1>7 DEF PlanIsComplete
    <2>2. ASSUME NEW d \in R \ shred PROVE BlockedBy(d) = NoNote
      <3>1. whole.targets[d].blocked = NoNote /\ whole.targets[d] = PlainTarget(d)
        BY <1>4, <1>7, <2>1 DEF PlanIsComplete
      <3> QED BY <3>1 DEF PlainTarget
    <2> QED BY <1>5, <2>1, <2>2
  <1>8. ASSUME D = shred, \A d \in R \ shred : d \in DOMAIN Capabilities /\ Capabilities[d] = "rewrite"
        PROVE  PlanIsComplete(whole)
    <2>1. \A d \in R \ D : BlockedBy(d) = NoNote
      BY <1>5, <1>8
    <2>2. whole.refusals = {}
      <3>1. \A a \in D : due[a].remedy = "crypto_shred"
        BY <1>8
      <3>2. \A d \in R : BlockedBy(d) # NoNote => d \in D
        BY <2>1
      <3> HIDE DEF shred
      <3> QED BY <1>4, <3>1, <3>2
    <2>3. ASSUME NEW d \in R PROVE whole.targets[d].blocked = NoNote /\ whole.targets[d].mode # "none"
      <3>1. CASE d \in D
        <4>1. due[d].remedy = "crypto_shred" /\ whole.targets[d] = DueTarget(due[d].remedy)
          BY <1>4, <1>8, <3>1
        <4> QED BY <4>1 DEF DueTarget
      <3>2. CASE d \notin D
        <4>1. BlockedBy(d) = NoNote /\ whole.targets[d] = PlainTarget(d)
          BY <1>4, <2>1, <3>2
        <4> QED BY <4>1 DEF PlainTarget
      <3> QED BY <3>1, <3>2
    <2> QED BY <1>4, <2>2, <2>3 DEF PlanIsComplete
  <1> QED BY <1>2, <1>4, <1>6, <1>7, <1>8 DEF D

(***************************************************************************)
(* The run's properties                                                    *)
(***************************************************************************)

\* Which desk is at work does not change, and the others' variables are left alone.
LEMMA OneDeskActs ==
  ASSUME [AssetsNext]_assetVars
  PROVE  /\ desk' = desk
         /\ ExposureNext \/ UNCHANGED exposureVars
         /\ RetrievalNext \/ UNCHANGED retrievalVars
         /\ CheckpointsNext \/ UNCHANGED checkpointVars
         /\ SweepNext \/ UNCHANGED sweepVars
         /\ DeploymentsNext \/ UNCHANGED deploymentVars
         /\ PromptsNext \/ UNCHANGED promptVars
         /\ SafetyNext \/ UNCHANGED safetyVars
         /\ TokenizersNext \/ UNCHANGED tokenizerVars
  <1>1. CASE AssetsNext
    <2>1. desk' = desk
      BY <1>1 DEF AssetsNext
    <2>2. RetrievalNext \/ UNCHANGED retrievalVars
      BY <1>1 DEF AssetsNext
    <2>3. CheckpointsNext \/ UNCHANGED checkpointVars
      BY <1>1 DEF AssetsNext
    <2>4. SweepNext \/ UNCHANGED sweepVars
      BY <1>1 DEF AssetsNext
    <2>5. DeploymentsNext \/ UNCHANGED deploymentVars
      BY <1>1 DEF AssetsNext, servingVars
    <2>6. PromptsNext \/ UNCHANGED promptVars
      BY <1>1 DEF AssetsNext, servingVars
    <2>7. SafetyNext \/ UNCHANGED safetyVars
      BY <1>1 DEF AssetsNext
    <2>8. TokenizersNext \/ UNCHANGED tokenizerVars
      BY <1>1 DEF AssetsNext
    <2>9. ExposureNext \/ UNCHANGED exposureVars
      BY <1>1 DEF AssetsNext
    <2> QED BY <2>1, <2>2, <2>3, <2>4, <2>5, <2>6, <2>7, <2>8, <2>9
  <1>2. CASE UNCHANGED assetVars
    BY <1>2 DEF assetVars, servingVars
  <1> QED BY <1>1, <1>2

\* Whatever was recorded, in whatever order, and however often the graph was stored and read
\* back: a plan that was extended to models reads complete only when every copy can be erased
\* or its key destroyed, and refuses every other one by name; a model nobody graded is counted
\* as holding what it learned; the reports on one asset agree; and what an agent wrote after
\* reading a watched label is watched in the runs that read it.
THEOREM ErasureStaysAdmitted == AssetsSpec => []ErasureIsAdmitted
  <1>1. AssetsInit => ExposureInv
    BY ExposureBegins DEF AssetsInit
  <1>2. ExposureInv /\ [AssetsNext]_assetVars => ExposureInv'
    BY OneDeskActs, ExposureGoesOn
  <1>3. ExposureInv => ErasureIsAdmitted
    BY PlansAdmitAll, LearnedIsInWeights, BillsAgree, LaunderedIsSeen DEF ErasureIsAdmitted
  <1> QED BY <1>1, <1>2, <1>3, PTL DEF AssetsSpec

\* Over the same records: a score reported clean comes from a model none of whose inputs has
\* anything to do with the eval set, every pair reported contaminated has a path to show for
\* it, and a feature computed from a watched table is found from the table and from the models.
THEOREM TestsAndFeaturesStayTraced == AssetsSpec => []TestsAndFeaturesAreTraced
  <1>1. AssetsInit => ExposureInv
    BY ExposureBegins DEF AssetsInit
  <1>2. ExposureInv /\ [AssetsNext]_assetVars => ExposureInv'
    BY OneDeskActs, ExposureGoesOn
  <1>3. ExposureInv => TestsAndFeaturesAreTraced
    BY CleanIsClean, WatchedAreFound DEF TestsAndFeaturesAreTraced
  <1> QED BY <1>1, <1>2, <1>3, PTL DEF AssetsSpec

\* Carrying out a reindex plan that nothing overtook makes the index current; what was erased
\* is not retrieved unless an overtaken plan brought it back, and then the next plan names it;
\* a context is judged by everything its chunks came from.
THEOREM RetrievalForgetsErased == AssetsSpec => []RetrievalForgets
  <1>1. AssetsInit => RetrievalInv
    BY RetrievalBegins DEF AssetsInit
  <1>2. RetrievalInv /\ [AssetsNext]_assetVars => RetrievalInv'
    BY OneDeskActs, RetrievalGoesOn
  <1>3. RetrievalInv => RetrievalForgets
    BY ReindexedIsCurrent, ErasedIsOut, ContextsAreJudged DEF RetrievalForgets
  <1> QED BY <1>1, <1>2, <1>3, PTL DEF AssetsSpec

\* Checkpoints: whatever is pruned, what a claim, the newest window and the best rest on is
\* kept, and a verdict on resuming a job has its grounds.  Sweeps: whoever is not in the front
\* loses to one who is, the best trial's score is what the summary says, and a difference of
\* two trials that nothing recorded explains means the same from both sides.
THEOREM RunsAreToBeTrusted == AssetsSpec => []RunsCanBeTrusted
  <1> DEFINE Inv == CheckpointsInv /\ SweepInv
  <1>1. AssetsInit => Inv
    BY CheckpointsBegin, SweepBegins DEF AssetsInit
  <1>2. Inv /\ [AssetsNext]_assetVars => Inv'
    BY OneDeskActs, CheckpointsGoOn, SweepGoesOn
  <1>3. Inv => RunsCanBeTrusted
    BY EvidenceStays, VerdictsHaveGrounds, LosersLose DEF RunsCanBeTrusted
  <1> QED BY <1>1, <1>2, <1>3, PTL DEF AssetsSpec

\* Deployments: however variants are added, rolled out, promoted, rolled back and retired,
\* the shares of those that serve add up to the whole, but for the rounding of the plan's
\* equal parts.  Probes: a closed finding that comes back is told by the run in which its
\* probe fails, unless it was closed by force and never guarded, and then it is listed so.
THEOREM ReleasesStayGuarded == AssetsSpec => []ReleasesAreGuarded
  <1> DEFINE Inv == DeploymentsInv /\ SafetyInv
  <1>1. AssetsInit => Inv
    BY DeploymentsBegin, SafetyBegins DEF AssetsInit
  <1>2. Inv /\ [AssetsNext]_assetVars => Inv'
    BY OneDeskActs, DeploymentsGoOn, SafetyGoesOn
  <1>3. Inv => ReleasesAreGuarded
    BY TrafficGoesSomewhere, ReturnsAreTold DEF ReleasesAreGuarded
  <1> QED BY <1>1, <1>2, <1>3, PTL DEF AssetsSpec

\* Tokenizers: however many compatible ones lie between, a vector that was kept decodes to the
\* text it was made for, and the stored templates are framed by tokens that are still special.
THEOREM VocabulariesDecode == AssetsSpec => [](desk = "tokenizers" => KeptVectorsStillDecode)
  <1>1. AssetsInit => TokenizersInv
    BY TokenizersBegin
  <1>2. TokenizersInv /\ [AssetsNext]_assetVars => TokenizersInv'
    BY OneDeskActs, TokenizersGoOn
  <1>3. TokenizersInv => (desk = "tokenizers" => KeptVectorsStillDecode)
    BY KeptVectorsDecode
  <1> QED BY <1>1, <1>2, <1>3, PTL DEF AssetsSpec

\* No step changes what a prompt was on an earlier day, brings a finished trial that was beaten
\* into the front, or calls a vocabulary grown that is not compatible.
THEOREM PastAnswersAreKept == AssetsSpec => PastAnswersStand
  <1> DEFINE Inv == PromptsInv /\ SweepInv
  <1>1. AssetsInit => Inv
    BY PromptsBegin, SweepBegins DEF AssetsInit
  <1>2. Inv /\ [AssetsNext]_assetVars => Inv'
    BY OneDeskActs, PromptsGoOn, SweepGoesOn
  <1>3. Inv /\ Inv' /\ [AssetsNext]_assetVars => PastAnswersKept /\ TheBeatenStayBeaten /\ GrowthIsCompatible
    BY OneDeskActs, ThePastIsKept, TheBeatenStay, GrownIsReadable
  <1> DEFINE Standing == /\ desk = "prompts" => PastAnswersKept
                         /\ desk = "sweep" => TheBeatenStayBeaten
                         /\ desk = "tokenizers" => GrowthIsCompatible
  <1>4. Inv /\ Inv' /\ [AssetsNext]_assetVars => [Standing]_assetVars
    BY <1>3
  <1> QED BY <1>1, <1>2, <1>4, PTL DEF AssetsSpec, PastAnswersStand

=============================================================================
