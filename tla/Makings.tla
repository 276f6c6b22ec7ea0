------------------------------ MODULE Makings -------------------------------
(***************************************************************************)
(* What models are made from, ai/train and ai/quality.                     *)
(***************************************************************************)
EXTENDS Integers, Sequences, FiniteSets, SequencesExt, FiniteSetsExt, Functions, TLC

(***************************************************************************)
(* What models are made from: ai/train/finetuning.py, mixtures.py and      *)
(* tokenizers.py.                                                          *)
(***************************************************************************)

(***************************************************************************)
(* How models come from models, ai/train/finetuning.py: adapters, merges,  *)
(* distillations and quantisations put edges into the graph, the list of   *)
(* derivations is walked back to the base models, and preference pairs     *)
(* come from annotators who may contradict each other.                     *)
(***************************************************************************)

CONSTANTS Models,            \* the names of models and adapters
          TrainingSets,      \* assets a model may be tuned, distilled or calibrated on
          Restrictions,      \* model -> its licence's restrictions
          MaxTurns,          \* of derivation_chain: how often it takes from its queue
          MaxDerivations,
          Answers, Annotators, MaxPairs

VARIABLES derivedFrom,              \* the edges, between assets
          derivations,              \* a sequence of [source, target], between names
          pairs                     \* of a preference set: [prompt, chosen, by]

derivationVars == <<derivedFrom, derivations, pairs>>

\* An asset is a kind and a name.  An adapter is an asset of its own kind; whatever is merged,
\* distilled or quantised is named as a model.
AdapterAsset(m) == <<"adapter", m>>
ModelAsset(m)   == <<"model", m>>
DataAsset(t)    == <<"data", t>>

\* adapter_edges, merge_edges, distillation_edges, quantization_edges.
EdgesInto(target, sources) == {<<s, target>> : s \in sources}

\* validate_merge of a linear merge, with shares in whole percents, which its tolerance (10^-6) cannot change.
ValidateMerge(sources, shares) ==
  (IF sources = << >> THEN {"empty"} ELSE {})
    \cup (IF shares # << >> /\ Len(shares) # Len(sources) THEN {"lengths"} ELSE {})
    \cup (IF shares # << >> /\ FoldLeft(+, 0, shares) # 100 THEN {"scaled"} ELSE {})
    \cup (IF Cardinality(Range(sources)) # Len(sources) THEN {"twice"} ELSE {})

-----------------------------------------------------------------------------
\* derivation_chain: a queue; what was seen before costs a turn too.

Index(ds, t) == SelectSeq(ds, LAMBDA d : d.target = t)

DerivationChain(ds, target) ==
  LET turn(s) ==
        IF s.queue = << >> THEN s
        ELSE IF Head(s.queue) \in s.seen THEN [s EXCEPT !.queue = Tail(@)]
        ELSE LET parents == Index(ds, Head(s.queue))
             IN  [queue |-> Tail(s.queue) \o [i \in DOMAIN parents |-> parents[i].source],
                  seen |-> s.seen \cup {Head(s.queue)}, chain |-> s.chain \o parents]
      after[n \in 0 .. MaxTurns] ==
        IF n = 0 THEN [queue |-> <<target>>, seen |-> {}, chain |-> << >>] ELSE turn(after[n - 1])
  IN  [chain |-> after[MaxTurns].chain, cut |-> after[MaxTurns].queue # << >>]

BaseOf(ds, target) ==
  LET chain == Range(DerivationChain(ds, target).chain)
  IN  {d.source : d \in chain} \ {d.target : d \in chain}
IsDerivedFrom(ds, target, ancestor) ==
  \E d \in Range(DerivationChain(ds, target).chain) : d.source = ancestor
EffectiveRestrictions(components) == UNION {Restrictions[m] : m \in components}

\* lineage_depth; what is on the way already counts as a base.
LineageDepth(ds, name) ==
  LET depth[seen \in SUBSET Models] ==
        [m \in Models |->
           LET parents == {d.source : d \in Range(Index(ds, m))}
           IN  IF m \in seen \/ parents = {} THEN 0
               ELSE 1 + Max({depth[seen \cup {m}][p] : p \in parents})]
  IN  depth[{}][name]

-----------------------------------------------------------------------------
\* inter_annotator_agreement: <<agreeing, shared>>; the last answer to a prompt counts.
LastAnswer(ps) ==
  [q \in {p.prompt : p \in Range(ps)} |-> Last(SelectSeq(ps, LAMBDA p : p.prompt = q)).chosen]
InterAnnotatorAgreement(first, second) ==
  LET left == LastAnswer(first)  right == LastAnswer(second)
      shared == DOMAIN left \cap DOMAIN right
  IN  <<Cardinality({q \in shared : left[q] = right[q]}), Cardinality(shared)>>
Contradictory(ps) ==       \* rank_stability
  {p.prompt : p \in {q \in Range(ps) : \E r \in Range(ps) : r.prompt = q.prompt /\ r.chosen # q.chosen}}
AnnotatorDiversity(ps) ==  \* the pairs of each annotator who left a name
  [a \in {p.by : p \in Range(ps)} \ {""} |-> Len(SelectSeq(ps, LAMBDA p : p.by = a))]

-----------------------------------------------------------------------------
DerivationsInit == derivedFrom = {} /\ derivations = << >> /\ pairs = << >>

DeriveFrom(target, models, data) ==
  /\ Len(derivations) + Len(models) <= MaxDerivations
  /\ derivedFrom' = derivedFrom \cup
       EdgesInto(target, {ModelAsset(b) : b \in Range(models)} \cup {DataAsset(t) : t \in data})
  /\ derivations' = derivations \o [i \in DOMAIN models |-> [source |-> models[i], target |-> target[2]]]
  /\ UNCHANGED pairs

\* The caller lists a derivation for each model it records edges from.
Adapt    == \E m, b \in Models, data \in SUBSET TrainingSets : DeriveFrom(AdapterAsset(m), <<b>>, data)
Merge    == \E m, a, b \in Models :
  /\ ValidateMerge(<<a, b>>, <<50, 50>>) = {} /\ m \notin {a, b}
  /\ DeriveFrom(ModelAsset(m), <<a, b>>, {})
Distill  == \E m, teacher \in Models : m # teacher /\ DeriveFrom(ModelAsset(m), <<teacher>>, TrainingSets)
Quantize == \E m, b \in Models : m # b /\ DeriveFrom(ModelAsset(m), <<b>>, TrainingSets)
Annotate     == \E q \in {1, 2}, c \in Answers, a \in Annotators :
  /\ Len(pairs) < MaxPairs
  /\ pairs' = Append(pairs, [prompt |-> q, chosen |-> c, by |-> a]) /\ UNCHANGED <<derivedFrom, derivations>>

DerivationsNext == Adapt \/ Merge \/ Distill \/ Quantize
PreferencesNext == Annotate

-----------------------------------------------------------------------------
\* All that the arrows lead from to x.
Upward(arrows, x) ==
  LET up[n \in 1 .. 2 * Cardinality(Models)] ==
        IF n = 1 THEN {a[1] : a \in {y \in arrows : y[2] = x}}
        ELSE LET S == up[n - 1] IN S \cup {a[1] : a \in {y \in arrows : y[2] \in S}}
  IN  up[2 * Cardinality(Models)]

\* The models the edges lead from to what has the name m, as a model or as an adapter.
InTheEdges(m) ==
  {x[2] : x \in {y \in Upward(derivedFrom, ModelAsset(m)) \cup Upward(derivedFrom, AdapterAsset(m)) : y[1] = "model"}}

\* What is inside a model: unless the walk was cut short at MaxTurns turns, the bases it
\* names are exactly the names above it that nothing was derived into, it is derived from
\* exactly the names above it, and it carries every restriction of theirs; a name has no
\* depth exactly when it is a base itself.  Cut short, it still names nothing that is not
\* above.  The edges never lead to a model the derivations do not name, and lead to every
\* one of them unless the way passes an adapter: its edges end at the adapter's asset, and
\* those of what is made from it start at the model of the same name.
BasesAreFound ==
  \A m \in Models :
    LET steps == {<<d.source, d.target>> : d \in Range(derivations)}
        above == Upward(steps, m)
        roots == {a \in above : ~\E e \in steps : e[2] = a}
        walk  == DerivationChain(derivations, m)
    IN  /\ BaseOf(derivations, m) \subseteq above
        /\ (LineageDepth(derivations, m) = 0) = (above = {})
        /\ ~walk.cut =>
             /\ BaseOf(derivations, m) = roots
             /\ {a \in Models : IsDerivedFrom(derivations, m, a)} = above
             /\ \A a \in above : Restrictions[a] \subseteq
                  EffectiveRestrictions({d.source : d \in Range(walk.chain)})
        /\ InTheEdges(m) \subseteq above
        /\ (\A a \in above, e \in derivedFrom : e[2] # AdapterAsset(a)) => InTheEdges(m) = above

\* What ai/train/finetuning.py:4 says of "a base model, plus a LoRA adapter, merged,
\* quantized, and served": which base model is inside it "is a traversal" once the
\* derivations are edges.
EdgesNameTheBases == \A m \in Models : BaseOf(derivations, m) \subseteq InTheEdges(m)

\* If no prompt was answered in two ways, any two annotators agree on all they both saw.
StableMeansAgreed ==
  Contradictory(pairs) = {} =>
    \A a, b \in Annotators :
      LET of(n) == SelectSeq(pairs, LAMBDA p : p.by = n)
          agreement == InterAnnotatorAgreement(of(a), of(b))
      IN  agreement[1] = agreement[2]

-----------------------------------------------------------------------------
(***************************************************************************)
(* Sampling weights of a training corpus, ai/train/mixtures.py: a mixture  *)
(* is edited, normalised, validated, and a change of it priced against the *)
(* one in use.  A component's weight is weight/whole of its mixture, as    *)
(* normalising makes it.                                                   *)
(***************************************************************************)

CONSTANTS CorpusNames, MixtureWeights,
          SizeOf,            \* source -> tokens available; 0: nobody recorded it
          Hundred,           \* the whole a hand-written mixture is meant to sum to
          Precision,         \* a sum may be off by one in so many (10^6)
          TokenBudget, MaxComponents

VARIABLES draft,             \* [whole, components]: a sequence of [source, weight, available]
          inUse              \* the mixture the last run was trained on
mixtureVars == <<draft, inUse>>

SourcesOf(mix) == {c.source : c \in Range(mix.components)}
TotalWeight(mix) == FoldLeft(LAMBDA n, c : n + c.weight, 0, mix.components)

\* normalize refuses what has no weight; the shares keep their proportions.
Normalize(mix) == [mix EXCEPT !.whole = TotalWeight(mix)]

Validate(mix) ==
  IF mix.components = << >> THEN {"empty"}
  ELSE (IF (TotalWeight(mix) - mix.whole) * Precision \in -mix.whole .. mix.whole THEN {} ELSE {"sum"})
         \cup {"weight" : c \in {d \in Range(mix.components) : d.weight <= 0}}
         \cup {"twice" : x \in {i \in DOMAIN mix.components :
                 \E j \in DOMAIN mix.components \ {i} : mix.components[i].source = mix.components[j].source}}

\* round() of a fraction n/d, d > 0: to the nearest, a half to the even one.
RoundedTokens(n, d) ==
  LET q == n \div d  r == n % d
  IN  IF 2 * r < d \/ (2 * r = d /\ q % 2 = 0) THEN q ELSE q + 1
Tokens(mix, c) == RoundedTokens(c.weight * TokenBudget, mix.whole)

\* token_budget: of a source that appears twice the last counts; component: the first.
BudgetOf(mix) ==
  [s \in SourcesOf(mix) |-> Tokens(mix, Last(SelectSeq(mix.components, LAMBDA c : c.source = s)))]
PartOf(mix, s) == Head(SelectSeq(mix.components, LAMBDA c : c.source = s))

\* epoch_pressure: what must be repeated, and what may have to be.
EpochPressure(mix) ==
  {c.source : c \in {d \in Range(mix.components) : d.available <= 0 \/ Tokens(mix, d) > d.available}}

\* The ablations are mixtures that were trained on.
Untested(mix, ablations) ==
  {s \in SourcesOf(mix) :
     Cardinality({<<PartOf(a, s).weight, a.whole>> : a \in {b \in ablations : s \in SourcesOf(b)}}) <= 1}

RemixPlan(old, new) ==
  LET drawn(mix, s) == IF s \in SourcesOf(mix) THEN BudgetOf(mix)[s] ELSE 0
      share(mix, s) == IF s \in SourcesOf(mix) THEN <<PartOf(mix, s).weight, mix.whole>> ELSE <<0, 1>>
      all == SourcesOf(old) \cup SourcesOf(new)
  IN  [changed  |-> {s \in all : share(old, s)[1] * share(new, s)[2] # share(new, s)[1] * share(old, s)[2]},
       resample |-> MapThenSumSet(LAMBDA s : Max({0, drawn(new, s) - drawn(old, s)}), all),
       released |-> MapThenSumSet(LAMBDA s : Max({0, drawn(old, s) - drawn(new, s)}), all),
       newly    |-> EpochPressure(new) \ EpochPressure(old)]

-----------------------------------------------------------------------------
MixturesInit == draft = [whole |-> Hundred, components |-> << >>] /\ inUse = draft

Edit(components) == draft' = [whole |-> Hundred, components |-> components] /\ UNCHANGED inUse
AddComponent == \E s \in CorpusNames, w \in MixtureWeights :
  /\ Len(draft.components) < MaxComponents /\ draft.whole = Hundred
  /\ Edit(Append(draft.components, [source |-> s, weight |-> w, available |-> SizeOf[s]]))
DropComponent == \E i \in DOMAIN draft.components :
  draft.whole = Hundred /\ Edit(RemoveAt(draft.components, i))
NormalizeDraft ==
  /\ TotalWeight(draft) > 0 /\ draft.whole # TotalWeight(draft)
  /\ draft' = Normalize(draft) /\ UNCHANGED inUse

\* The next run is trained on what validates, and the next draft starts from there.
TrainOn ==
  /\ Validate(draft) = {} /\ inUse' = draft
  /\ draft' = [whole |-> Hundred, components |-> << >>]

MixturesNext == AddComponent \/ DropComponent \/ NormalizeDraft \/ TrainOn

-----------------------------------------------------------------------------
\* A mixture that validates spends its budget, in the measure its weights sum to the whole, up
\* to a rounding of half a token a component; then a remix of it draws as many tokens anew as
\* it releases, up to those roundings and to what either sum may be off, and none if no share
\* changed; and whatever the new mixture must repeat and the old one need not is named.
\* Normalising leaves no complaint about the sum.
RemixesBalance ==
  /\ draft.whole = TotalWeight(draft) => "sum" \notin Validate(draft)
  /\ Validate(draft) = {} =>
       LET spent == MapThenSumSet(LAMBDA s : BudgetOf(draft)[s], SourcesOf(draft))
           plan  == RemixPlan(inUse, draft)
           parts == Len(draft.components) + Len(inUse.components)
           most  == draft.whole * Len(draft.components)
           drift == Precision * parts + 4 * TokenBudget
       IN  /\ 2 * (spent * draft.whole - TokenBudget * TotalWeight(draft)) \in -most .. most
           /\ inUse.components # << >> => 2 * Precision * (plan.resample - plan.released) \in -drift .. drift
           /\ plan.changed = {} => plan.resample = 0
           /\ \A c \in Range(draft.components) :
                c.available > 0 /\ Tokens(draft, c) > c.available =>
                  c.source \in plan.newly \cup EpochPressure(inUse)

-----------------------------------------------------------------------------
(***************************************************************************)
(* A vocabulary from release to release, ai/train/tokenizers.py: what a    *)
(* diff finds, whether what was built with the old one can be read with    *)
(* the new one, and a document that must fit a fixed window.               *)
(***************************************************************************)

CONSTANTS Strings, Ids,
          Controls,            \* the strings that may be declared special tokens
          ContextWindow, Reserve,     \* of budget_check
          TokenRatios,         \* <<n, d>> of reestimate
          MaxTokenizers, MaxTokens

ASSUME TokenAssumption ==
  /\ {ContextWindow, Reserve, MaxTokens} \subseteq Int
  /\ TokenRatios \subseteq Nat \X (Nat \ {0})

VARIABLES vocabulary,          \* string -> id
          special,             \* the declared special tokens
          cached,              \* id -> string: what the kept embeddings were made for
          templates,           \* the special tokens the stored prompt templates were built on
          tokenizers,          \* how many there have been
          tokens               \* of the corpus: the estimate

tokenizerVars == <<vocabulary, special, cached, templates, tokenizers, tokens>>

\* diff.
Added(old, new)     == DOMAIN new \ DOMAIN old
Removed(old, new)   == DOMAIN old \ DOMAIN new
Reindexed(old, new) == {t \in DOMAIN old \cap DOMAIN new : old[t] # new[t]}

InvalidatesEmbeddings(old, new) == Reindexed(old, new) \cup Removed(old, new) # {}
Compatible(old, new, oldSpecial, newSpecial) ==
  ~InvalidatesEmbeddings(old, new) /\ oldSpecial = newSpecial

\* vocabulary_overlap, as <<shared, all>>.
VocabularyOverlap(a, b) ==
  <<Cardinality(DOMAIN a \cap DOMAIN b), Cardinality(DOMAIN a \cup DOMAIN b)>>
IsSuperset(candidate, base) ==
  \A t \in DOMAIN base : t \in DOMAIN candidate /\ candidate[t] = base[t]
SpecialTokenConflicts(v, s) == s \ DOMAIN v

\* reestimate, budget_check.
Reestimate(n, ratio) ==
  LET q == (n * ratio[1]) \div ratio[2]  r == (n * ratio[1]) % ratio[2]
  IN  IF 2 * r < ratio[2] \/ (2 * r = ratio[2] /\ q % 2 = 0) THEN q ELSE q + 1
BudgetCheck(n) ==
  [fits |-> n <= ContextWindow - Reserve, overflow |-> Max({0, n - (ContextWindow - Reserve)}),
   headroom |-> Max({0, ContextWindow - Reserve - n})]

-----------------------------------------------------------------------------
Vocabularies == UNION {Injection(S, Ids) : S \in SUBSET Strings}

TokenizersInit ==
  /\ vocabulary \in {v \in Vocabularies : DOMAIN v # {}} /\ special \in SUBSET Controls
  /\ cached = << >> /\ templates = special /\ tokenizers = 1 /\ tokens = ContextWindow

\* Texts are embedded: whatever the vocabulary has an id for.
Embed == \E t \in DOMAIN vocabulary :
  /\ cached' = [i \in DOMAIN cached \cup {vocabulary[t]} |-> IF i = vocabulary[t] THEN t ELSE cached[i]]
  /\ UNCHANGED <<vocabulary, special, templates, tokenizers, tokens>>

\* The next tokenizer.  What `compatible` says can be read is kept; everything else is built
\* anew.  The ratio of the token counts is measured outside the code.
NextTokenizer == \E v \in Vocabularies, s \in SUBSET Controls, ratio \in TokenRatios :
  /\ tokenizers < MaxTokenizers /\ tokenizers' = tokenizers + 1
  /\ vocabulary' = v /\ special' = s
  /\ IF Compatible(vocabulary, v, special, s) THEN UNCHANGED <<cached, templates>>
     ELSE cached' = << >> /\ templates' = s
  /\ tokens' = Min({Reestimate(tokens, ratio), MaxTokens})

TokenizersNext == Embed \/ NextTokenizer

-----------------------------------------------------------------------------
\* However many compatible tokenizers lie between, what was cached under an old one still
\* decodes to the text it was made for, and the templates are framed by tokens that are
\* still special; and an estimate that fits has no overflow and fits with its headroom.
KeptVectorsStillDecode ==
  /\ \A i \in DOMAIN cached : cached[i] \in DOMAIN vocabulary /\ vocabulary[cached[i]] = i
  /\ templates = special
  /\ LET verdict == BudgetCheck(tokens)
     IN  verdict.fits = (verdict.overflow = 0) /\ tokens + verdict.headroom - verdict.overflow = ContextWindow - Reserve

\* A tokenizer said to be a superset is compatible once the special tokens are the same.
GrowthIsCompatible ==
  IsSuperset(vocabulary', vocabulary) = ~InvalidatesEmbeddings(vocabulary, vocabulary')

-----------------------------------------------------------------------------
(***************************************************************************)
(* Near-duplicates and contamination by content,                           *)
(* ai/quality/contamination.py.  A text is a sequence of words, already    *)
(* normalised; Hash[seed] ranks the n-grams.  A signature is the minimum   *)
(* under each seed; pairs that agree in a band are compared, and matched   *)
(* pairs are grouped by a union-find, here one union a step.               *)
(***************************************************************************)

CONSTANTS Passages, Hash,
          ShingleSize, Bands,
          DuplicateAt, SuspectAt,     \* thresholds, in agreeing places of a signature
          MinimumRun,                 \* words; of longest_common_substring
          Ceiling,                    \* the hash no n-gram reaches
          MaxDocuments

VARIABLES documents,       \* the texts, in list order: a document is its place
          todo,            \* the matches cluster_duplicates has not merged yet
          done,            \* those it has
          parent,          \* its forest
          compared         \* find_duplicates ran since the last document came

duplicateVars == <<documents, todo, done, parent, compared>>

Ngrams(t, n) == IF t = << >> THEN {}
                ELSE IF n <= 0 \/ Len(t) < n THEN {t}
                ELSE {SubSeq(t, i, i + n - 1) : i \in 1 .. Len(t) - n + 1}

Width == Len(Hash)
Minhash(t) ==
  LET parts == Ngrams(t, ShingleSize)
  IN  [seed \in 1 .. Width |-> IF parts = {} THEN Ceiling ELSE Min({Hash[seed][g] : g \in parts})]

\* Of two signatures of one length: the places that agree.
EstimateJaccard(a, b) == Cardinality({i \in 1 .. Width : a[i] = b[i]})

\* ngram_overlap, as a fraction <<shared, all>>.
Containment(left, right) ==
  LET a == Ngrams(left, ShingleSize)  b == Ngrams(right, ShingleSize)
  IN  <<Cardinality(a \cap b), Cardinality(a)>>
LongestCommonSubstring(left, right) ==
  LET runs == {SubSeq(left, i, j) : i \in 1 .. Len(left), j \in 0 .. Len(left)}
      common == {r \in runs : \E i \in 1 .. Len(right) : r = SubSeq(right, i, i + Len(r) - 1)}
      longest == Max({Len(r) : r \in common} \cup {0})
  IN  IF longest >= MinimumRun THEN longest ELSE 0

-----------------------------------------------------------------------------
\* find_duplicates.
Band(signature, b) ==
  LET rows == Width \div Bands IN SubSeq(signature, b * rows + 1, (b + 1) * rows)
Candidates(signatures) ==
  {pair \in {p \in (DOMAIN signatures) \X (DOMAIN signatures) : p[1] < p[2]} :
     \E b \in 0 .. Bands - 1 : Band(signatures[pair[1]], b) = Band(signatures[pair[2]], b)}
FindDuplicates(texts) ==
  LET signatures == [d \in DOMAIN texts |-> Minhash(texts[d])]
      similarity(p) == EstimateJaccard(signatures[p[1]], signatures[p[2]])
      found == {p \in Candidates(signatures) : similarity(p) >= DuplicateAt}
  IN  SetToSortSeq(found, LAMBDA p, q :
        \/ similarity(p) > similarity(q)
        \/ /\ similarity(p) = similarity(q)
           /\ p[1] < q[1] \/ (p[1] = q[1] /\ p[2] < q[2]))

\* cluster_duplicates: find halves the path it walks.
Find(p, x) ==
  LET halve(s) ==
        IF s.parent[s.root] = s.root THEN s
        ELSE LET halved == [s.parent EXCEPT ![s.root] = s.parent[s.parent[s.root]]]
             IN  [parent |-> halved, root |-> halved[s.root]]
      after[n \in 0 .. Cardinality(DOMAIN p)] ==
        IF n = 0 THEN [parent |-> p, root |-> x] ELSE halve(after[n - 1])
  IN  after[Cardinality(DOMAIN p)]
With(p, x) == IF x \in DOMAIN p THEN p ELSE (x :> x) @@ p

\* Mutant: the second document is hung below the first, not its root.
UnionLeaf(p, a, b) ==
  LET fa == Find(With(p, a), a)  fb == Find(With(fa.parent, b), b)
  IN  IF fa.root = fb.root THEN fb.parent ELSE [fb.parent EXCEPT ![b] = fa.root]

Union(p, a, b) ==
  LET fa == Find(With(p, a), a)  fb == Find(With(fa.parent, b), b)
  IN  IF fa.root = fb.root THEN fb.parent ELSE [fb.parent EXCEPT ![fb.root] = fa.root]

RootOf(p, x) == Find(p, x).root
ClusterDuplicates(p) ==
  {c \in {[members |-> {y \in DOMAIN p : RootOf(p, y) = RootOf(p, x)}] : x \in DOMAIN p} :
     Cardinality(c.members) > 1}
Redundant(cluster) == cluster.members \ {Min(cluster.members)}

-----------------------------------------------------------------------------
\* suspicious_pairs, verify and report, of one document against the others.
SuspiciousPairs(evals, corpus) ==
  {m \in evals \X corpus : EstimateJaccard(Minhash(m[1]), Minhash(m[2])) >= SuspectAt}
Verified(matches) == {m \in matches : LongestCommonSubstring(m[1], m[2]) > 0}
Report(evals, corpus) ==
  IF evals = {} \/ corpus = {} THEN "unknown"
  ELSE LET matches == SuspiciousPairs(evals, corpus)
       IN  IF Verified(matches) # {} THEN "contaminated" ELSE IF matches # {} THEN "suspect" ELSE "clean"

-----------------------------------------------------------------------------
DuplicatesInit == documents = << >> /\ todo = << >> /\ done = << >> /\ parent = << >> /\ compared = FALSE

\* Outside the code: the corpus grows, and is compared anew.
AddDocument == \E t \in Passages :
  /\ Len(documents) < MaxDocuments /\ todo = << >>
  /\ documents' = Append(documents, t)
  /\ done' = << >> /\ parent' = << >> /\ compared' = FALSE /\ UNCHANGED todo
Compare ==
  /\ ~compared /\ compared' = TRUE
  /\ todo' = FindDuplicates(documents) /\ UNCHANGED <<documents, done, parent>>
MergeNext ==
  /\ todo # << >> /\ todo' = Tail(todo) /\ done' = Append(done, Head(todo))
  /\ parent' = Union(parent, Head(todo)[1], Head(todo)[2])
  /\ UNCHANGED <<documents, compared>>

DuplicatesNext == AddDocument \/ Compare \/ MergeNext

-----------------------------------------------------------------------------
\* What lies on a path of merged matches, and nothing else, has one root, in whatever order
\* the matches came and however the paths were halved; and at the end documents with the
\* same text are in one cluster, which keeps one of them.
LinkedTo(x, matches) ==
  LET linked[n \in 0 .. Cardinality(matches)] ==
        IF n = 0 THEN {x}
        ELSE LET S == linked[n - 1]
             IN  S \cup UNION {{m[1], m[2]} : m \in {k \in matches : k[1] \in S \/ k[2] \in S}}
  IN  linked[Cardinality(matches)]
CopiesAreGrouped ==
  /\ \A x \in DOMAIN parent : {y \in DOMAIN parent : RootOf(parent, y) = RootOf(parent, x)} = LinkedTo(x, Range(done))
  /\ compared /\ todo = << >> => \A i, j \in DOMAIN documents : i # j /\ documents[i] = documents[j] =>
       /\ \E c \in ClusterDuplicates(parent) : {i, j} \subseteq c.members
       /\ \E c \in ClusterDuplicates(parent) : i \in Redundant(c) \/ j \in Redundant(c)

\* A text that was copied into the corpus is never found clean.
CopiesAreNeverClean ==
  \A i, j \in DOMAIN documents : i # j /\ documents[i] = documents[j] =>
    LET verdict == Report({documents[i]}, {documents[j]})
    IN  /\ verdict # "clean"
        /\ Len(documents[i]) >= MinimumRun /\ documents[i] # << >> => verdict = "contaminated"

\* What is said of a cluster (contamination.py:300): "A group of mutually near-identical
\* documents."
ClustersAreMutual ==
  compared /\ todo = << >> => \A c \in ClusterDuplicates(parent) : \A i, j \in c.members :
    EstimateJaccard(Minhash(documents[i]), Minhash(documents[j])) >= DuplicateAt
=============================================================================
