----------------------------- MODULE Retrieval -----------------------------
(***************************************************************************)
(* Vector indexes and the contexts retrieved from them: ai/vectors.py      *)
(* plans which chunks of a corpus to embed again and which vectors to      *)
(* delete, ai/rag.py checks what a context pulled in against a policy,     *)
(* also after the manifest of the context was written and read back.       *)
(*                                                                         *)
(* The pipelines that edit the corpus and carry out a plan are outside the *)
(* code: here they take every step they could.  A chunk is <<document,     *)
(* ordinal>>; a chunk that is absent, a version or a shard that is unset   *)
(* and a dataset that is unknown are None.  Labels are those of a dataset: *)
(* its columns are not told apart.                                         *)
(***************************************************************************)
EXTENDS Lineage

CONSTANTS Documents, Ordinals, Texts, Spaces, None,
          Shard,            \* the shard of a document's chunks
          Sources,          \* the dataset of a document, None if unattributed
          Identity,         \* dataset -> [namespace, name], sequences of path segments
          Tools,            \* the datasets of the tools and the prompt of a run
          LineageOf,        \* the graph the context's datasets are in
          ContextLabels,    \* <<dataset, label>> -> [confidence, confirmed]
          Forbidden, MinConfidence,
          MaxEdits

ASSUME RetrievalAssumption == IsFiniteSet(Documents) /\ IsFiniteSet(Ordinals)

VARIABLES corpus,           \* chunk -> text
          embedded,         \* chunk -> [text, space] of its vector, a partial function
          recordedSpace,    \* the version the index is recorded with
          space,            \* the version of the embedding space
          plan,             \* the plan being carried out with what it was made from, or None
          overtaken,        \* the corpus or the index changed since it was made
          erased,           \* documents erased and not written since
          current,          \* the last step carried out an up-to-date plan
          edits

retrievalVars == <<corpus, embedded, recordedSpace, space, plan, overtaken, erased, current, edits>>

Chunks == Documents \X Ordinals
Present(c) == {k \in Chunks : c[k] # None}

RetrievalInit ==
  /\ corpus = [k \in Chunks |-> None] /\ embedded = << >>
  /\ recordedSpace = None /\ space \in Spaces \cup {None}
  /\ plan = None /\ overtaken = FALSE /\ erased = {} /\ current = FALSE /\ edits = 0

-----------------------------------------------------------------------------
\* vectors.py.
StaleChunks(indexed, c) == {k \in Present(c) : k \notin DOMAIN indexed \/ indexed[k].text # c[k]}
OrphanVectors(indexed, c) == DOMAIN indexed \ Present(c)

\* One side unknown is a mismatch, two are a project without versions.
VersionMismatch(index, newest) == index # newest
StaleShards(chunks) == {IF Shard[k[1]] = None THEN "any" ELSE Shard[k[1]] : k \in chunks}

\* Mutant: a full reindex does not look for orphans.
PlanWithoutOrphans(indexed, c, index, newest) ==
  IF VersionMismatch(index, newest)
  THEN [chunks |-> Present(c), partitions |-> {"any"}, total |-> Cardinality(Present(c)),
        full |-> TRUE, orphans |-> {}]
  ELSE [chunks |-> StaleChunks(indexed, c), partitions |-> StaleShards(StaleChunks(indexed, c)),
        total |-> Cardinality(Present(c)), full |-> FALSE, orphans |-> OrphanVectors(indexed, c)]

ReindexPlan(indexed, c, index, newest) ==
  LET full  == VersionMismatch(index, newest)
      stale == StaleChunks(indexed, c)
  IN  [chunks |-> IF full THEN Present(c) ELSE stale,
       partitions |-> IF full THEN {"any"} ELSE StaleShards(stale),
       total |-> Cardinality(Present(c)), full |-> full, orphans |-> OrphanVectors(indexed, c)]
SkippedChunks(p) == Max({0, p.total - Cardinality(p.chunks)})

\* Matching is on the document of the chunk key.
DeletionTargets(indexed, docs) == {k \in DOMAIN indexed : k[1] \in docs}
RetrievableAfterErasure(indexed, docs) == {k \in DOMAIN indexed : k[1] \in docs}

-----------------------------------------------------------------------------
EditCorpus ==
  /\ edits < MaxEdits
  /\ \E k \in Chunks, t \in Texts \cup {None} :
       /\ t # corpus[k]
       /\ corpus' = [corpus EXCEPT ![k] = t]
       /\ erased' = IF t # None THEN erased \ {k[1]} ELSE erased
  /\ edits' = edits + 1 /\ overtaken' = TRUE /\ current' = FALSE
  /\ UNCHANGED <<embedded, recordedSpace, space, plan>>

MoveSpace ==
  /\ edits < MaxEdits
  /\ \E s \in Spaces \ {space} : space' = s
  /\ edits' = edits + 1 /\ overtaken' = TRUE /\ current' = FALSE
  /\ UNCHANGED <<corpus, embedded, recordedSpace, plan, erased>>

Plan ==
  /\ plan = None
  /\ plan' = [todo |-> ReindexPlan(embedded, corpus, recordedSpace, space), texts |-> corpus, space |-> space]
  /\ overtaken' = FALSE /\ current' = FALSE
  /\ UNCHANGED <<corpus, embedded, recordedSpace, space, erased, edits>>

\* The plan's chunks are embedded as they read, and in the space there was, when it was
\* made; its orphans are deleted.
CarryOut ==
  /\ plan # None
  /\ embedded' = [k \in (DOMAIN embedded \cup plan.todo.chunks) \ plan.todo.orphans |->
                    IF k \in plan.todo.chunks THEN [text |-> plan.texts[k], space |-> plan.space]
                    ELSE embedded[k]]
  /\ recordedSpace' = plan.space
  /\ plan' = None /\ current' = ~overtaken /\ overtaken' = TRUE
  /\ UNCHANGED <<corpus, space, erased, edits>>

\* An erasure: the document leaves the corpus, and the index gives up its targets.
Erase ==
  /\ edits < MaxEdits
  /\ \E d \in Documents :
       /\ corpus' = [k \in Chunks |-> IF k[1] = d THEN None ELSE corpus[k]]
       /\ embedded' = [k \in DOMAIN embedded \ DeletionTargets(embedded, {d}) |-> embedded[k]]
       /\ erased' = erased \cup {d}
  /\ edits' = edits + 1 /\ overtaken' = TRUE /\ current' = FALSE
  /\ UNCHANGED <<recordedSpace, space, plan>>

RetrievalNext == EditCorpus \/ MoveSpace \/ Plan \/ CarryOut \/ Erase

-----------------------------------------------------------------------------
\* rag.py.  A manifest is [retrieved, tools, from]: its chunks, the datasets of the tools and
\* the prompt, and of each chunk the dataset recorded.
Identities == {Identity[d] : d \in DOMAIN Identity}
SourceOf(k) == Sources[k[1]]
ManifestDatasets(m) == ({m.from[k] : k \in m.retrieved} \cup m.tools) \ {None}

Nowhere == 0                 \* a dataset of no graph: it has no ancestors
Provenance(m) == UNION {{d} \cup Ancestors(LineageOf, d) : d \in ManifestDatasets(m) \ {Nowhere}}
UnattributedRetrievals(m) == {k \in m.retrieved : m.from[k] = None}

ClearlyLabelled(d, name) ==
  /\ <<d, name>> \in DOMAIN ContextLabels
  /\ \/ ContextLabels[<<d, name>>].confirmed
     \/ ContextLabels[<<d, name>>].confidence >= MinConfidence

EnforceContext(m) ==
  (IF UnattributedRetrievals(m) # {} THEN {<<None, "unattributed">>} ELSE {})
    \cup {x \in Provenance(m) \X Forbidden : ClearlyLabelled(x[1], x[2])}

RedactionTargets(m) ==
  LET tainted == {x[1] : x \in {y \in DOMAIN ContextLabels : y[2] \in Forbidden}}
  IN  {k \in m.retrieved : m.from[k] \notin {None, Nowhere} /\
         ({m.from[k]} \cup Ancestors(LineageOf, m.from[k])) \cap tainted # {}}

UncitedClaims(m, cited)  == cited \ m.retrieved
NeverRetrieved(ms, docs) == docs \ {k[1] : k \in UNION {m.retrieved : m \in ms}}

\* manifest_to_json writes an identity as namespace/name, and manifest_from_json splits
\* it at the last slash.
Text(id)   == id.namespace \o id.name
FromText(t) == [namespace |-> Front(t), name |-> <<Last(t)>>]
Reread(d) ==
  IF d = None THEN None
  ELSE LET id == FromText(Text(Identity[d]))
       IN  IF id \in Identities THEN CHOOSE e \in DOMAIN Identity : Identity[e] = id ELSE Nowhere
Rebuilt(m) == [m EXCEPT !.from = [k \in DOMAIN @ |-> Reread(@[k])], !.tools = {Reread(d) : d \in @}]

\* The contexts a query can pull in now.
Manifest(chunks, tools) == [retrieved |-> chunks, tools |-> tools, from |-> [k \in chunks |-> SourceOf(k)]]
Manifests == {Manifest(chunks, tools) : chunks \in SUBSET DOMAIN embedded,
                                       tools \in {{}, Tools}}

-----------------------------------------------------------------------------
\* When a plan has been carried out and nothing changed since it was made, the index
\* holds a vector for each chunk of the corpus and no other, of the chunk's text, and all
\* of one embedding space - whatever was planned, skipped or interrupted before it; a plan's
\* partitions hold all its chunks, and what it skips is what an index of one space has already.
ReindexingMakesCurrent ==
  /\ current => /\ DOMAIN embedded = Present(corpus)
                /\ \A k \in DOMAIN embedded : embedded[k] = [text |-> corpus[k], space |-> space]
                /\ SkippedChunks(ReindexPlan(embedded, corpus, recordedSpace, space)) = Cardinality(DOMAIN embedded)
  /\ plan # None =>
       /\ \A k \in plan.todo.chunks : {"any", Shard[k[1]]} \cap plan.todo.partitions # {}
       /\ SkippedChunks(plan.todo) = Cardinality(Present(plan.texts) \ plan.todo.chunks)

\* Nothing of an erased document can be retrieved, nor cited truly, unless a plan made before
\* the erasure was carried out after it; and the next plan names all that such a plan brought
\* back.
ErasedIsNotRetrieved ==
  LET back == RetrievableAfterErasure(embedded, erased)
  IN  /\ back \subseteq ReindexPlan(embedded, corpus, recordedSpace, space).orphans
      /\ (current => back = {})
      /\ back = {} => /\ erased \subseteq NeverRetrieved(Manifests, Documents)
                      /\ \A m \in Manifests : LET cited == {k \in Chunks : k[1] \in erased}
                                             IN  UncitedClaims(m, cited) = cited

\* A context passes only if every chunk in it has a source and nothing clearly labelled
\* stands anywhere upstream of one; the chunks to drop explain each violation that a
\* chunk causes, and dropping them leaves none.
ContextsAreJudgedByOrigin ==
  \A m \in Manifests :
    LET drop == RedactionTargets(m)
        rest == Manifest({k \in m.retrieved \ drop : m.from[k] # None}, {})
    IN  /\ EnforceContext(rest) = {}
        /\ EnforceContext(m) = {} =>
             /\ \A k \in m.retrieved : m.from[k] # None
             /\ \A k \in drop, name \in Forbidden :
                  \A d \in {m.from[k]} \cup Ancestors(LineageOf, m.from[k]) : ~ClearlyLabelled(d, name)

\* What manifest_from_json says (rag.py:384), "Rebuild a manifest written by
\* manifest_to_json": the context read back is judged as the one that was written.
RebuiltContextsAreJudgedTheSame ==
  \A m \in Manifests : EnforceContext(Rebuilt(m)) = EnforceContext(m)
=============================================================================
