------------------------------ MODULE Planner ------------------------------
(***************************************************************************)
(* The invalidation planner, Graph.invalidate of graph/model.py: dirty     *)
(* partitions are propagated downstream from the seeds to a fixpoint by a  *)
(* worklist, datasets on a cycle are widened when they keep growing, and   *)
(* the affected datasets are put in build order (_rebuild_order).          *)
(*                                                                         *)
(* The call is single-threaded.  One action is one turn of one of its      *)
(* loops; what the source leaves to the iteration order of a dict or a set *)
(* (the seeds, the predicates of one absorption) is taken in every order.  *)
(***************************************************************************)
EXTENDS Mappings, FiniteSetsExt

CONSTANTS Datasets,
          ByName,        \* Datasets, sorted by name
          Graphs,        \* graphs to plan over: [spec, out], where out[ds] is the
                         \* sequence of the edges [dst, mapping] leaving ds
          SeedSets,      \* the seeds of a call, as [Datasets -> SUBSET Key]
          MaxRevisits,   \* max_revisits
          AcyclicValve   \* _ACYCLIC_SAFETY_VALVE

ASSUME PlannerAssumption ==
  /\ Datasets # {}
  /\ ByName \in Seq(Datasets) /\ Datasets = {ByName[i] : i \in DOMAIN ByName}
  /\ \A i, j \in DOMAIN ByName : ByName[i] = ByName[j] => i = j
  /\ MaxRevisits \in Nat
  /\ AcyclicValve \in Nat
  /\ \A g \in Graphs :
       /\ DOMAIN g.out = Datasets
       /\ \A d \in Datasets :
            /\ DOMAIN g.out[d] = 1 .. Len(g.out[d]) /\ Len(g.out[d]) \in Nat
            /\ \A i \in DOMAIN g.out[d] : g.out[d][i].dst \in Datasets
  /\ \A s \in SeedSets : DOMAIN s = Datasets

VARIABLES graph, seeds, onCycle,         \* the call's input
          unseeded,                      \* seeds not yet absorbed
          dirty, widened, cyclic,        \* the plan
          forced, enlargements, queue,   \* the worklist's state
          cur, next,                     \* dataset taken off a queue; its edge index
          incoming, merged,              \* _absorb: its candidates, its result so far
          indegree, ready, order,        \* Kahn's algorithm
          pc

input    == <<graph, seeds, onCycle>>
plan     == <<dirty, widened, cyclic>>
worklist == <<forced, enlargements, queue>>
absorbing == <<incoming, merged>>
kahn     == <<indegree, ready, order>>
vars     == <<input, unseeded, plan, worklist, cur, next, absorbing, kahn, pc>>

-----------------------------------------------------------------------------
Out(d)  == graph.out[d]
Edge    == Out(cur)[next]
Dst     == Edge.dst
SpecIn(d) == graph.spec[d]

\* The datasets n edges or fewer downstream of S.
Downstream(g, S, n) ==
  LET step == [T \in SUBSET Datasets |->
                 T \cup UNION {{g.out[d][j].dst : j \in DOMAIN g.out[d]} : d \in T}]
      reach[i \in 0 .. n] == IF i = 0 THEN S ELSE step[reach[i - 1]]
  IN  reach[n]

\* What _on_cycle computes (module OnCycle has its algorithm): the datasets
\* that can reach themselves.
CyclicIn(g) ==
  {d \in Datasets :
     d \in Downstream(g, {g.out[d][j].dst : j \in DOMAIN g.out[d]}, Cardinality(Datasets))}

\* Mutants: _absorb replaces what it had; it keeps the predicates a new one covers.
AbsorbOneReplacing(existing, cand) == {cand}
AbsorbOneKeeping(existing, cand)   == existing \cup {cand}

\* The loop body of _absorb for a candidate that nothing covers yet.
AbsorbOne(existing, cand) == {e \in existing : ~Subsumes(cand, e)} \cup {cand}

\* What edge e makes dirty downstream of the dirty partitions of its source.
Image(e, keys)   == UNION {Apply(e.mapping, k, SpecIn(e.dst)) : k \in keys}
Produced(src, e) == Image(e, dirty[src])

Affected == {d \in Datasets : dirty[d] # {}}

Indegree(d) ==
  Cardinality(UNION {{<<s, i>> : i \in {j \in DOMAIN Out(s) : Out(s)[j].dst = d}} :
                       s \in Affected \ {d}})

\* The datasets of a set, by name.
InNameOrder(S) ==
  LET at == {i \in DOMAIN ByName : ByName[i] \in S}
  IN  [n \in 1 .. Cardinality(at) |->
         ByName[CHOOSE i \in at : Cardinality({j \in at : j <= i}) = n]]

-----------------------------------------------------------------------------
Init ==
  /\ graph \in Graphs
  /\ seeds \in SeedSets
  /\ onCycle = CyclicIn(graph)
  /\ unseeded = Datasets
  /\ dirty = [d \in Datasets |-> {}]
  /\ widened = {} /\ cyclic = {} /\ forced = {}
  /\ enlargements = [d \in Datasets |-> 0]
  /\ queue = << >>
  /\ cur = ByName[1] /\ next = 1
  /\ incoming = {} /\ merged = {}
  /\ indegree = [d \in Datasets |-> 0]
  /\ ready = << >> /\ order = << >>
  /\ pc = "seeds"

\* The seeds are absorbed one dataset at a time.
TakeSeed(d) ==
  /\ pc = "seeds" /\ d \in unseeded
  /\ unseeded' = unseeded \ {d}
  /\ cur' = d /\ incoming' = seeds[d] /\ merged' = {} /\ pc' = "seed"
  /\ UNCHANGED <<input, plan, worklist, next, kahn>>

\* _absorb, one candidate: for a seed, and for what an edge produced.
Absorbed == \A c \in incoming : CoveredBy(merged, c)

Absorb ==
  /\ pc \in {"seed", "absorb"}
  /\ \E c \in incoming :
       /\ ~CoveredBy(merged, c)
       /\ merged' = AbsorbOne(merged, c)
  /\ UNCHANGED <<input, unseeded, plan, worklist, cur, next, incoming, kahn, pc>>

SeedAbsorbed ==
  /\ pc = "seed" /\ Absorbed
  /\ IF merged = {} THEN UNCHANGED <<dirty, queue>>
     ELSE /\ dirty' = [dirty EXCEPT ![cur] = merged]
          /\ queue' = Append(queue, cur)
  /\ pc' = "seeds"
  /\ UNCHANGED <<input, unseeded, widened, cyclic, forced, enlargements, cur, next,
                 absorbing, kahn>>

AllSeeded ==
  /\ pc = "seeds" /\ unseeded = {}
  /\ pc' = "pop"
  /\ UNCHANGED <<input, unseeded, plan, worklist, cur, next, absorbing, kahn>>

\* queue.popleft
Pop ==
  /\ pc = "pop" /\ queue # << >>
  /\ cur' = Head(queue) /\ queue' = Tail(queue)
  /\ next' = 1 /\ pc' = "edge"
  /\ UNCHANGED <<input, unseeded, plan, forced, enlargements, absorbing, kahn>>

NoMoreEdgesEarly ==          \* mutant: the last edge is left out
  /\ pc = "edge" /\ next >= Len(Out(cur))
  /\ pc' = "pop"
  /\ UNCHANGED <<input, unseeded, plan, worklist, cur, next, absorbing, kahn>>

NoMoreEdges ==
  /\ pc = "edge" /\ next > Len(Out(cur))
  /\ pc' = "pop"
  /\ UNCHANGED <<input, unseeded, plan, worklist, cur, next, absorbing, kahn>>

SkipForced ==
  /\ pc = "edge" /\ next <= Len(Out(cur)) /\ Dst \in forced
  /\ next' = next + 1
  /\ UNCHANGED <<input, unseeded, plan, worklist, cur, absorbing, kahn, pc>>

TakeEdge ==
  /\ pc = "edge" /\ next <= Len(Out(cur)) /\ Dst \notin forced
  /\ incoming' = Produced(cur, Edge) /\ merged' = dirty[Dst] /\ pc' = "absorb"
  /\ UNCHANGED <<input, unseeded, plan, worklist, cur, next, kahn>>

\* The edge adds nothing (nothing produced, or all of it covered).
Unchanged ==
  /\ pc = "absorb" /\ Absorbed /\ merged = dirty[Dst]
  /\ next' = next + 1 /\ pc' = "edge"
  /\ UNCHANGED <<input, unseeded, plan, worklist, cur, absorbing, kahn>>

NotMentioned        == {}

Counted == [enlargements EXCEPT ![Dst] = @ + 1]

IsWhole(keys) == \E k \in keys : IsUnboundedKey(k)

\* A whole partitioned dataset is reported as widened.
GrownWhole ==
  IF SpecIn(Dst) # << >> /\ IsWhole(merged) THEN {Dst} ELSE {}

Budget(d) == IF d \in onCycle THEN MaxRevisits ELSE AcyclicValve

Enlarge ==
  /\ pc = "absorb" /\ Absorbed /\ merged # dirty[Dst]
  /\ enlargements' = Counted
  /\ Counted[Dst] <= Budget(Dst)
  /\ dirty' = [dirty EXCEPT ![Dst] = merged]
  /\ widened' = widened \cup GrownWhole
  /\ queue' = Append(queue, Dst)
  /\ next' = next + 1 /\ pc' = "edge"
  /\ UNCHANGED <<input, unseeded, cyclic, forced, cur, absorbing, kahn>>

WidenSilently ==             \* mutant: nothing downstream is told
  /\ pc = "absorb" /\ Absorbed /\ merged # dirty[Dst]
  /\ enlargements' = Counted
  /\ Counted[Dst] > Budget(Dst)
  /\ forced' = forced \cup {Dst}
  /\ widened' = widened \cup {Dst}
  /\ cyclic' = cyclic \cup {Dst}
  /\ dirty' = [dirty EXCEPT ![Dst] = {WholeDataset}]
  /\ next' = next + 1 /\ pc' = "edge"
  /\ UNCHANGED <<input, unseeded, queue, cur, absorbing, kahn>>

\* Enlarged too often: widened to the whole dataset, and told downstream.
Widen ==
  /\ pc = "absorb" /\ Absorbed /\ merged # dirty[Dst]
  /\ enlargements' = Counted
  /\ Counted[Dst] > Budget(Dst)
  /\ forced' = forced \cup {Dst}
  /\ widened' = widened \cup {Dst}
  /\ cyclic' = cyclic \cup {Dst}
  /\ dirty' = [dirty EXCEPT ![Dst] = {WholeDataset}]
  /\ queue' = Append(queue, Dst)
  /\ next' = next + 1 /\ pc' = "edge"
  /\ UNCHANGED <<input, unseeded, cur, absorbing, kahn>>

-----------------------------------------------------------------------------
\* _rebuild_order: Kahn's algorithm over the affected datasets.
StartOrder ==
  /\ pc = "pop" /\ queue = << >>
  /\ indegree' = [d \in Datasets |-> Indegree(d)]
  /\ ready' = InNameOrder({d \in Affected : Indegree(d) = 0})
  /\ pc' = "order"
  /\ UNCHANGED <<input, unseeded, plan, worklist, cur, next, absorbing, order>>

Emit ==
  /\ pc = "order" /\ ready # << >>
  /\ cur' = Head(ready) /\ ready' = Tail(ready)
  /\ order' = Append(order, Head(ready))
  /\ next' = 1 /\ pc' = "relax"
  /\ UNCHANGED <<input, unseeded, plan, worklist, absorbing, indegree>>

RelaxEager ==                \* mutant: ready at the first dependency built
  /\ pc = "relax" /\ next <= Len(Out(cur))
  /\ IF Dst \in Affected /\ Dst # cur
     THEN /\ indegree' = [indegree EXCEPT ![Dst] = @ - 1]
          /\ ready' = Append(ready, Dst)
     ELSE UNCHANGED <<indegree, ready>>
  /\ next' = next + 1
  /\ UNCHANGED <<input, unseeded, plan, worklist, cur, absorbing, order, pc>>

Relax ==
  /\ pc = "relax" /\ next <= Len(Out(cur))
  /\ IF Dst \in Affected /\ Dst # cur
     THEN /\ indegree' = [indegree EXCEPT ![Dst] = @ - 1]
          /\ ready' = IF indegree[Dst] = 1 THEN Append(ready, Dst) ELSE ready
     ELSE UNCHANGED <<indegree, ready>>
  /\ next' = next + 1
  /\ UNCHANGED <<input, unseeded, plan, worklist, cur, absorbing, order, pc>>

Relaxed ==
  /\ pc = "relax" /\ next > Len(Out(cur))
  /\ pc' = "order"
  /\ UNCHANGED <<input, unseeded, plan, worklist, cur, next, absorbing, kahn>>

Emitted == {order[i] : i \in DOMAIN order}

FinishOnlyComplete ==        \* mutant: waits for what a cycle holds back
  /\ pc = "order" /\ ready = << >> /\ Emitted = Affected
  /\ pc' = "done"
  /\ UNCHANGED <<input, unseeded, plan, worklist, cur, next, absorbing, kahn>>

\* What Kahn's algorithm could not emit is appended in name order.
Finish ==
  /\ pc = "order" /\ ready = << >>
  /\ order' = order \o InNameOrder(Affected \ Emitted)
  /\ cyclic' = cyclic \cup (Affected \ Emitted)
  /\ pc' = "done"
  /\ UNCHANGED <<input, unseeded, dirty, widened, worklist, cur, next, absorbing,
                 indegree, ready>>

Next ==
  \/ \E d \in Datasets : TakeSeed(d)
  \/ Absorb \/ SeedAbsorbed \/ AllSeeded
  \/ Pop \/ NoMoreEdges \/ SkipForced \/ TakeEdge \/ Unchanged \/ Enlarge \/ Widen
  \/ StartOrder \/ Emit \/ Relax \/ Relaxed \/ Finish

\* The call runs on one thread that nothing blocks.
Spec == Init /\ [][Next]_vars /\ WF_vars(Next)

-----------------------------------------------------------------------------
Phases == {"seeds", "seed", "pop", "edge", "absorb", "order", "relax", "done"}

Queued(d) == \E i \in DOMAIN queue : queue[i] = d

\* The variables of the worklist, and of Kahn's algorithm, between any two turns
\* of their loops.
WorklistTypeOK ==
  /\ onCycle \subseteq Datasets /\ unseeded \subseteq Datasets
  /\ DOMAIN dirty = Datasets
  /\ widened \subseteq Datasets /\ forced \subseteq Datasets
  /\ enlargements \in [Datasets -> Nat]
  /\ queue \in Seq(Datasets)
  /\ next \in Nat \ {0}
  /\ pc \in Phases
  /\ pc \in {"seed", "edge", "absorb"} => cur \in Datasets
  /\ pc = "absorb" => next <= Len(Out(cur))

OrderTypeOK ==
  /\ cyclic \subseteq Datasets
  /\ indegree \in [Datasets -> Nat]
  /\ ready \in Seq(Datasets) /\ order \in Seq(Datasets)
  /\ cur \in Datasets

\* The loops never leave the graph: every dataset they queue, count or emit is one of
\* its datasets, an edge index points at an edge, and no count goes below zero.
TypeOK == WorklistTypeOK /\ OrderTypeOK

\* Everything edge i of d makes dirty is already dirty at its target.
Delivered(d, i) ==
  \A k \in Produced(d, Out(d)[i]) : CoveredBy(dirty[Out(d)[i].dst], k)

Pending(d, i) ==
  Queued(d) \/ (pc \in {"edge", "absorb"} /\ cur = d /\ i >= next)

\* The worklist never forgets an edge: one that has something left to deliver
\* leaves a dataset that is queued, or is still ahead in the loop under way.
NothingForgotten ==
  \A d \in Datasets : \A i \in DOMAIN Out(d) : Pending(d, i) \/ Delivered(d, i)

\* What invalidate promises, "over-approximates by construction": once the
\* worklist is empty the plan holds the seeds and is closed under every edge,
\* so no stale partition is missing from it.
Sound ==
  pc = "done" =>
    /\ \A d \in Datasets : \A k \in seeds[d] : CoveredBy(dirty[d], k)
    /\ \A d \in Datasets : \A i \in DOMAIN Out(d) : Delivered(d, i)

\* Datasets with no cycle above them, themselves included.
Acyclic(d) ==
  \A c \in onCycle : d \notin Downstream(graph, {c}, Cardinality(Datasets))

Edges(s) == {Out(s)[j] : j \in DOMAIN Out(s)}

\* Reference definition: what the seeds make dirty along paths of up to n edges.
Derived(n) ==
  LET upto[i \in 0 .. n] ==
        IF i = 0 THEN seeds
        ELSE [d \in Datasets |->
                seeds[d] \cup
                UNION {UNION {Image(e, upto[i - 1][s]) :
                                e \in {x \in Edges(s) : x.dst = d}} : s \in Datasets}]
  IN  upto[n]

\* Away from cycles the worklist computes exactly the partitions that can be
\* derived from the seeds, none wider and none redundant.
Exact ==
  pc = "done" =>
    LET derived == Derived(Cardinality(Datasets))
    IN  \A d \in Datasets : Acyclic(d) =>
          dirty[d] = {k \in derived[d] :
                        \A o \in derived[d] : Subsumes(o, k) => o = k}

\* The plan says so wherever it took a whole partitioned dataset that was not
\* reported whole, and says so nowhere else.
WidenedIsToldAndTrue ==
  pc = "done" => \A d \in Datasets :
    /\ d \in widened => IsWhole(dirty[d])
    /\ SpecIn(d) # << >> /\ IsWhole(dirty[d]) /\ ~IsWhole(seeds[d]) => d \in widened

\* The build order lists each affected dataset once, and away from cycles puts
\* it after everything it depends on.
BuildsDependenciesFirst ==
  pc = "done" =>
    /\ Emitted = Affected /\ Len(order) = Cardinality(Affected)
    /\ \A i, j \in DOMAIN order :
         /\ Acyclic(order[j])
         /\ \E e \in DOMAIN Out(order[i]) : Out(order[i])[e].dst = order[j]
         => i < j

\* What the plan says besides its partitions can be relied on: which datasets it took
\* whole, and the order to rebuild in.
ToldAndInOrder == WidenedIsToldAndTrue /\ BuildsDependenciesFirst

\* The walks of n edges from a seeded dataset to d.
WalksTo(d, n) ==
  LET walks[i \in 0 .. n] ==
        IF i = 0 THEN [s \in Datasets |-> IF seeds[s] # {} THEN 1 ELSE 0]
        ELSE [t \in Datasets |->
                MapThenSumSet(LAMBDA s : walks[i - 1][s]
                                * Cardinality({j \in DOMAIN Out(s) : Out(s)[j].dst = t}),
                              Datasets)]
  IN  walks[n][d]

\* The comment on the acyclic budget, "enlarged once per dirty parent": away
\* from cycles a dataset grows at most once per path that reaches it, however
\* often the queue holds its parents.
GrowsOncePerPath ==
  pc = "done" => \A d \in Datasets : Acyclic(d) =>
    enlargements[d] <= MapThenSumSet(LAMBDA n : WalksTo(d, n), 1 .. Cardinality(Datasets))

Promise == INSTANCE Invalidation WITH done <- pc = "done"

\* The worklist implements the promise of module Invalidation: a plan only ever
\* covers more - replacing predicates, and widening, drop no partition already
\* known to be stale - and it is handed over closed.
KeepsPromise == Promise!Safety

\* The worklist converges on every graph, cyclic ones included.
Terminates == <>(pc = "done")
=============================================================================
