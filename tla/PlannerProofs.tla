--------------------------- MODULE PlannerProofs ---------------------------
(***************************************************************************)
(* Proofs about Planner for every graph, every seeds and every budget: the *)
(* plan invalidate returns covers its seeds and is closed downstream, the  *)
(* worklist implements the promise of module Invalidation, and the plan is *)
(* explained and in build order.                                           *)
(***************************************************************************)
EXTENDS Planner, Rounds

-----------------------------------------------------------------------------
(* Laws of subsumption. *)

\* A predicate covers itself (core/types.py, subsumes).
LEMMA SubsumesReflexive == ASSUME NEW k PROVE Subsumes(k, k)
  BY DEF Subsumes

\* What a covered predicate covers is covered.
LEMMA SubsumesTransitive ==
  ASSUME NEW a, NEW b, NEW c, Subsumes(a, b), Subsumes(b, c)
  PROVE  Subsumes(a, c)
  BY DEF Subsumes

\* The whole-dataset predicate covers every other.
LEMMA WholeSubsumes == ASSUME NEW k PROVE Subsumes(WholeDataset, k)
  BY DEF Subsumes, WholeDataset

\* A set that covers another covers what the other covers.
LEMMA CoverTransitive ==
  ASSUME NEW S, NEW T, NEW k, CoveredBy(S, k), \A s \in S : CoveredBy(T, s)
  PROVE  CoveredBy(T, k)
  <1>1. PICK s \in S : Subsumes(s, k)
    BY DEF CoveredBy
  <1>2. PICK t \in T : Subsumes(t, s)
    BY DEF CoveredBy
  <1>3. Subsumes(t, k)
    BY <1>1, <1>2, SubsumesTransitive
  <1> QED BY <1>3 DEF CoveredBy

\* Members are covered.
LEMMA MembersCovered == ASSUME NEW S, NEW k \in S PROVE CoveredBy(S, k)
  BY SubsumesReflexive DEF CoveredBy

\* One turn of _absorb covers the candidate and all that was covered before:
\* the predicates it drops are covered by the one it adds.
LEMMA AbsorbKeepsCoverage ==
  ASSUME NEW E, NEW c
  PROVE  /\ CoveredBy(AbsorbOne(E, c), c)
         /\ \A k : CoveredBy(E, k) => CoveredBy(AbsorbOne(E, c), k)
  <1>1. CoveredBy(AbsorbOne(E, c), c)
    BY SubsumesReflexive DEF CoveredBy, AbsorbOne
  <1>2. ASSUME NEW e \in E PROVE CoveredBy(AbsorbOne(E, c), e)
    <2>1. CASE Subsumes(c, e)
      BY <2>1 DEF CoveredBy, AbsorbOne
    <2>2. CASE ~Subsumes(c, e)
      BY <2>2, SubsumesReflexive DEF CoveredBy, AbsorbOne
    <2> QED BY <2>1, <2>2
  <1> QED BY <1>1, <1>2, CoverTransitive

-----------------------------------------------------------------------------
(* The inductive invariant. *)

InputOK == graph \in Graphs /\ seeds \in SeedSets

\* _absorb holds the candidates it was called with, and never loses coverage.
AbsorbOK ==
  /\ pc = "seed" => incoming = seeds[cur]
  /\ pc = "absorb" =>
       /\ incoming = Produced(cur, Edge)
       /\ \A k \in dirty[Dst] : CoveredBy(merged, k)
       /\ Dst \notin forced

\* While the seeds are read, every dirty dataset is queued.
SeedingOK ==
  /\ pc \in {"seeds", "seed"} =>
       /\ forced = {}
       /\ \A d \in Datasets : dirty[d] = {} \/ Queued(d)
       /\ \A d \in unseeded : dirty[d] = {}
  /\ pc = "seed" => cur \notin unseeded /\ dirty[cur] = {}
  /\ pc \notin {"seeds", "seed"} => unseeded = {}

SeedsCovered ==
  \A d \in Datasets :
    \/ d \in unseeded
    \/ pc = "seed" /\ cur = d
    \/ \A k \in seeds[d] : CoveredBy(dirty[d], k)

\* A dataset whose edges the worklist skips has already been taken whole.
ForcedWhole == \A d \in forced : WholeDataset \in dirty[d]

Drained == pc \in {"order", "relax", "done"} => queue = << >>

IInv ==
  /\ InputOK /\ WorklistTypeOK /\ AbsorbOK /\ SeedingOK /\ SeedsCovered
  /\ ForcedWhole /\ Drained /\ NothingForgotten

-----------------------------------------------------------------------------
(* Facts about the graph. *)

\* Edges lead to datasets of the graph, and are numbered from 1.
LEMMA EdgeTargets ==
  ASSUME InputOK, NEW d \in Datasets
  PROVE  /\ DOMAIN Out(d) = 1 .. Len(Out(d)) /\ Len(Out(d)) \in Nat
         /\ \A i \in DOMAIN Out(d) : Out(d)[i].dst \in Datasets
  <1>1. graph \in Graphs
    BY DEF InputOK
  <1> QED BY <1>1, PlannerAssumption DEF Out

\* The dataset at next is the target of an edge of cur.
LEMMA CurrentEdge ==
  ASSUME InputOK, WorklistTypeOK, cur \in Datasets, next <= Len(Out(cur))
  PROVE  next \in DOMAIN Out(cur) /\ Dst \in Datasets
  <1>1. next \in Nat \ {0}
    BY DEF WorklistTypeOK
  <1>2. next \in 1 .. Len(Out(cur))
    BY <1>1, EdgeTargets
  <1> QED BY <1>2, EdgeTargets DEF Dst, Edge

\* A step that only adds coverage undoes no delivery.
LEMMA DeliveredStays ==
  ASSUME NEW d, NEW i, graph' = graph, dirty'[d] = dirty[d],
         \A k \in dirty[Out(d)[i].dst] : CoveredBy(dirty'[Out(d)[i].dst], k),
         Delivered(d, i)
  PROVE  Delivered(d, i)'
  <1>1. Out(d)' = Out(d)
    BY DEF Out
  <1>2. Produced(d, Out(d)[i])' = Produced(d, Out(d)[i])
    BY <1>1 DEF Produced, Image, SpecIn
  <1>3. SUFFICES ASSUME NEW k \in Produced(d, Out(d)[i])
                 PROVE  CoveredBy(dirty'[Out(d)[i].dst], k)
    BY <1>1, <1>2 DEF Delivered
  <1>4. CoveredBy(dirty[Out(d)[i].dst], k)
    BY DEF Delivered
  <1> QED BY <1>4, CoverTransitive

-----------------------------------------------------------------------------
(* Type correctness of the worklist. *)

USE DEF vars, input, plan, worklist, absorbing, kahn

\* The call never changes its input.
LEMMA InputStep == [Next]_vars => UNCHANGED input
  <1> SUFFICES ASSUME [Next]_vars PROVE UNCHANGED input
    OBVIOUS
  <1>1. CASE \E d \in Datasets : TakeSeed(d)
    BY <1>1 DEF TakeSeed
  <1>2. CASE Absorb \/ SeedAbsorbed \/ AllSeeded
    BY <1>2 DEF Absorb, SeedAbsorbed, AllSeeded
  <1>3. CASE Pop \/ NoMoreEdges \/ SkipForced \/ TakeEdge
    BY <1>3 DEF Pop, NoMoreEdges, SkipForced, TakeEdge
  <1>4. CASE Unchanged \/ Enlarge \/ Widen
    BY <1>4 DEF Unchanged, Enlarge, Widen
  <1>5. CASE StartOrder \/ Emit \/ Relax \/ Relaxed \/ Finish
    BY <1>5 DEF StartOrder, Emit, Relax, Relaxed, Finish
  <1>6. CASE UNCHANGED vars
    BY <1>6
  <1> QED BY <1>1, <1>2, <1>3, <1>4, <1>5, <1>6 DEF Next

\* Every turn of a loop keeps the worklist well-formed.
LEMMA TypeStep ==
  InputOK /\ WorklistTypeOK /\ [Next]_vars => WorklistTypeOK'
  <1> SUFFICES ASSUME InputOK, WorklistTypeOK, [Next]_vars
               PROVE  WorklistTypeOK'
    OBVIOUS
  <1> USE DEF WorklistTypeOK, Phases
  <1>1. ASSUME NEW d \in Datasets, TakeSeed(d) PROVE WorklistTypeOK'
    BY <1>1 DEF TakeSeed
  <1>2. CASE Absorb
    <2>1. UNCHANGED <<graph, onCycle, unseeded, dirty, widened, forced, enlargements,
                      queue, cur, next, pc>>
      BY <1>2 DEF Absorb
    <2> QED BY <2>1 DEF Out
  <1>3. CASE SeedAbsorbed
    <2>1. UNCHANGED <<onCycle, unseeded, widened, forced, enlargements, next>>
          /\ pc' = "seeds" /\ pc = "seed"
      BY <1>3 DEF SeedAbsorbed
    <2>2. DOMAIN dirty' = Datasets
      BY <1>3 DEF SeedAbsorbed
    <2>3. queue' \in Seq(Datasets)
      <3>1. queue' = queue \/ queue' = Append(queue, cur)
        BY <1>3 DEF SeedAbsorbed
      <3>2. queue \in Seq(Datasets) /\ cur \in Datasets
        BY <2>1
      <3>3. Append(queue, cur) \in Seq(Datasets)
        BY <3>2
      <3> QED BY <3>1, <3>2, <3>3
    <2> QED BY <2>1, <2>2, <2>3
  <1>4. CASE AllSeeded
    BY <1>4 DEF AllSeeded
  <1>5. CASE Pop
    BY <1>5 DEF Pop
  <1>6. CASE NoMoreEdges
    BY <1>6 DEF NoMoreEdges
  <1>7. CASE SkipForced
    BY <1>7 DEF SkipForced
  <1>8. CASE TakeEdge
    BY <1>8 DEF TakeEdge, Out
  <1>9. CASE Unchanged
    BY <1>9 DEF Unchanged
  <1>10. CASE Enlarge \/ Widen
    <2>1. cur \in Datasets /\ Dst \in Datasets /\ pc = "absorb"
      BY <1>10, CurrentEdge DEF Enlarge, Widen
    <2>2. DOMAIN dirty' = Datasets
      <3>1. \E keys : dirty' = [dirty EXCEPT ![Dst] = keys]
        BY <1>10 DEF Enlarge, Widen
      <3> QED BY <3>1
    <2>5. queue' \in Seq(Datasets)
      <3>1. queue' = Append(queue, Dst)
        BY <1>10 DEF Enlarge, Widen
      <3> QED BY <2>1, <3>1
    <2>4. enlargements' \in [Datasets -> Nat]
      <3>1. enlargements' = [enlargements EXCEPT ![Dst] = @ + 1]
        BY <1>10 DEF Enlarge, Widen, Counted
      <3>2. enlargements \in [Datasets -> Nat]
        OBVIOUS
      <3> QED BY <2>1, <3>1, <3>2
    <2>3. widened' \subseteq Datasets /\ forced' \subseteq Datasets
      <3>1. \E S \in SUBSET {Dst} : widened' = widened \cup S
        BY <1>10 DEF Enlarge, Widen, GrownWhole
      <3>2. forced' = forced \/ forced' = forced \cup {Dst}
        BY <1>10 DEF Enlarge, Widen
      <3> QED BY <2>1, <3>1, <3>2
    <2>6. /\ UNCHANGED <<onCycle, unseeded, cur>>
          /\ next' = next + 1 /\ pc' = "edge"
      BY <1>10 DEF Enlarge, Widen
    <2> QED BY <2>1, <2>2, <2>3, <2>4, <2>5, <2>6
  <1>11. CASE StartOrder
    BY <1>11 DEF StartOrder
  <1>12. CASE Emit
    BY <1>12 DEF Emit
  <1>13. CASE Relax
    BY <1>13 DEF Relax
  <1>14. CASE Relaxed
    BY <1>14 DEF Relaxed
  <1>15. CASE Finish
    BY <1>15 DEF Finish
  <1>16. CASE UNCHANGED vars
    BY <1>16 DEF Out
  <1> QED
    BY <1>1, <1>2, <1>3, <1>4, <1>5, <1>6, <1>7, <1>8, <1>9, <1>10, <1>11, <1>12,
       <1>13, <1>14, <1>15, <1>16 DEF Next

-----------------------------------------------------------------------------
(* How the queue and the dirty sets move. *)

\* queue.append
LEMMA AppendQueues ==
  ASSUME queue \in Seq(Datasets), NEW d \in Datasets, queue' = Append(queue, d)
  PROVE  Queued(d)' /\ \A x : Queued(x) => Queued(x)'
  <1>1. /\ Len(queue') = Len(queue) + 1 /\ Len(queue) \in Nat
        /\ DOMAIN queue = 1 .. Len(queue) /\ DOMAIN queue' = 1 .. Len(queue')
        /\ queue'[Len(queue) + 1] = d
        /\ \A i \in 1 .. Len(queue) : queue'[i] = queue[i]
    OBVIOUS
  <1>2. Queued(d)'
    BY <1>1 DEF Queued
  <1>3. ASSUME NEW x, Queued(x) PROVE Queued(x)'
    BY <1>1, <1>3 DEF Queued
  <1> QED BY <1>2, <1>3

\* queue.popleft
LEMMA PopUnqueues ==
  ASSUME queue \in Seq(Datasets), queue # << >>, queue' = Tail(queue)
  PROVE  /\ Head(queue) \in Datasets
         /\ \A x : Queued(x) => x = Head(queue) \/ Queued(x)'
  <1>1. /\ Len(queue) \in Nat \ {0} /\ DOMAIN queue = 1 .. Len(queue)
        /\ Head(queue) = queue[1] /\ DOMAIN queue' = 1 .. Len(queue) - 1
        /\ \A i \in 1 .. Len(queue) - 1 : queue'[i] = queue[i + 1]
    OBVIOUS
  <1>2. ASSUME NEW x, NEW i \in DOMAIN queue, queue[i] = x, x # Head(queue)
        PROVE  Queued(x)'
    <2>1. i - 1 \in DOMAIN queue' /\ queue'[i - 1] = x
      BY <1>1, <1>2
    <2> QED BY <2>1 DEF Queued
  <1> QED BY <1>1, <1>2 DEF Queued

\* A turn that puts keys that cover dirty[d] in its place, and touches no other
\* dataset, loses no coverage anywhere.
LEMMA ReplaceGrows ==
  ASSUME DOMAIN dirty = Datasets, NEW d \in Datasets, NEW keys,
         dirty' = [dirty EXCEPT ![d] = keys],
         \A k \in dirty[d] : CoveredBy(keys, k)
  PROVE  \A x \in Datasets : \A k \in dirty[x] : CoveredBy(dirty'[x], k)
  BY MembersCovered

\* An edge that adds something replaces its target's dirty set by one that
\* covers it and all the edge produced, and queues the target.
LEMMA EnlargeStep ==
  ASSUME IInv, Enlarge \/ Widen
  PROVE  /\ queue' = Append(queue, Dst) /\ cur \in Datasets /\ Dst \in Datasets
         /\ \E keys :
              /\ dirty' = [dirty EXCEPT ![Dst] = keys]
              /\ \A k \in dirty[Dst] : CoveredBy(keys, k)
              /\ \A k \in Produced(cur, Edge) : CoveredBy(keys, k)
  <1> USE DEF IInv
  <1>1. pc = "absorb" /\ cur \in Datasets /\ next <= Len(Out(cur))
    BY DEF Enlarge, Widen, WorklistTypeOK
  <1>2. Dst \in Datasets
    BY <1>1, CurrentEdge
  <1>3. /\ queue' = Append(queue, Dst)
        /\ dirty' = [dirty EXCEPT ![Dst] = merged]
             \/ dirty' = [dirty EXCEPT ![Dst] = {WholeDataset}]
    BY DEF Enlarge, Widen
  <1>4. /\ \A k \in dirty[Dst] : CoveredBy(merged, k)
        /\ \A k \in Produced(cur, Edge) : CoveredBy(merged, k)
    BY <1>1 DEF Enlarge, Widen, Absorbed, AbsorbOK
  <1>5. \A k : CoveredBy({WholeDataset}, k)
    BY WholeSubsumes DEF CoveredBy
  <1> QED BY <1>1, <1>2, <1>3, <1>4, <1>5

\* Only two kinds of turn write the plan's dirty sets.
LEMMA PlanStep ==
  ASSUME IInv, [Next]_vars
  PROVE  \/ UNCHANGED dirty
         \/ /\ dirty' = [dirty EXCEPT ![cur] = merged] /\ queue' = Append(queue, cur)
            /\ cur \in Datasets /\ dirty[cur] = {}
         \/ Enlarge \/ Widen
  <1> USE DEF IInv
  <1>1. CASE SeedAbsorbed
    BY <1>1 DEF SeedAbsorbed, SeedingOK, WorklistTypeOK
  <1>2. CASE Enlarge \/ Widen
    BY <1>2
  <1>3. CASE \E d \in Datasets : TakeSeed(d)
    BY <1>3 DEF TakeSeed
  <1>4. CASE Absorb \/ AllSeeded \/ Pop \/ NoMoreEdges \/ SkipForced
    BY <1>4 DEF Absorb, AllSeeded, Pop, NoMoreEdges, SkipForced
  <1>5. CASE TakeEdge \/ Unchanged \/ StartOrder \/ Emit
    BY <1>5 DEF TakeEdge, Unchanged, StartOrder, Emit
  <1>6. CASE Relax \/ Relaxed \/ Finish \/ UNCHANGED vars
    BY <1>6 DEF Relax, Relaxed, Finish
  <1> QED BY <1>1, <1>2, <1>3, <1>4, <1>5, <1>6 DEF Next

\* Coverage only grows (Invalidation's Learn).
LEMMA Grows ==
  ASSUME IInv, [Next]_vars
  PROVE  \A d \in Datasets : \A k \in dirty[d] : CoveredBy(dirty'[d], k)
  <1>1. DOMAIN dirty = Datasets
    BY DEF IInv, WorklistTypeOK
  <1>2. CASE UNCHANGED dirty
    BY <1>2, MembersCovered
  <1>3. ASSUME NEW d \in Datasets, NEW keys, dirty' = [dirty EXCEPT ![d] = keys],
               \A k \in dirty[d] : CoveredBy(keys, k)
        PROVE  \A x \in Datasets : \A k \in dirty[x] : CoveredBy(dirty'[x], k)
    BY <1>1, <1>3, ReplaceGrows
  <1>4. CASE Enlarge \/ Widen
    BY <1>3, <1>4, EnlargeStep
  <1> QED BY <1>2, <1>3, <1>4, PlanStep

-----------------------------------------------------------------------------
(* Each part of the invariant is kept by every turn. *)

\* What _absorb has merged so far covers what it started from.
LEMMA AbsorbStep == ASSUME IInv, [Next]_vars PROVE AbsorbOK'
  <1> USE DEF IInv, AbsorbOK
  <1>1. ASSUME NEW d \in Datasets, TakeSeed(d) PROVE AbsorbOK'
    BY <1>1 DEF TakeSeed
  <1>2. CASE Absorb
    <2>1. PICK c \in incoming : merged' = AbsorbOne(merged, c)
      BY <1>2 DEF Absorb
    <2>2. UNCHANGED <<graph, seeds, dirty, forced, incoming, cur, next, pc>>
      BY <1>2 DEF Absorb
    <2>3. UNCHANGED <<Produced(cur, Edge), Dst>>
      BY <2>2 DEF Produced, Image, SpecIn, Edge, Out, Dst
    <2> QED BY <2>1, <2>2, <2>3, AbsorbKeepsCoverage
  <1>3. CASE TakeEdge
    <2>1. UNCHANGED <<Produced(cur, Edge), Dst, dirty, forced>>
      BY <1>3 DEF TakeEdge, Produced, Image, SpecIn, Edge, Out, Dst
    <2> QED BY <1>3, <2>1, MembersCovered DEF TakeEdge
  <1>4. CASE UNCHANGED vars
    <2>1. UNCHANGED <<Produced(cur, Edge), Dst, dirty, forced, seeds, incoming, merged, pc, cur>>
      BY <1>4 DEF Produced, Image, SpecIn, Edge, Out, Dst
    <2> QED BY <2>1
  <1>5. CASE SeedAbsorbed \/ AllSeeded \/ Pop \/ NoMoreEdges \/ SkipForced
    BY <1>5 DEF SeedAbsorbed, AllSeeded, Pop, NoMoreEdges, SkipForced
  <1>6. CASE Unchanged \/ Enlarge \/ Widen \/ StartOrder \/ Emit
    BY <1>6 DEF Unchanged, Enlarge, Widen, StartOrder, Emit
  <1>7. CASE Relax \/ Relaxed \/ Finish
    BY <1>7 DEF Relax, Relaxed, Finish
  <1> QED BY <1>1, <1>2, <1>3, <1>4, <1>5, <1>6, <1>7 DEF Next

\* Until the seeds are in, nothing is under way downstream.
LEMMA SeedingStep == ASSUME IInv, [Next]_vars PROVE SeedingOK'
  <1> USE DEF IInv, SeedingOK
  <1>1. ASSUME NEW d \in Datasets, TakeSeed(d) PROVE SeedingOK'
    BY <1>1 DEF TakeSeed, Queued
  <1>2. CASE Absorb
    BY <1>2 DEF Absorb, Queued
  <1>3. CASE SeedAbsorbed
    <2>1. /\ pc = "seed" /\ pc' = "seeds" /\ cur \in Datasets
          /\ UNCHANGED <<unseeded, forced>>
      BY <1>3 DEF SeedAbsorbed, WorklistTypeOK
    <2>2. CASE merged = {}
      BY <1>3, <2>1, <2>2 DEF SeedAbsorbed, Queued
    <2>3. CASE merged # {}
      <3>1. PICK d \in Datasets : d = cur
        BY <2>1
      <3>2. queue' = Append(queue, d) /\ dirty' = [dirty EXCEPT ![d] = merged]
        BY <1>3, <2>3, <3>1 DEF SeedAbsorbed
      <3>3. Queued(d)' /\ \A x : Queued(x) => Queued(x)'
        BY <3>2, AppendQueues DEF WorklistTypeOK
      <3>4. \A x \in Datasets : dirty'[x] = {} \/ Queued(x)'
        BY <2>1, <3>2, <3>3 DEF WorklistTypeOK
      <3>5. \A x \in unseeded : dirty'[x] = {}
        BY <2>1, <3>1, <3>2 DEF WorklistTypeOK
      <3> QED BY <2>1, <3>4, <3>5
    <2> QED BY <2>2, <2>3
  <1>4. CASE AllSeeded
    BY <1>4 DEF AllSeeded
  <1>5. CASE Pop \/ NoMoreEdges \/ SkipForced \/ TakeEdge \/ Unchanged
    BY <1>5 DEF Pop, NoMoreEdges, SkipForced, TakeEdge, Unchanged
  <1>6. CASE Enlarge \/ Widen \/ StartOrder \/ Emit \/ Relax \/ Relaxed \/ Finish
    BY <1>6 DEF Enlarge, Widen, StartOrder, Emit, Relax, Relaxed, Finish
  <1>7. CASE UNCHANGED vars
    BY <1>7 DEF Queued
  <1> QED BY <1>1, <1>2, <1>3, <1>4, <1>5, <1>6, <1>7 DEF Next

\* A seed once absorbed stays covered.
LEMMA SeedsCoveredStep == ASSUME IInv, [Next]_vars PROVE SeedsCovered'
  <1>1. SUFFICES ASSUME NEW d \in Datasets
                 PROVE  \/ d \in unseeded'
                        \/ pc' = "seed" /\ cur' = d
                        \/ \A k \in seeds'[d] : CoveredBy(dirty'[d], k)
    BY DEF SeedsCovered
  <1>2. UNCHANGED seeds
    BY InputStep
  <1>3. CASE \A k \in seeds[d] : CoveredBy(dirty[d], k)
    BY <1>2, <1>3, Grows, CoverTransitive
  <1>4. CASE d \in unseeded
    <2>1. CASE \E x \in Datasets : TakeSeed(x)
      BY <1>4, <2>1 DEF TakeSeed
    <2>2. CASE ~\E x \in Datasets : TakeSeed(x)
      <3>1. unseeded' = unseeded
        BY <2>2 DEF Next, Absorb, SeedAbsorbed, AllSeeded, Pop, NoMoreEdges, SkipForced,
             TakeEdge, Unchanged, Enlarge, Widen, StartOrder, Emit, Relax, Relaxed, Finish
      <3> QED BY <1>4, <3>1
    <2> QED BY <2>1, <2>2
  <1>5. CASE pc = "seed" /\ cur = d
    <2>1. CASE SeedAbsorbed
      <3>1. \A k \in seeds[d] : CoveredBy(merged, k)
        BY <1>5, <2>1 DEF SeedAbsorbed, Absorbed, IInv, AbsorbOK
      <3>2. dirty' = [dirty EXCEPT ![cur] = merged]
             \/ (merged = {} /\ dirty' = dirty)
        BY <2>1 DEF SeedAbsorbed
      <3>3. merged \subseteq dirty'[d]
        BY <1>5, <3>2 DEF IInv, WorklistTypeOK
      <3>4. \A k \in seeds[d] : CoveredBy(dirty'[d], k)
        BY <3>1, <3>3 DEF CoveredBy
      <3> QED BY <1>2, <3>4
    <2>2. CASE ~SeedAbsorbed
      <3>1. UNCHANGED <<pc, cur>>
        BY <1>5, <2>2 DEF Next, TakeSeed, Absorb, AllSeeded, Pop, NoMoreEdges, SkipForced,
             TakeEdge, Unchanged, Enlarge, Widen, StartOrder, Emit, Relax, Relaxed, Finish
      <3> QED BY <1>5, <3>1
    <2> QED BY <2>1, <2>2
  <1> QED BY <1>3, <1>4, <1>5 DEF IInv, SeedsCovered

\* A dataset that is skipped as forced is dirty as a whole.
LEMMA ForcedStep == ASSUME IInv, [Next]_vars PROVE ForcedWhole'
  <1> USE DEF IInv, ForcedWhole
  <1>1. CASE UNCHANGED <<dirty, forced>>
    BY <1>1
  <1>2. CASE SeedAbsorbed
    BY <1>2 DEF SeedAbsorbed, SeedingOK
  <1>3. CASE Enlarge
    <2>1. pc = "absorb" /\ cur \in Datasets /\ next <= Len(Out(cur))
      BY <1>3 DEF Enlarge, WorklistTypeOK
    <2>2. Dst \in Datasets /\ Dst \notin forced
      BY <1>3, <2>1, CurrentEdge DEF Enlarge, AbsorbOK
    <2> QED BY <1>3, <2>2 DEF Enlarge, WorklistTypeOK
  <1>4. CASE Widen
    <2>1. pc = "absorb" /\ cur \in Datasets /\ next <= Len(Out(cur))
      BY <1>4 DEF Widen, WorklistTypeOK
    <2>2. Dst \in Datasets
      BY <2>1, CurrentEdge
    <2> QED BY <1>4, <2>2 DEF Widen, WorklistTypeOK
  <1>5. CASE ~(SeedAbsorbed \/ Enlarge \/ Widen)
    BY <1>1, <1>5 DEF Next, TakeSeed, Absorb, AllSeeded, Pop, NoMoreEdges, SkipForced,
      TakeEdge, Unchanged, StartOrder, Emit, Relax, Relaxed, Finish
  <1> QED BY <1>2, <1>3, <1>4, <1>5

\* The build order only starts on an empty queue.
LEMMA DrainedStep == ASSUME IInv, [Next]_vars PROVE Drained'
  <1> USE DEF IInv, Drained
  <1>1. CASE pc \in {"order", "relax", "done"}
    BY <1>1 DEF Next, TakeSeed, Absorb, SeedAbsorbed, AllSeeded, Pop, NoMoreEdges,
      SkipForced, TakeEdge, Unchanged, Enlarge, Widen, StartOrder, Emit, Relax, Relaxed,
      Finish
  <1>2. CASE pc \notin {"order", "relax", "done"}
    BY <1>2 DEF Next, TakeSeed, Absorb, SeedAbsorbed, AllSeeded, Pop, NoMoreEdges,
      SkipForced, TakeEdge, Unchanged, Enlarge, Widen, StartOrder, Emit, Relax, Relaxed,
      Finish
  <1> QED BY <1>1, <1>2

\* A dataset whose dirty set a turn changed is queued by the same turn.
LEMMA ChangedIsQueued ==
  ASSUME IInv, [Next]_vars, NEW d \in Datasets, dirty'[d] # dirty[d]
  PROVE  Queued(d)'
  <1>1. queue \in Seq(Datasets) /\ DOMAIN dirty = Datasets
    BY DEF IInv, WorklistTypeOK
  <1>2. queue' = Append(queue, d)
    BY <1>1, PlanStep, EnlargeStep
  <1> QED BY <1>1, <1>2, AppendQueues

\* A queued dataset stays queued until it is the one under way, from its first edge.
LEMMA QueuedStays ==
  ASSUME IInv, [Next]_vars, NEW d \in Datasets, Queued(d)
  PROVE  Queued(d)' \/ (pc' = "edge" /\ cur' = d /\ next' = 1)
  <1>1. queue \in Seq(Datasets)
    BY DEF IInv, WorklistTypeOK
  <1>2. CASE Pop
    BY <1>1, <1>2, PopUnqueues DEF Pop
  <1>3. ASSUME NEW x \in Datasets, queue' = Append(queue, x) PROVE Queued(d)'
    BY <1>1, <1>3, AppendQueues
  <1>4. CASE UNCHANGED queue
    BY <1>4 DEF Queued
  <1>5. CASE SeedAbsorbed \/ Enlarge \/ Widen
    <2>1. UNCHANGED queue \/ \E x \in Datasets : queue' = Append(queue, x)
      BY <1>5, EnlargeStep DEF SeedAbsorbed, IInv, WorklistTypeOK
    <2> QED BY <1>3, <1>4, <2>1
  <1>6. CASE ~(Pop \/ SeedAbsorbed \/ Enlarge \/ Widen)
    BY <1>4, <1>6 DEF Next, TakeSeed, Absorb, AllSeeded, NoMoreEdges, SkipForced,
      TakeEdge, Unchanged, StartOrder, Emit, Relax, Relaxed, Finish
  <1> QED BY <1>2, <1>5, <1>6

\* The edge under way is delivered before the loop moves past it.
LEMMA EdgeUnderWay ==
  ASSUME IInv, [Next]_vars, NEW d \in Datasets, NEW i \in DOMAIN Out(d),
         pc \in {"edge", "absorb"}, cur = d, i >= next, dirty'[d] = dirty[d]
  PROVE  Pending(d, i)' \/ Delivered(d, i)'
  <1> USE DEF IInv
  <1>1. /\ i \in Nat /\ next \in Nat /\ i <= Len(Out(d)) /\ Len(Out(d)) \in Nat
        /\ Out(d)[i].dst \in Datasets
    BY EdgeTargets DEF WorklistTypeOK
  <1>2. Out(d)' = Out(d) /\ graph' = graph
    BY InputStep DEF Out
  <1>3. ASSUME pc' \in {"edge", "absorb"}, cur' = d, i >= next' PROVE Pending(d, i)'
    BY <1>3 DEF Pending
  <1>4. ASSUME Delivered(d, i) PROVE Delivered(d, i)'
    BY <1>1, <1>2, <1>4, Grows, DeliveredStays
  <1>5. CASE NoMoreEdges
    BY <1>1, <1>5 DEF NoMoreEdges
  <1>6. CASE SkipForced
    <2>1. CASE i = next
      <3>1. WholeDataset \in dirty[Out(d)[i].dst]
        BY <1>6, <2>1 DEF SkipForced, ForcedWhole, Dst, Edge
      <3> QED BY <3>1, <1>4, WholeSubsumes DEF Delivered, CoveredBy
    <2>2. CASE i # next
      BY <1>1, <1>3, <1>6, <2>2 DEF SkipForced
    <2> QED BY <2>1, <2>2
  <1>7. CASE Unchanged
    <2>1. CASE i = next
      BY <1>4, <1>7, <2>1 DEF Unchanged, Absorbed, AbsorbOK, Delivered, Dst, Edge
    <2>2. CASE i # next
      BY <1>1, <1>3, <1>7, <2>2 DEF Unchanged
    <2> QED BY <2>1, <2>2
  <1>8. CASE Enlarge \/ Widen
    <2>1. CASE i = next
      <3>1. PICK keys :
              /\ dirty' = [dirty EXCEPT ![Dst] = keys]
              /\ \A k \in Produced(cur, Edge) : CoveredBy(keys, k)
        BY <1>8, EnlargeStep
      <3>2. dirty'[Out(d)[i].dst] = keys
        BY <1>1, <2>1, <3>1 DEF WorklistTypeOK, Dst, Edge
      <3>3. \A k \in Produced(d, Out(d)[i]) : CoveredBy(dirty'[Out(d)[i].dst], k)
        BY <2>1, <3>1, <3>2 DEF Edge
      <3>4. Produced(d, Out(d)[i])' = Produced(d, Out(d)[i])
        BY <1>2 DEF Produced, Image, SpecIn
      <3> QED BY <1>2, <3>3, <3>4 DEF Delivered
    <2>2. CASE i # next
      BY <1>1, <1>3, <1>8, <2>2 DEF Enlarge, Widen
    <2> QED BY <2>1, <2>2
  <1>9. CASE Absorb \/ TakeEdge \/ UNCHANGED vars
    BY <1>3, <1>9 DEF Absorb, TakeEdge
  <1>10. CASE (\E x \in Datasets : TakeSeed(x)) \/ SeedAbsorbed \/ AllSeeded \/ Pop
    BY <1>10 DEF TakeSeed, SeedAbsorbed, AllSeeded, Pop
  <1>11. CASE StartOrder \/ Emit \/ Relax \/ Relaxed \/ Finish
    BY <1>11 DEF StartOrder, Emit, Relax, Relaxed, Finish
  <1> QED BY <1>5, <1>6, <1>7, <1>8, <1>9, <1>10, <1>11 DEF Next

\* No turn forgets an edge that still has something to deliver.
LEMMA ForgottenStep == ASSUME IInv, [Next]_vars PROVE NothingForgotten'
  <1>1. graph' = graph
    BY InputStep
  <1>2. SUFFICES ASSUME NEW d \in Datasets, NEW i \in DOMAIN Out(d)
                 PROVE  Pending(d, i)' \/ Delivered(d, i)'
    BY <1>1 DEF NothingForgotten, Out
  <1>3. CASE dirty'[d] # dirty[d]
    BY <1>3, ChangedIsQueued DEF Pending
  <1>4. CASE Queued(d)
    <2>1. i >= 1
      BY EdgeTargets DEF IInv
    <2> QED BY <1>4, <2>1, QueuedStays DEF Pending
  <1>5. CASE dirty'[d] = dirty[d] /\ Delivered(d, i)
    <2>1. Out(d)[i].dst \in Datasets
      BY EdgeTargets DEF IInv
    <2> QED BY <1>1, <1>5, <2>1, Grows, DeliveredStays
  <1>6. CASE dirty'[d] = dirty[d] /\ pc \in {"edge", "absorb"} /\ cur = d /\ i >= next
    BY <1>6, EdgeUnderWay
  <1> QED BY <1>3, <1>4, <1>5, <1>6 DEF IInv, NothingForgotten, Pending

-----------------------------------------------------------------------------
(* The theorems. *)

\* The call starts with the invariant.
LEMMA InitInv == Init => IInv
  <1> SUFFICES ASSUME Init PROVE IInv
    OBVIOUS
  <1> USE DEF Init
  <1>1. InputOK /\ AbsorbOK /\ SeedsCovered /\ ForcedWhole /\ Drained
    BY DEF InputOK, AbsorbOK, SeedsCovered, ForcedWhole, Drained
  <1>2. WorklistTypeOK
    BY DEF WorklistTypeOK, Phases, CyclicIn
  <1>3. SeedingOK
    BY DEF SeedingOK, Queued
  <1>4. \A d \in Datasets : dirty[d] = {}
    OBVIOUS
  <1>5. NothingForgotten
    BY <1>4 DEF NothingForgotten, Delivered, Produced, Image
  <1> QED BY <1>1, <1>2, <1>3, <1>5 DEF IInv

\* Every turn keeps the invariant.
LEMMA StepInv == IInv /\ [Next]_vars => IInv'
  <1> SUFFICES ASSUME IInv, [Next]_vars PROVE IInv'
    OBVIOUS
  <1>1. InputOK'
    BY InputStep DEF IInv, InputOK
  <1>2. WorklistTypeOK'
    BY TypeStep DEF IInv
  <1> QED
    BY <1>1, <1>2, AbsorbStep, SeedingStep, SeedsCoveredStep, ForcedStep, DrainedStep,
       ForgottenStep DEF IInv

\* The inductive invariant holds in every call of invalidate.
THEOREM Invariance == Spec => []IInv
  BY InitInv, StepInv, PTL DEF Spec

\* The worklist's variables keep their types in every call of invalidate.
THEOREM WorklistTypeCorrect == Spec => []WorklistTypeOK
  <1>1. IInv => WorklistTypeOK
    BY DEF IInv
  <1> QED BY <1>1, Invariance, PTL

\* No turn of the worklist forgets an edge that still has something to deliver.
THEOREM NothingIsForgotten == Spec => []NothingForgotten
  <1>1. IInv => NothingForgotten
    BY DEF IInv
  <1> QED BY <1>1, Invariance, PTL

\* With the queue drained, the plan holds its seeds and is closed downstream.
LEMMA DrainedIsClosed ==
  ASSUME IInv, pc \in {"order", "relax", "done"}
  PROVE  /\ \A d \in Datasets : \A k \in seeds[d] : CoveredBy(dirty[d], k)
         /\ \A d \in Datasets : \A i \in DOMAIN Out(d) : Delivered(d, i)
  <1>1. \A d \in Datasets : \A k \in seeds[d] : CoveredBy(dirty[d], k)
    BY DEF IInv, SeedsCovered, SeedingOK
  <1>2. queue = << >>
    BY DEF IInv, Drained
  <1>3. \A d : ~Queued(d)
    BY <1>2 DEF Queued
  <1>4. \A d \in Datasets : \A i \in DOMAIN Out(d) : Delivered(d, i)
    BY <1>3 DEF IInv, NothingForgotten, Pending
  <1> QED BY <1>1, <1>4

\* The plan invalidate returns misses no stale partition: whatever the graph, the
\* mappings, the seeds and the budgets.
THEOREM Soundness == Spec => []Sound
  <1>1. IInv => Sound
    BY DrainedIsClosed DEF Sound
  <1> QED BY <1>1, Invariance, PTL

\* A turn of the worklist is a step of the promise, or changes nothing it can see.
LEMMA StepRefines ==
  IInv /\ [Next]_vars => [Promise!Next]_(Promise!vars)
  <1> SUFFICES ASSUME IInv, [Next]_vars, ~UNCHANGED Promise!vars PROVE Promise!Next
    OBVIOUS
  <1>1. UNCHANGED <<graph, seeds>>
    BY InputStep
  <1>2. CASE Finish
    <2>1. /\ pc = "order" /\ pc' = "done" /\ UNCHANGED dirty
      BY <1>2 DEF Finish
    <2>2. Promise!CoversSeeds
      BY <2>1, DrainedIsClosed DEF Promise!CoversSeeds, Promise!Covers
    <2>3. Promise!ClosedDownstream
      BY <2>1, DrainedIsClosed DEF Promise!ClosedDownstream, Promise!Covers, Delivered,
        Produced, Image, Out, SpecIn
    <2> QED BY <1>1, <2>1, <2>2, <2>3 DEF Promise!Next, Promise!HandOver
  <1>3. CASE ~Finish
    <2>1. pc # "done" /\ pc' # "done"
      BY <1>1, <1>3 DEF Promise!vars, Next, TakeSeed, Absorb, SeedAbsorbed, AllSeeded, Pop,
        NoMoreEdges, SkipForced, TakeEdge, Unchanged, Enlarge, Widen, StartOrder, Emit,
        Relax, Relaxed
    <2>2. PICK d \in Datasets : \A x \in Datasets \ {d} : dirty'[x] = dirty[x]
      <3>1. CASE UNCHANGED dirty
        BY <3>1, PlannerAssumption
      <3>2. CASE Enlarge \/ Widen
        BY <3>2, EnlargeStep DEF IInv, WorklistTypeOK
      <3> QED BY <3>1, <3>2, PlanStep DEF IInv, WorklistTypeOK
    <2>3. Promise!Learn(d)
      BY <1>1, <2>1, <2>2, Grows DEF Promise!Learn
    <2> QED BY <2>3 DEF Promise!Next
  <1> QED BY <1>2, <1>3

\* The worklist implements what module Invalidation promises: a plan that only
\* ever covers more, handed over closed.
THEOREM Refinement == Spec => KeepsPromise
  <1>1. Init => Promise!Init
    BY DEF Init, Promise!Init
  <1> QED
    BY <1>1, StepRefines, Invariance, PTL DEF Spec, KeepsPromise, Promise!Safety

-----------------------------------------------------------------------------
(* Widening is reported. *)

\* What covers a whole dataset is whole.
LEMMA CoveringWhole ==
  ASSUME NEW S, NEW T, IsWhole(S), \A k \in S : CoveredBy(T, k)
  PROVE  IsWhole(T)
  BY DEF IsWhole, IsUnboundedKey, CoveredBy, Subsumes

\* A seed's predicates are all that its own absorption can hold.
MergedFromSeeds == pc = "seed" => merged \subseteq seeds[cur]

\* WidenedIsToldAndTrue, at every turn and not only at the end.
Told ==
  \A d \in Datasets :
    /\ d \in widened => IsWhole(dirty[d])
    /\ SpecIn(d) # << >> /\ IsWhole(dirty[d]) /\ ~IsWhole(seeds[d]) => d \in widened

\* _absorb adds nothing to a seed but its candidates.
LEMMA MergedFromSeedsStep ==
  ASSUME IInv, MergedFromSeeds, [Next]_vars PROVE MergedFromSeeds'
  <1> USE DEF IInv, MergedFromSeeds
  <1>1. ASSUME NEW d \in Datasets, TakeSeed(d) PROVE MergedFromSeeds'
    BY <1>1 DEF TakeSeed
  <1>2. CASE Absorb
    BY <1>2 DEF Absorb, AbsorbOne, AbsorbOK
  <1>3. CASE UNCHANGED vars
    BY <1>3
  <1>4. CASE ~(Absorb \/ \E d \in Datasets : TakeSeed(d)) /\ Next
    BY <1>4 DEF Next, SeedAbsorbed, AllSeeded, Pop, NoMoreEdges, SkipForced, TakeEdge,
      Unchanged, Enlarge, Widen, StartOrder, Emit, Relax, Relaxed, Finish
  <1> QED BY <1>1, <1>2, <1>3, <1>4

\* A turn that takes a dataset whole says so, unless its seeds were whole.
LEMMA ToldStep ==
  ASSUME IInv, MergedFromSeeds, Told, [Next]_vars PROVE Told'
  <1> SUFFICES ASSUME NEW d \in Datasets
               PROVE  /\ d \in widened' => IsWhole(dirty'[d])
                      /\ SpecIn(d)' # << >> /\ IsWhole(dirty'[d]) /\ ~IsWhole(seeds'[d])
                           => d \in widened'
    BY DEF Told, IsWhole, IsUnboundedKey
  <1>1. UNCHANGED <<SpecIn(d), seeds>>
    BY InputStep DEF SpecIn
  <1>2. IsWhole(dirty[d]) => IsWhole(dirty'[d])
    BY Grows, CoveringWhole
  <1>3. /\ d \in widened => IsWhole(dirty[d])
        /\ SpecIn(d) # << >> /\ IsWhole(dirty[d]) /\ ~IsWhole(seeds[d]) => d \in widened
    BY DEF Told
  <1>4. CASE SeedAbsorbed
    <2>1. UNCHANGED widened /\ merged \subseteq seeds[cur]
      BY <1>4 DEF SeedAbsorbed, MergedFromSeeds
    <2>2. dirty'[d] = dirty[d] \/ (d = cur /\ dirty'[d] = merged)
      BY <1>4 DEF SeedAbsorbed, IInv, WorklistTypeOK
    <2>3. CASE d = cur /\ dirty'[d] = merged
      <3>1. IsWhole(merged) => IsWhole(seeds[d])
        BY <2>1, <2>3 DEF IsWhole
      <3> QED BY <1>1, <1>2, <1>3, <2>1, <2>3, <3>1
    <2> QED BY <1>1, <1>3, <2>1, <2>2, <2>3
  <1>5. CASE Enlarge
    <2>1. /\ widened' = widened \cup GrownWhole
          /\ dirty' = [dirty EXCEPT ![Dst] = merged]
      BY <1>5 DEF Enlarge
    <2>2. CASE d = Dst
      <3>1. dirty'[d] = merged
        BY <2>1, <2>2 DEF IInv, WorklistTypeOK
      <3>2. GrownWhole = IF SpecIn(d) # << >> /\ IsWhole(merged) THEN {d} ELSE {}
        BY <2>2 DEF GrownWhole
      <3> QED BY <1>1, <1>2, <1>3, <2>1, <3>1, <3>2
    <2>3. CASE d # Dst
      <3>1. dirty'[d] = dirty[d] /\ (d \in widened' <=> d \in widened)
        BY <2>1, <2>3 DEF GrownWhole, IInv, WorklistTypeOK
      <3> QED BY <1>1, <1>3, <3>1
    <2> QED BY <2>2, <2>3
  <1>6. CASE Widen
    <2>1. /\ widened' = widened \cup {Dst}
          /\ dirty' = [dirty EXCEPT ![Dst] = {WholeDataset}]
      BY <1>6 DEF Widen
    <2>2. CASE d = Dst
      <3>1. dirty'[d] = {WholeDataset}
        BY <2>1, <2>2 DEF IInv, WorklistTypeOK
      <3>2. IsWhole({WholeDataset})
        BY DEF IsWhole, IsUnboundedKey, WholeDataset
      <3> QED BY <2>1, <2>2, <3>1, <3>2
    <2>3. CASE d # Dst
      <3>1. dirty'[d] = dirty[d] /\ (d \in widened' <=> d \in widened)
        BY <2>1, <2>3 DEF IInv, WorklistTypeOK
      <3> QED BY <1>1, <1>3, <3>1
    <2> QED BY <2>2, <2>3
  <1>7. CASE ~(SeedAbsorbed \/ Enlarge \/ Widen)
    <2>1. UNCHANGED <<dirty, widened>>
      BY <1>7 DEF Next, TakeSeed, Absorb, AllSeeded, Pop, NoMoreEdges, SkipForced,
        TakeEdge, Unchanged, StartOrder, Emit, Relax, Relaxed, Finish
    <2> QED BY <1>1, <1>3, <2>1
  <1> QED BY <1>4, <1>5, <1>6, <1>7

\* Whatever the graph and the budgets, the plan invalidate returns says which datasets it
\* took whole: all of them but those whose seeds were, and no other.
THEOREM WideningIsTold == Spec => []WidenedIsToldAndTrue
  <1>1. Init => MergedFromSeeds /\ Told
    BY DEF Init, MergedFromSeeds, Told, IsWhole
  <1>2. IInv /\ (MergedFromSeeds /\ Told) /\ [Next]_vars => (MergedFromSeeds /\ Told)'
    BY MergedFromSeedsStep, ToldStep
  <1>3. Told => WidenedIsToldAndTrue
    BY DEF Told, WidenedIsToldAndTrue
  <1> QED BY <1>1, <1>2, <1>3, Invariance, PTL DEF Spec

-----------------------------------------------------------------------------
(* The build order. *)

\* What lies downstream of a set of datasets: the set, whatever an edge leads to from
\* there, and nothing else.
Down(S) == Downstream(graph, S, Cardinality(Datasets))
Succ(d) == {Out(d)[j].dst : j \in DOMAIN Out(d)}

LEMMA DatasetsFinite == IsFiniteSet(Datasets)
  <1>1. ByName \in Seq(Datasets) /\ Datasets = {ByName[i] : i \in DOMAIN ByName}
    BY PlannerAssumption DEF PlannerAssumption
  <1>2. DOMAIN ByName = 1 .. Len(ByName) /\ Len(ByName) \in Nat
    BY <1>1
  <1>3. IsFiniteSet({ByName[i] : i \in 1 .. Len(ByName)})
    <2>1. IsFiniteSet(1 .. Len(ByName))
      BY <1>2, FS_Interval
    <2> DEFINE f == [i \in 1 .. Len(ByName) |-> ByName[i]]
               T == {ByName[i] : i \in 1 .. Len(ByName)}
    <2>2. f \in Surjection(1 .. Len(ByName), T)
      BY DEF Surjection
    <2> HIDE DEF f, T
    <2>3. IsFiniteSet(T)
      BY <2>1, <2>2, FS_Surjection
    <2> QED BY <2>3 DEF T
  <1> QED BY <1>1, <1>2, <1>3

LEMMA Successors ==
  ASSUME InputOK, NEW d \in Datasets
  PROVE  Succ(d) \in SUBSET Datasets
  BY EdgeTargets DEF Succ

LEMMA DownFacts ==
  ASSUME InputOK, NEW S \in SUBSET Datasets
  PROVE  /\ S \subseteq Down(S) /\ Down(S) \in SUBSET Datasets
         /\ \A d \in Down(S) : Succ(d) \subseteq Down(S)
         /\ \A C \in SUBSET Datasets : S \subseteq C /\ (\A d \in C : Succ(d) \subseteq C) => Down(S) \subseteq C
  <1> DEFINE N == Cardinality(Datasets)
             U == Datasets
             step == [T \in SUBSET Datasets |->
                        T \cup UNION {{graph.out[d][j].dst : j \in DOMAIN graph.out[d]} : d \in T}]
             reach[i \in 0 .. N] == IF i = 0 THEN S ELSE step[reach[i - 1]]
  <1>1. Down(S) = reach[N]
    BY DEF Down, Downstream
  <1>2. \A T \in SUBSET U : step[T] = T \cup UNION {Succ(d) : d \in T}
    BY DEF Succ, Out
  <1>3. \A d \in U : Succ(d) \in SUBSET U
    BY Successors
  <1>4. IsWidening(step, U)
    <2>1. step = [T \in SUBSET U |-> step[T]]
      OBVIOUS
    <2> HIDE DEF step
    <2>2. \A T \in SUBSET U : step[T] \in SUBSET U /\ T \subseteq step[T]
      BY <1>2, <1>3
    <2> HIDE DEF U
    <2> QED BY <2>1, <2>2 DEF IsWidening
  <1>5. IsIteration(reach, N, S, step)
    BY DEF IsIteration
  <1>6. HasSize(U, N) /\ S \in SUBSET U
    BY DatasetsFinite DEF HasSize
  <1> HIDE DEF step, reach, N
  <1>7. /\ reach[N] \in SUBSET U /\ S \subseteq reach[N] /\ step[reach[N]] = reach[N]
        /\ \A C \in SUBSET U : S \subseteq C /\ (\A T \in SUBSET C : step[T] \subseteq C) => reach[N] \subseteq C
    <2> HIDE DEF U
    <2> QED BY <1>4, <1>5, <1>6, RoundsClose
  <1>8. \A d \in reach[N] : Succ(d) \subseteq reach[N]
    BY <1>2, <1>7
  <1>9. ASSUME NEW C \in SUBSET U, S \subseteq C, \A d \in C : Succ(d) \subseteq C
        PROVE  reach[N] \subseteq C
    <2>1. \A T \in SUBSET C : step[T] \subseteq C
      BY <1>2, <1>9
    <2> QED BY <1>7, <1>9, <2>1
  <1> QED BY <1>1, <1>7, <1>8, <1>9

CyclesKnown == onCycle = CyclicIn(graph)

\* In a set of datasets of which each has an input of its own in the set, all are below a cycle.
LEMMA HeldBackByCycles ==
  ASSUME InputOK, CyclesKnown, NEW R \in SUBSET Datasets,
         \A d \in R : \E s \in R \ {d} : d \in Succ(s)
  PROVE  \A d \in R : ~Acyclic(d)
  <1> DEFINE Free == {d \in R : Acyclic(d)}
             Up(d) == {y \in Datasets : d \in Down({y})}
             size == [d \in Datasets |-> Cardinality(Up(d))]
  <1>1. SUFFICES ASSUME Free # {} PROVE FALSE
    OBVIOUS
  <1>2. \A d \in Datasets : {d} \in SUBSET Datasets
    OBVIOUS
  <1>3. \A d \in Datasets : Acyclic(d) <=> \A c \in onCycle : d \notin Down({c})
    BY DEF Acyclic, Down
  <1>4. onCycle = {d \in Datasets : d \in Down(Succ(d))}
    BY DEF CyclesKnown, CyclicIn, Down, Succ, Out
  <1>5. \A d \in Datasets : Up(d) \in SUBSET Datasets /\ IsFiniteSet(Up(d)) /\ size[d] = Cardinality(Up(d)) /\ size[d] \in Nat
    BY DatasetsFinite, FS_Subset, FS_CardinalityType
  <1> HIDE DEF size
  <1>6. PICK x \in Free : \A y \in Free : size[x] <= size[y]
    <2> DEFINE T == {size[d] : d \in Free}
    <2>1. T \in SUBSET Nat /\ T # {}
      BY <1>1, <1>5
    <2>2. PICK n \in T : \A m \in T : n <= m
      <3> HIDE DEF T
      <3> QED BY <2>1, LeastNumber
    <2> QED BY <2>2
  <1>7. PICK p \in R \ {x} : x \in Succ(p)
    OBVIOUS
  <1>8. x \in Datasets /\ p \in Datasets /\ x # p
    BY <1>7
  <1>9. \A y \in Datasets : p \in Down({y}) => x \in Down({y})
    BY <1>2, <1>7, DownFacts
  <1>10. Acyclic(p)
    BY <1>3, <1>4, <1>6, <1>8, <1>9
  <1>11. x \notin Up(p)
    <2>1. SUFFICES ASSUME p \in Down({x}) PROVE FALSE
      OBVIOUS
    <2> DEFINE below == Down(Succ(x))
    <2>2. Succ(x) \in SUBSET Datasets
      BY <1>8, Successors
    <2>3. below \in SUBSET Datasets /\ Succ(x) \subseteq below /\ \A d \in below : Succ(d) \subseteq below
      BY <2>2, DownFacts
    <2> HIDE DEF below
    <2>4. Down({x}) \subseteq {x} \cup below
      <3> DEFINE C == {x} \cup below
      <3>1. C \in SUBSET Datasets /\ {x} \subseteq C /\ \A d \in C : Succ(d) \subseteq C
        BY <1>8, <2>3
      <3> HIDE DEF C
      <3>2. Down({x}) \subseteq C
        BY <1>2, <1>8, <3>1, DownFacts
      <3> QED BY <3>2 DEF C
    <2>5. x \in below
      BY <1>7, <1>8, <2>1, <2>3, <2>4
    <2>6. x \in onCycle /\ x \in Down({x})
      BY <1>2, <1>4, <1>8, <2>5, DownFacts DEF below
    <2> QED BY <1>3, <1>6, <1>8, <2>6
  <1>12. x \in Up(x) /\ Up(p) \in SUBSET Up(x)
    <2>1. x \in Down({x})
      BY <1>2, <1>8, DownFacts
    <2> QED BY <1>8, <1>9, <2>1
  <1>13. size[p] < size[x]
    <2>1. Cardinality(Up(p)) <= Cardinality(Up(x)) /\ Cardinality(Up(p)) # Cardinality(Up(x))
      <3>1. IsFiniteSet(Up(x)) /\ Up(p) # Up(x)
        BY <1>5, <1>8, <1>11, <1>12
      <3> HIDE DEF Up
      <3> QED BY <1>12, <3>1, FS_Subset
    <2> HIDE DEF Up
    <2> QED BY <1>5, <1>8, <2>1
  <1>14. size[x] <= size[p]
    BY <1>6, <1>7, <1>10
  <1> HIDE DEF Up
  <1> QED BY <1>5, <1>8, <1>13, <1>14

\* sorted(): each dataset of a set once.
LEMMA SortedIs ==
  ASSUME NEW S \in SUBSET Datasets
  PROVE  /\ InNameOrder(S) \in Seq(Datasets)
         /\ {InNameOrder(S)[n] : n \in DOMAIN InNameOrder(S)} = S
         /\ \A m, n \in DOMAIN InNameOrder(S) : InNameOrder(S)[m] = InNameOrder(S)[n] => m = n
  <1> DEFINE at == {i \in DOMAIN ByName : ByName[i] \in S}
             N == Cardinality(at)
             nth == [n \in 1 .. N |-> CHOOSE i \in at : PlaceIn(at, i) = n]
             s == InNameOrder(S)
  <1>1. /\ DOMAIN ByName = 1 .. Len(ByName) /\ Len(ByName) \in Nat
        /\ Datasets = {ByName[i] : i \in DOMAIN ByName}
        /\ \A i, j \in DOMAIN ByName : ByName[i] = ByName[j] => i = j
    BY PlannerAssumption DEF PlannerAssumption
  <1>2. at \in SUBSET Nat /\ IsFiniteSet(at) /\ {ByName[i] : i \in at} = S
    <2>1. at \in SUBSET (1 .. Len(ByName))
      BY <1>1
    <2>2. IsFiniteSet(1 .. Len(ByName))
      BY <1>1, FS_Interval
    <2>3. IsFiniteSet(at)
      <3> HIDE DEF at
      <3> QED BY <2>1, <2>2, FS_Subset
    <2> QED BY <1>1, <2>1, <2>3
  <1>3. s = [n \in 1 .. N |-> ByName[nth[n]]]
    BY DEF InNameOrder, PlaceIn
  <1>4. /\ N \in Nat
        /\ \A i \in at : PlaceIn(at, i) \in 1 .. N
        /\ \A i, j \in at : PlaceIn(at, i) = PlaceIn(at, j) => i = j
        /\ \A n \in 1 .. N : \E i \in at : PlaceIn(at, i) = n
    <2> HIDE DEF at
    <2> QED BY <1>2, PlacesTaken
  <1>5. \A n \in 1 .. N : nth[n] \in at /\ PlaceIn(at, nth[n]) = n
    <2> HIDE DEF at, N
    <2> QED BY <1>4
  <1>6. \A i \in at : nth[PlaceIn(at, i)] = i
    <2> HIDE DEF at, N, nth
    <2> QED BY <1>4, <1>5
  <1>7. \A i, j \in at : ByName[i] = ByName[j] => i = j
    BY <1>1
  <1> HIDE DEF at, N, nth, s
  <1>8. DOMAIN s = 1 .. N /\ \A n \in 1 .. N : s[n] = ByName[nth[n]] /\ s[n] \in S
    BY <1>2, <1>3, <1>5
  <1>9. s \in Seq(Datasets)
    BY <1>3, <1>4, <1>8
  <1>10. {s[n] : n \in 1 .. N} = S
    <2>1. ASSUME NEW d \in S PROVE \E n \in 1 .. N : s[n] = d
      <3>1. PICK i \in at : ByName[i] = d
        BY <1>2
      <3>2. PlaceIn(at, i) \in 1 .. N /\ nth[PlaceIn(at, i)] = i
        BY <1>4, <1>6
      <3> QED BY <1>8, <3>1, <3>2
    <2> QED BY <1>8, <2>1
  <1>11. \A m, n \in 1 .. N : s[m] = s[n] => m = n
    BY <1>5, <1>7, <1>8
  <1> QED BY <1>8, <1>9, <1>10, <1>11 DEF s

\* What a list holds, and that it holds nothing twice.
Members(s)  == {s[i] : i \in DOMAIN s}
Distinct(s) == \A i, j \in DOMAIN s : s[i] = s[j] => i = j

LEMMA AppendIs ==
  ASSUME NEW S, NEW s \in Seq(S), NEW e \in S
  PROVE  /\ Append(s, e) \in Seq(S)
         /\ DOMAIN s = 1 .. Len(s) /\ Len(s) \in Nat
         /\ DOMAIN Append(s, e) = 1 .. Len(s) + 1
         /\ Append(s, e)[Len(s) + 1] = e
         /\ \A i \in DOMAIN s : Append(s, e)[i] = s[i]
         /\ Members(Append(s, e)) = Members(s) \cup {e}
         /\ Distinct(s) /\ e \notin Members(s) => Distinct(Append(s, e))
  <1>1. /\ Append(s, e) \in Seq(S)
        /\ DOMAIN s = 1 .. Len(s) /\ Len(s) \in Nat
        /\ DOMAIN Append(s, e) = 1 .. Len(s) + 1
        /\ Append(s, e)[Len(s) + 1] = e
        /\ \A i \in DOMAIN s : Append(s, e)[i] = s[i]
    OBVIOUS
  <1> DEFINE t == Append(s, e)
  <1> HIDE DEF t
  <1>2. \A i \in DOMAIN t : i \in DOMAIN s \/ i = Len(s) + 1
    BY <1>1 DEF t
  <1>3. Members(t) = Members(s) \cup {e}
    BY <1>1, <1>2 DEF Members, t
  <1>4. Distinct(s) /\ e \notin Members(s) => Distinct(t)
    BY <1>1, <1>2 DEF Distinct, Members, t
  <1> QED BY <1>1, <1>3, <1>4 DEF t

LEMMA TailIs ==
  ASSUME NEW S, NEW s \in Seq(S), s # << >>
  PROVE  /\ Head(s) \in S /\ Tail(s) \in Seq(S)
         /\ Members(s) = {Head(s)} \cup Members(Tail(s))
         /\ Distinct(s) => Distinct(Tail(s)) /\ Head(s) \notin Members(Tail(s))
  <1> DEFINE t == Tail(s)
  <1>1. /\ Head(s) = s[1] /\ Head(s) \in S /\ t \in Seq(S)
        /\ DOMAIN s = 1 .. Len(s) /\ Len(s) \in Nat \ {0}
        /\ DOMAIN t = 1 .. Len(s) - 1
        /\ \A i \in 1 .. Len(s) - 1 : t[i] = s[i + 1]
    OBVIOUS
  <1> HIDE DEF t
  <1>2. \A i \in DOMAIN s : i = 1 \/ (i - 1 \in DOMAIN t /\ t[i - 1] = s[i])
    BY <1>1
  <1>3. \A i \in DOMAIN t : i + 1 \in DOMAIN s /\ i + 1 # 1 /\ t[i] = s[i + 1]
    BY <1>1
  <1>4. 1 \in DOMAIN s
    BY <1>1
  <1>5. Members(s) = {Head(s)} \cup Members(t)
    BY <1>1, <1>2, <1>3, <1>4 DEF Members
  <1>6. ASSUME Distinct(s) PROVE Distinct(t) /\ Head(s) \notin Members(t)
    <2>1. \A i, j \in DOMAIN t : t[i] = t[j] => i + 1 = j + 1
      BY <1>3, <1>6 DEF Distinct
    <2>2. \A i, j \in DOMAIN t : i + 1 = j + 1 => i = j
      BY <1>1
    <2>3. \A i \in DOMAIN t : t[i] # s[1]
      BY <1>3, <1>4, <1>6 DEF Distinct
    <2> QED BY <1>1, <2>1, <2>2, <2>3 DEF Distinct, Members
  <1> QED BY <1>1, <1>5, <1>6 DEF t

LEMMA JoinIs ==
  ASSUME NEW S, NEW s \in Seq(S), NEW t \in Seq(S)
  PROVE  /\ s \o t \in Seq(S)
         /\ DOMAIN s = 1 .. Len(s) /\ Len(s) \in Nat
         /\ \A i \in DOMAIN s : i \in DOMAIN (s \o t) /\ (s \o t)[i] = s[i]
         /\ \A i \in DOMAIN (s \o t) : i \in DOMAIN s \/ (s \o t)[i] \in Members(t)
         /\ Members(s \o t) = Members(s) \cup Members(t)
         /\ Distinct(s) /\ Distinct(t) /\ Members(s) \cap Members(t) = {} => Distinct(s \o t)
  <1> DEFINE u == s \o t
  <1>1. /\ u \in Seq(S)
        /\ DOMAIN s = 1 .. Len(s) /\ Len(s) \in Nat
        /\ DOMAIN t = 1 .. Len(t) /\ Len(t) \in Nat
        /\ DOMAIN u = 1 .. Len(s) + Len(t)
        /\ \A i \in 1 .. Len(s) + Len(t) : u[i] = IF i <= Len(s) THEN s[i] ELSE t[i - Len(s)]
    OBVIOUS
  <1> HIDE DEF u
  <1>2. \A i \in DOMAIN s : i \in DOMAIN u /\ u[i] = s[i]
    BY <1>1
  <1>3. \A i \in DOMAIN u : i \in DOMAIN s \/ (i - Len(s) \in DOMAIN t /\ u[i] = t[i - Len(s)])
    BY <1>1
  <1>4. \A i \in DOMAIN t : i + Len(s) \in DOMAIN u /\ u[i + Len(s)] = t[i]
    <2>1. \A i \in DOMAIN t : i + Len(s) \in DOMAIN u /\ ~(i + Len(s) <= Len(s)) /\ (i + Len(s)) - Len(s) = i
      BY <1>1
    <2> QED BY <1>1, <2>1
  <1>5. Members(u) = Members(s) \cup Members(t)
    BY <1>2, <1>3, <1>4 DEF Members
  <1>6. ASSUME Distinct(s), Distinct(t), Members(s) \cap Members(t) = {} PROVE Distinct(u)
    <2>1. SUFFICES ASSUME NEW i \in DOMAIN u, NEW j \in DOMAIN u, u[i] = u[j] PROVE i = j
      BY DEF Distinct
    <2>2. CASE i \in DOMAIN s /\ j \in DOMAIN s
      BY <1>2, <1>6, <2>1, <2>2 DEF Distinct
    <2>3. CASE i \notin DOMAIN s /\ j \notin DOMAIN s
      <3>1. i - Len(s) = j - Len(s)
        BY <1>3, <1>6, <2>1, <2>3 DEF Distinct
      <3> QED BY <1>1, <3>1
    <2>4. \A a, b \in DOMAIN u : a \in DOMAIN s /\ b \notin DOMAIN s => u[a] # u[b]
      <3>1. \A a \in DOMAIN s : u[a] \in Members(s)
        BY <1>2 DEF Members
      <3>2. \A b \in DOMAIN u \ DOMAIN s : u[b] \in Members(t)
        BY <1>3 DEF Members
      <3> QED BY <1>6, <3>1, <3>2
    <2> QED BY <2>1, <2>2, <2>3, <2>4
  <1> QED BY <1>1, <1>2, <1>3, <1>5, <1>6 DEF u, Members

LEMMA DistinctLength ==
  ASSUME NEW S, NEW s \in Seq(S), Distinct(s)
  PROVE  Len(s) = Cardinality(Members(s))
  <1> DEFINE N == Len(s)
             M == Members(s)
  <1>1. N \in Nat /\ DOMAIN s = 1 .. N /\ s = [i \in 1 .. N |-> s[i]]
    OBVIOUS
  <1>2. s \in Bijection(1 .. N, M)
    <2>1. s \in [1 .. N -> M] /\ \A d \in M : \E i \in 1 .. N : s[i] = d
      BY <1>1 DEF Members
    <2>2. \A i, j \in 1 .. N : s[i] = s[j] => i = j
      BY <1>1 DEF Distinct
    <2> HIDE DEF N, M
    <2> QED BY <2>1, <2>2 DEF Bijection, Injection, Surjection, IsInjective
  <1>3. ExistsBijection(1 .. N, M)
    BY <1>2 DEF ExistsBijection
  <1> HIDE DEF N, M
  <1>4. Cardinality(M) = N
    BY <1>1, <1>3, FS_CountingElements
  <1> QED BY <1>4 DEF N, M


\* The edges Indegree counts for d, and those of them that still hold it back.
Arcs(d) ==
  UNION {{<<s, i>> : i \in {j \in DOMAIN Out(s) : Out(s)[j].dst = d}} : s \in Affected \ {d}}

Left(d) ==
  {a \in Arcs(d) : a[1] \notin Members(order) \/ (pc = "relax" /\ a[1] = cur /\ a[2] >= next)}

LEMMA ArcsAre ==
  ASSUME InputOK, NEW d \in Datasets
  PROVE  /\ IsFiniteSet(Arcs(d)) /\ Indegree(d) = Cardinality(Arcs(d))
         /\ \A s, i : <<s, i>> \in Arcs(d) <=>
              s \in Affected \ {d} /\ i \in DOMAIN Out(s) /\ Out(s)[i].dst = d
         /\ \A a \in Arcs(d) : a = <<a[1], a[2]>>
  <1> DEFINE from == [s \in Datasets |-> {s} \X (1 .. Len(Out(s)))]
             F == {from[s] : s \in Datasets}
  <1>1. Affected \in SUBSET Datasets
    BY DEF Affected
  <1>2. \A s, i : <<s, i>> \in Arcs(d) <=>
          s \in Affected \ {d} /\ i \in DOMAIN Out(s) /\ Out(s)[i].dst = d
    BY DEF Arcs
  <1>3. \A a \in Arcs(d) : a = <<a[1], a[2]>>
    BY DEF Arcs
  <1>4. \A s \in Datasets : IsFiniteSet(from[s])
    <2>1. SUFFICES ASSUME NEW s \in Datasets PROVE IsFiniteSet({s} \X (1 .. Len(Out(s))))
      OBVIOUS
    <2>2. IsFiniteSet({s})
      BY FS_Singleton
    <2>3. IsFiniteSet(1 .. Len(Out(s)))
      BY EdgeTargets, FS_Interval
    <2> QED BY <2>2, <2>3, FS_Product
  <1>5. \A a \in Arcs(d) : \E T \in F : a \in T
    <2>1. SUFFICES ASSUME NEW a \in Arcs(d) PROVE a[1] \in Datasets /\ a \in from[a[1]]
      OBVIOUS
    <2>2. /\ a = <<a[1], a[2]>> /\ a[1] \in Datasets /\ a[2] \in DOMAIN Out(a[1])
      BY <1>1, <1>2, <1>3
    <2>3. a[2] \in 1 .. Len(Out(a[1]))
      BY <2>2, EdgeTargets
    <2> QED BY <2>2, <2>3
  <1>6. from \in Surjection(Datasets, F)
    BY DEF Surjection
  <1> HIDE DEF from, F
  <1>7. IsFiniteSet(F)
    BY <1>6, DatasetsFinite, FS_Surjection
  <1>8. \A T \in F : IsFiniteSet(T)
    BY <1>4 DEF F
  <1>9. Arcs(d) \in SUBSET UNION F
    BY <1>5
  <1>10. IsFiniteSet(Arcs(d))
    BY <1>7, <1>8, <1>9, FS_UNION, FS_Subset
  <1>11. Indegree(d) = Cardinality(Arcs(d))
    BY DEF Indegree, Arcs
  <1> QED BY <1>2, <1>3, <1>10, <1>11

LEMMA LeftFinite ==
  ASSUME InputOK, NEW d \in Datasets
  PROVE  IsFiniteSet(Left(d))
  <1>1. Left(d) \in SUBSET Arcs(d)
    BY DEF Left
  <1> QED BY <1>1, ArcsAre, FS_Subset

\* Before the order is built there is none of it.
NotBegun == pc \notin {"order", "relax", "done"} => order = << >>

\* Each affected input of a dataset of the order, itself apart, is earlier in it.
InputsEarlier ==
  \A j \in DOMAIN order : \A s \in Affected \ {order[j]} :
    order[j] \in Succ(s) => \E i \in 1 .. j - 1 : order[i] = s

\* Kahn's algorithm: the count of a dataset is that of its inputs not built yet, and it is ready
\* or built, once, from the turn that brings the count to zero.
KahnOK ==
  pc \in {"order", "relax"} =>
    /\ Distinct(ready) /\ Distinct(order) /\ Members(ready) \cap Members(order) = {}
    /\ Members(ready) \cup Members(order) \subseteq Affected
    /\ \A d \in Affected :
         /\ indegree[d] = Cardinality(Left(d))
         /\ Left(d) = {} <=> d \in Members(ready) \cup Members(order)
    /\ InputsEarlier
    /\ pc = "relax" => cur \in Members(order)

OrderInv ==
  IInv /\ CyclesKnown /\ OrderTypeOK /\ NotBegun /\ KahnOK /\ BuildsDependenciesFirst


\* The steps of the worklist leave the order and its loop alone.
LEMMA OrderKept ==
  ASSUME Next, ~(StartOrder \/ Emit \/ Relax \/ Relaxed \/ Finish)
  PROVE  /\ UNCHANGED <<indegree, ready, order>>
         /\ {pc, pc'} \cap {"order", "relax", "done"} = {}
  BY DEF Next, TakeSeed, Absorb, SeedAbsorbed, AllSeeded, Pop, NoMoreEdges, SkipForced,
    TakeEdge, Unchanged, Enlarge, Widen

LEMMA AffectedIs == Affected \in SUBSET Datasets
  BY DEF Affected

LEMMA StartOrderStep ==
  ASSUME OrderInv, StartOrder
  PROVE  OrderTypeOK' /\ NotBegun' /\ KahnOK' /\ BuildsDependenciesFirst'
  <1> DEFINE R == {d \in Affected : Indegree(d) = 0}
  <1>1. /\ pc = "pop" /\ pc' = "order"
        /\ indegree' = [d \in Datasets |-> Indegree(d)] /\ ready' = InNameOrder(R)
        /\ UNCHANGED <<graph, seeds, onCycle, dirty, cyclic, cur, next, order>>
    BY DEF StartOrder
  <1>2. InputOK /\ order = << >> /\ R \in SUBSET Datasets
    BY <1>1, AffectedIs DEF OrderInv, IInv, NotBegun
  <1>3. \A d \in Datasets : Indegree(d) = Cardinality(Arcs(d)) /\ IsFiniteSet(Arcs(d)) /\ Indegree(d) \in Nat
    BY <1>2, ArcsAre, FS_CardinalityType
  <1>4. OrderTypeOK'
    BY <1>1, <1>2, <1>3, SortedIs DEF OrderInv, OrderTypeOK
  <1>5. Members(order) = {} /\ Distinct(order) /\ InputsEarlier'
    BY <1>1, <1>2 DEF Members, Distinct, InputsEarlier
  <1>6. Affected' = Affected /\ \A d \in Datasets : Left(d)' = Arcs(d)
    <2>1. Affected' = Affected
      BY <1>1 DEF Affected
    <2>2. \A d \in Datasets : Arcs(d)' = Arcs(d)
      BY <1>1, <2>1 DEF Arcs, Out
    <2>3. Members(order') = {}
      BY <1>1, <1>5
    <2> QED BY <2>1, <2>2, <2>3 DEF Left
  <1>7. Members(InNameOrder(R)) = R /\ Distinct(InNameOrder(R))
    BY <1>2, SortedIs DEF Members, Distinct
  <1>8. \A d \in Affected : /\ indegree'[d] = Cardinality(Left(d)')
                            /\ Left(d)' = {} <=> d \in R
    BY <1>1, <1>3, <1>6, AffectedIs, FS_EmptySet
  <1>9. KahnOK'
    <2> HIDE DEF R
    <2> QED BY <1>1, <1>5, <1>6, <1>7, <1>8 DEF KahnOK, R
  <1> QED BY <1>1, <1>4, <1>9 DEF NotBegun, BuildsDependenciesFirst

LEMMA EmitStep ==
  ASSUME OrderInv, Emit
  PROVE  OrderTypeOK' /\ NotBegun' /\ KahnOK' /\ BuildsDependenciesFirst'
  <1> DEFINE d0 == Head(ready)
  <1>1. /\ pc = "order" /\ pc' = "relax" /\ ready # << >>
        /\ cur' = d0 /\ ready' = Tail(ready) /\ order' = Append(order, d0) /\ next' = 1
        /\ UNCHANGED <<graph, seeds, onCycle, dirty, cyclic, indegree>>
    BY DEF Emit
  <1>2. InputOK /\ ready \in Seq(Datasets) /\ order \in Seq(Datasets)
    BY DEF OrderInv, IInv, OrderTypeOK
  <1>3. /\ d0 \in Datasets /\ Tail(ready) \in Seq(Datasets)
        /\ Members(ready) = {d0} \cup Members(ready')
        /\ Distinct(ready') /\ d0 \notin Members(ready')
    BY <1>1, <1>2, TailIs DEF OrderInv, KahnOK
  <1> HIDE DEF d0
  <1>4. d0 \notin Members(order) /\ d0 \in Affected
    BY <1>1, <1>3 DEF OrderInv, KahnOK
  <1>5. /\ order' \in Seq(Datasets) /\ Members(order') = Members(order) \cup {d0} /\ Distinct(order')
        /\ DOMAIN order = 1 .. Len(order) /\ Len(order) \in Nat /\ DOMAIN order' = 1 .. Len(order) + 1
        /\ order'[Len(order) + 1] = d0 /\ \A i \in DOMAIN order : order'[i] = order[i]
    BY <1>1, <1>2, <1>3, <1>4, AppendIs DEF OrderInv, KahnOK
  <1>6. Affected' = Affected
    BY <1>1 DEF Affected
  <1>7. \A d \in Affected : Left(d)' = Left(d)
    <2>1. SUFFICES ASSUME NEW d \in Affected PROVE Left(d)' = Left(d)
      OBVIOUS
    <2>2. Arcs(d)' = Arcs(d)
      BY <1>1, <1>6 DEF Arcs, Out
    <2>3. \A a \in Arcs(d) : a[2] >= 1
      <3>1. SUFFICES ASSUME NEW a \in Arcs(d) PROVE a[2] >= 1
        OBVIOUS
      <3>2. d \in Datasets /\ a = <<a[1], a[2]>>
        BY <1>2, AffectedIs, ArcsAre
      <3>3. a[1] \in Datasets /\ a[2] \in DOMAIN Out(a[1])
        BY <1>2, <3>2, AffectedIs, ArcsAre
      <3>4. a[2] \in 1 .. Len(Out(a[1])) /\ Len(Out(a[1])) \in Nat
        BY <1>2, <3>3, EdgeTargets
      <3> QED BY <3>4
    <2>4. \A a \in Arcs(d) : (a[1] \notin Members(order') \/ (pc' = "relax" /\ a[1] = cur' /\ a[2] >= next'))
                             <=> (a[1] \notin Members(order) \/ (pc = "relax" /\ a[1] = cur /\ a[2] >= next))
      BY <1>1, <1>4, <1>5, <2>3
    <2> QED BY <2>2, <2>4 DEF Left
  <1>8. InputsEarlier'
    <2>1. \A s \in Affected \ {d0} : d0 \in Succ(s) => s \in Members(order)
      <3>1. SUFFICES ASSUME NEW s \in Affected \ {d0}, d0 \in Succ(s), s \notin Members(order) PROVE FALSE
        OBVIOUS
      <3>2. PICK i \in DOMAIN Out(s) : Out(s)[i].dst = d0
        BY <3>1 DEF Succ
      <3>3. <<s, i>> \in Arcs(d0)
        BY <1>2, <1>3, <3>2, ArcsAre
      <3>4. <<s, i>> \in Left(d0)
        BY <3>1, <3>3 DEF Left
      <3>5. Left(d0) = {}
        BY <1>1, <1>3, <1>4 DEF OrderInv, KahnOK
      <3> QED BY <3>4, <3>5
    <2>2. \A s : Succ(s)' = Succ(s)
      BY <1>1 DEF Succ, Out
    <2>3. SUFFICES ASSUME NEW j \in DOMAIN order', NEW s \in Affected \ {order'[j]},
                          order'[j] \in Succ(s)
                   PROVE  \E i \in 1 .. j - 1 : order'[i] = s
      BY <1>6, <2>2 DEF InputsEarlier
    <2>4. CASE j = Len(order) + 1
      <3>1. PICK i \in DOMAIN order : order[i] = s
        BY <1>5, <2>1, <2>3, <2>4 DEF Members
      <3>2. i \in 1 .. j - 1 /\ order'[i] = s
        BY <1>5, <2>4, <3>1
      <3> QED BY <3>2
    <2>5. CASE j \in DOMAIN order
      <3>1. order'[j] = order[j]
        BY <1>5, <2>5
      <3>2. PICK i \in 1 .. j - 1 : order[i] = s
        BY <1>1, <2>3, <2>5, <3>1 DEF OrderInv, KahnOK, InputsEarlier
      <3>3. i \in DOMAIN order
        BY <1>5, <2>5, <3>2
      <3> QED BY <1>5, <3>2, <3>3
    <2> QED BY <1>5, <2>4, <2>5
  <1>9. OrderTypeOK'
    BY <1>1, <1>3, <1>5 DEF OrderInv, OrderTypeOK
  <1>10. KahnOK'
    <2>1. \A d \in Affected : indegree[d] = Cardinality(Left(d)) /\ (Left(d) = {} <=> d \in Members(ready) \cup Members(order))
      BY <1>1 DEF OrderInv, KahnOK
    <2>2. Members(ready) \cap Members(order) = {} /\ Members(ready) \cup Members(order) \subseteq Affected
      BY <1>1 DEF OrderInv, KahnOK
    <2>3. Members(ready') \cup Members(order') = Members(ready) \cup Members(order)
      BY <1>3, <1>5
    <2>4. \A d \in Affected : indegree'[d] = Cardinality(Left(d)') /\ (Left(d)' = {} <=> d \in Members(ready') \cup Members(order'))
      BY <1>1, <1>7, <2>1, <2>3
    <2>5. Members(ready') \cap Members(order') = {}
      BY <1>3, <1>5, <2>2
    <2>6. Members(ready') \cup Members(order') \subseteq Affected' /\ cur' \in Members(order')
      BY <1>1, <1>5, <1>6, <2>2, <2>3
    <2> QED BY <1>3, <1>5, <1>6, <1>8, <2>4, <2>5, <2>6 DEF KahnOK
  <1> QED BY <1>1, <1>9, <1>10 DEF NotBegun, BuildsDependenciesFirst


LEMMA RelaxStep ==
  ASSUME OrderInv, Relax
  PROVE  OrderTypeOK' /\ NotBegun' /\ KahnOK' /\ BuildsDependenciesFirst'
  <1>1. /\ pc = "relax" /\ pc' = "relax" /\ next <= Len(Out(cur)) /\ next' = next + 1
        /\ UNCHANGED <<graph, seeds, onCycle, dirty, cyclic, cur, order>>
    BY DEF Relax
  <1>2. /\ InputOK /\ ready \in Seq(Datasets) /\ cur \in Datasets /\ next \in Nat \ {0}
        /\ indegree \in [Datasets -> Nat]
    BY DEF OrderInv, IInv, OrderTypeOK, WorklistTypeOK
  <1>3. next \in DOMAIN Out(cur) /\ Dst \in Datasets
    BY <1>1, <1>2, CurrentEdge DEF OrderInv, IInv
  <1>4. Affected' = Affected /\ cur \in Affected /\ cur \in Members(order)
    BY <1>1 DEF Affected, OrderInv, KahnOK
  <1>5. \A d \in Datasets : Left(d)' = Left(d) \ {<<cur, next>>}
    <2>1. SUFFICES ASSUME NEW d \in Datasets PROVE Left(d)' = Left(d) \ {<<cur, next>>}
      OBVIOUS
    <2>2. Arcs(d)' = Arcs(d)
      BY <1>1, <1>4 DEF Arcs, Out
    <2>3. \A a \in Arcs(d) : a = <<a[1], a[2]>>
      BY <1>2, ArcsAre
    <2>4. \A a \in Arcs(d) : a[1] = cur => a[2] \in Nat
      <3>1. SUFFICES ASSUME NEW a \in Arcs(d), a[1] = cur PROVE a[2] \in Nat
        OBVIOUS
      <3>2. a[2] \in DOMAIN Out(cur)
        BY <1>2, <2>3, <3>1, ArcsAre
      <3> QED BY <1>2, <3>2, EdgeTargets
    <2>5. \A a \in Arcs(d) : a[1] = cur => (a[2] >= next + 1 <=> a[2] >= next /\ a[2] # next)
      BY <1>2, <2>4
    <2>6. \A a \in Arcs(d) : a \in Left(d)' <=> a \in Left(d) /\ a # <<cur, next>>
      <3>1. SUFFICES ASSUME NEW a \in Arcs(d) PROVE a \in Left(d)' <=> a \in Left(d) /\ a # <<cur, next>>
        OBVIOUS
      <3>2. a \in Left(d)' <=> a[1] \notin Members(order) \/ (a[1] = cur /\ a[2] >= next + 1)
        BY <1>1, <2>2 DEF Left
      <3>3. a \in Left(d) <=> a[1] \notin Members(order) \/ (a[1] = cur /\ a[2] >= next)
        BY <1>1 DEF Left
      <3>4. a # <<cur, next>> <=> a[1] # cur \/ a[2] # next
        BY <2>3
      <3> QED BY <1>4, <2>5, <3>2, <3>3, <3>4
    <2>7. Left(d)' \subseteq Arcs(d) /\ Left(d) \subseteq Arcs(d)
      BY <2>2 DEF Left
    <2> QED BY <2>6, <2>7
  <1>6. \A d \in Datasets : <<cur, next>> \in Left(d) <=> d = Dst /\ d # cur
    <2>1. SUFFICES ASSUME NEW d \in Datasets PROVE <<cur, next>> \in Left(d) <=> d = Dst /\ d # cur
      OBVIOUS
    <2>2. <<cur, next>> \in Arcs(d) <=> d = Dst /\ d # cur
      BY <1>2, <1>3, <1>4, ArcsAre DEF Dst, Edge
    <2> QED BY <1>1, <1>2, <2>2 DEF Left
  <1>7. \A d \in Datasets : IsFiniteSet(Left(d)) /\ Cardinality(Left(d)) \in Nat
    BY <1>2, LeftFinite, FS_CardinalityType
  <1>8. /\ Distinct(ready) /\ Distinct(order) /\ Members(ready) \cap Members(order) = {}
        /\ Members(ready) \cup Members(order) \subseteq Affected
        /\ \A d \in Affected : /\ indegree[d] = Cardinality(Left(d))
                               /\ Left(d) = {} <=> d \in Members(ready) \cup Members(order)
    BY <1>1 DEF OrderInv, KahnOK
  <1>9. InputsEarlier'
    <2>1. \A s : Succ(s)' = Succ(s)
      BY <1>1 DEF Succ, Out
    <2>2. InputsEarlier
      BY <1>1 DEF OrderInv, KahnOK
    <2> QED BY <1>1, <1>4, <2>1, <2>2 DEF InputsEarlier
  <1>10. CASE ~(Dst \in Affected /\ Dst # cur)
    <2>1. UNCHANGED <<indegree, ready>>
      BY <1>10 DEF Relax
    <2>2. \A d \in Affected : Left(d)' = Left(d)
      BY <1>5, <1>6, <1>10, AffectedIs
    <2>3. OrderTypeOK'
      BY <1>1, <2>1 DEF OrderInv, OrderTypeOK
    <2>4. KahnOK'
      BY <1>1, <1>4, <1>8, <1>9, <2>1, <2>2 DEF KahnOK
    <2> QED BY <1>1, <2>3, <2>4 DEF NotBegun, BuildsDependenciesFirst
  <1>11. CASE Dst \in Affected /\ Dst # cur
    <2>1. PICK x \in Datasets : x = Dst
      BY <1>3
    <2>2. /\ indegree' = [indegree EXCEPT ![x] = @ - 1]
          /\ ready' = IF indegree[x] = 1 THEN Append(ready, x) ELSE ready
      BY <1>11, <2>1 DEF Relax
    <2>3. <<cur, next>> \in Left(x) /\ x \in Affected
      BY <1>6, <1>11, <2>1
    <2>4. Cardinality(Left(x)') = Cardinality(Left(x)) - 1 /\ IsFiniteSet(Left(x)')
      <3>1. Left(x)' = Left(x) \ {<<cur, next>>}
        BY <1>5
      <3> QED BY <1>7, <2>3, <3>1, FS_RemoveElement
    <2>5. \A d \in Affected \ {x} : Left(d)' = Left(d)
      BY <1>5, <1>6, <2>1, AffectedIs
    <2>6. x \notin Members(ready) \cup Members(order) /\ indegree[x] = Cardinality(Left(x))
      BY <1>8, <2>3
    <2>7. Left(x)' = {} <=> indegree[x] = 1
      BY <1>7, <2>4, <2>6, FS_EmptySet, FS_CardinalityType
    <2>8. indegree[x] - 1 \in Nat
      BY <1>7, <2>4, <2>6, FS_CardinalityType
    <2>9. \A d \in Affected : indegree'[d] = Cardinality(Left(d)')
      BY <1>2, <1>8, <2>2, <2>4, <2>5, <2>6, AffectedIs
    <2>10. OrderTypeOK'
      <3>1. indegree' \in [Datasets -> Nat]
        BY <1>2, <2>2, <2>8
      <3>2. ready' \in Seq(Datasets)
        BY <1>2, <2>2, AppendIs
      <3> QED BY <1>1, <3>1, <3>2 DEF OrderInv, OrderTypeOK
    <2>11. CASE indegree[x] = 1
      <3>1. /\ Members(ready') = Members(ready) \cup {x} /\ Distinct(ready')
        BY <1>2, <1>8, <2>2, <2>6, <2>11, AppendIs
      <3>2. \A d \in Affected : Left(d)' = {} <=> d \in Members(ready') \cup Members(order)
        BY <1>8, <2>5, <2>7, <2>11, <3>1
      <3>3. Members(ready') \cap Members(order) = {} /\ Members(ready') \cup Members(order) \subseteq Affected
        BY <1>8, <2>3, <2>6, <3>1
      <3> QED BY <1>1, <1>4, <1>8, <1>9, <2>9, <2>10, <3>1, <3>2, <3>3
        DEF KahnOK, NotBegun, BuildsDependenciesFirst
    <2>12. CASE indegree[x] # 1
      <3>1. ready' = ready
        BY <2>2, <2>12
      <3>2. \A d \in Affected : Left(d)' = {} <=> d \in Members(ready') \cup Members(order)
        BY <1>8, <2>3, <2>5, <2>6, <2>7, <2>12, <3>1
      <3> QED BY <1>1, <1>4, <1>8, <1>9, <2>9, <2>10, <3>1, <3>2
        DEF KahnOK, NotBegun, BuildsDependenciesFirst
    <2> QED BY <2>11, <2>12
  <1> QED BY <1>10, <1>11


LEMMA RelaxedStep ==
  ASSUME OrderInv, Relaxed
  PROVE  OrderTypeOK' /\ NotBegun' /\ KahnOK' /\ BuildsDependenciesFirst'
  <1>1. /\ pc = "relax" /\ pc' = "order" /\ next > Len(Out(cur))
        /\ UNCHANGED <<graph, seeds, onCycle, dirty, cyclic, cur, next, indegree, ready, order>>
    BY DEF Relaxed
  <1>2. InputOK /\ cur \in Datasets /\ next \in Nat
    BY DEF OrderInv, IInv, OrderTypeOK, WorklistTypeOK
  <1>3. Affected' = Affected /\ InputsEarlier'
    BY <1>1 DEF Affected, OrderInv, KahnOK, InputsEarlier, Succ, Out
  <1>4. \A d \in Affected : Left(d)' = Left(d)
    <2>1. SUFFICES ASSUME NEW d \in Affected PROVE Left(d)' = Left(d)
      OBVIOUS
    <2>2. Arcs(d)' = Arcs(d)
      BY <1>1, <1>3 DEF Arcs, Out
    <2>3. \A a \in Arcs(d) : ~(a[1] = cur /\ a[2] >= next)
      <3>1. SUFFICES ASSUME NEW a \in Arcs(d), a[1] = cur PROVE ~(a[2] >= next)
        OBVIOUS
      <3>2. a[2] \in DOMAIN Out(cur)
        BY <1>2, <3>1, AffectedIs, ArcsAre
      <3>3. a[2] \in 1 .. Len(Out(cur)) /\ Len(Out(cur)) \in Nat
        BY <1>2, <3>2, EdgeTargets
      <3> QED BY <1>1, <1>2, <3>3
    <2> QED BY <1>1, <2>2, <2>3 DEF Left
  <1> QED BY <1>1, <1>3, <1>4
    DEF OrderInv, OrderTypeOK, NotBegun, KahnOK, BuildsDependenciesFirst

LEMMA FinishStep ==
  ASSUME OrderInv, Finish
  PROVE  OrderTypeOK' /\ NotBegun' /\ KahnOK' /\ BuildsDependenciesFirst'
  <1> DEFINE R == Affected \ Members(order)
             last == InNameOrder(R)
  <1>1. /\ pc = "order" /\ pc' = "done" /\ ready = << >>
        /\ order' = order \o last /\ cyclic' = cyclic \cup R
        /\ UNCHANGED <<graph, seeds, onCycle, dirty, cur, indegree, ready>>
    BY DEF Finish, Emitted, Members
  <1>2. InputOK /\ order \in Seq(Datasets) /\ R \in SUBSET Datasets
    BY AffectedIs DEF OrderInv, IInv, OrderTypeOK
  <1>3. /\ Distinct(order) /\ Members(order) \subseteq Affected /\ InputsEarlier
        /\ \A d \in R : Left(d) # {}
    <2>1. Members(ready) = {}
      BY <1>1 DEF Members
    <2> QED BY <1>1, <2>1 DEF OrderInv, KahnOK
  <1>4. last \in Seq(Datasets) /\ Members(last) = R /\ Distinct(last)
    <2> HIDE DEF R
    <2> QED BY <1>2, SortedIs DEF Members, Distinct
  <1>5. \A d \in R : ~Acyclic(d)
    <2>1. ASSUME NEW d \in R PROVE \E s \in R \ {d} : d \in Succ(s)
      <3>1. PICK a \in Left(d) : TRUE
        BY <1>3
      <3>2. a \in Arcs(d) /\ a[1] \notin Members(order)
        BY <1>1, <3>1 DEF Left
      <3>3. a = <<a[1], a[2]>>
        BY <1>2, <3>2, ArcsAre
      <3>4. a[1] \in Affected \ {d} /\ a[2] \in DOMAIN Out(a[1]) /\ Out(a[1])[a[2]].dst = d
        BY <1>2, <3>2, <3>3, ArcsAre
      <3> QED BY <3>2, <3>4 DEF Succ
    <2> HIDE DEF R
    <2>2. CyclesKnown
      BY DEF OrderInv
    <2> QED BY <1>2, <2>1, <2>2, HeldBackByCycles
  <1> HIDE DEF R, last
  <1>6. /\ order' \in Seq(Datasets)
        /\ DOMAIN order = 1 .. Len(order) /\ Len(order) \in Nat
        /\ \A i \in DOMAIN order : i \in DOMAIN order' /\ order'[i] = order[i]
        /\ \A i \in DOMAIN order' : i \in DOMAIN order \/ order'[i] \in R
        /\ Members(order') = Members(order) \cup R
        /\ Distinct(order')
    <2>1. Members(order) \cap R = {}
      BY DEF R
    <2> QED BY <1>1, <1>2, <1>3, <1>4, <2>1, JoinIs
  <1>7. /\ Affected' = Affected /\ Members(order') = Affected
        /\ (\A d : Succ(d)' = Succ(d)) /\ (\A d : Acyclic(d)' <=> Acyclic(d))
    BY <1>1, <1>3, <1>6 DEF R, Affected, Succ, Out, Acyclic
  <1>8. Len(order') = Cardinality(Affected)
    BY <1>6, <1>7, DistinctLength
  <1>9. ASSUME NEW i \in DOMAIN order', NEW j \in DOMAIN order',
               Acyclic(order'[j]), order'[j] \in Succ(order'[i])
        PROVE  i < j
    <2>1. order'[i] \in Datasets /\ order'[j] \in Datasets
      BY <1>6
    <2>2. j \in DOMAIN order /\ order'[j] = order[j]
      BY <1>5, <1>6, <1>9
    <2>3. order'[i] # order'[j]
      <3>1. SUFFICES ASSUME order'[i] = order'[j] PROVE FALSE
        OBVIOUS
      <3> DEFINE d == order'[j]
      <3>2. d \in Datasets /\ d \in Succ(d) /\ Succ(d) \in SUBSET Datasets
        BY <1>2, <1>9, <2>1, <3>1, Successors
      <3> HIDE DEF d
      <3>3. d \in Down(Succ(d)) /\ d \in Down({d})
        BY <1>2, <3>2, DownFacts
      <3>4. d \in onCycle
        BY <3>2, <3>3 DEF OrderInv, CyclesKnown, CyclicIn, Down, Succ, Out
      <3> QED BY <1>9, <3>3, <3>4 DEF Acyclic, Down, d
    <2>4. order'[i] \in Affected
      BY <1>7 DEF Members
    <2>5. PICK n \in 1 .. j - 1 : order[n] = order'[i]
      BY <1>3, <1>9, <2>2, <2>3, <2>4 DEF InputsEarlier
    <2>6. n \in DOMAIN order' /\ order'[n] = order'[i]
      BY <1>6, <2>2, <2>5
    <2>7. n = i
      BY <1>6, <2>6 DEF Distinct
    <2> QED BY <1>6, <2>2, <2>5, <2>7
  <1>10. BuildsDependenciesFirst'
    <2>1. Emitted' = Affected'
      BY <1>7 DEF Emitted, Members
    <2>2. graph' = graph /\ onCycle' = onCycle
      BY <1>1
    <2>3. \A i, j \in DOMAIN order' : Acyclic(order'[j]) /\ order'[j] \in Succ(order'[i]) => i < j
      BY <1>9
    <2> QED BY <1>7, <1>8, <2>1, <2>2, <2>3 DEF BuildsDependenciesFirst, Acyclic, Succ, Out
  <1>11. OrderTypeOK'
    BY <1>1, <1>2, <1>6 DEF OrderInv, OrderTypeOK
  <1> QED BY <1>1, <1>10, <1>11 DEF NotBegun, KahnOK


LEMMA InitOrder == Init => OrderInv
  <1> SUFFICES ASSUME Init PROVE OrderInv
    OBVIOUS
  <1>1. IInv
    BY InitInv
  <1>2. ByName[1] \in Datasets
    <2>1. /\ Datasets # {} /\ ByName \in Seq(Datasets)
          /\ Datasets = {ByName[i] : i \in DOMAIN ByName}
      BY PlannerAssumption DEF PlannerAssumption
    <2>2. Len(ByName) \in Nat /\ DOMAIN ByName = 1 .. Len(ByName) /\ DOMAIN ByName # {}
      BY <2>1
    <2>3. 1 \in DOMAIN ByName
      BY <2>2
    <2> QED BY <2>1, <2>3
  <1>3. OrderTypeOK
    BY <1>2 DEF Init, OrderTypeOK
  <1> QED BY <1>1, <1>3 DEF Init, OrderInv, CyclesKnown, NotBegun, KahnOK, BuildsDependenciesFirst

\* cyclic and the dataset in hand, before the order is begun.
LEMMA CyclicStep ==
  ASSUME OrderInv, [Next]_vars, ~(StartOrder \/ Emit \/ Relax \/ Relaxed \/ Finish)
  PROVE  cyclic' \subseteq Datasets /\ cur' \in Datasets
  <1>1. InputOK /\ WorklistTypeOK /\ cyclic \subseteq Datasets /\ cur \in Datasets
    BY DEF OrderInv, IInv, OrderTypeOK
  <1>2. CASE \E d \in Datasets : TakeSeed(d)
    BY <1>1, <1>2 DEF TakeSeed
  <1>3. CASE Pop
    <2>1. cur' = Head(queue) /\ queue # << >> /\ cyclic' = cyclic
      BY <1>3 DEF Pop
    <2>2. Head(queue) \in Datasets
      BY <1>1, <2>1 DEF WorklistTypeOK
    <2> QED BY <1>1, <2>1, <2>2
  <1>4. CASE Widen
    <2>1. cyclic' = cyclic \cup {Dst} /\ cur' = cur /\ pc = "absorb"
      BY <1>4 DEF Widen
    <2>2. next <= Len(Out(cur))
      BY <1>1, <2>1 DEF WorklistTypeOK
    <2> QED BY <1>1, <2>1, <2>2, CurrentEdge
  <1>5. CASE ~((\E d \in Datasets : TakeSeed(d)) \/ Pop \/ Widen)
    <2>1. cyclic' = cyclic /\ cur' = cur
      BY <1>5 DEF Next, Absorb, SeedAbsorbed, AllSeeded, NoMoreEdges, SkipForced, TakeEdge,
        Unchanged, Enlarge
    <2> QED BY <1>1, <2>1
  <1> QED BY <1>2, <1>3, <1>4, <1>5

LEMMA OrderStep == OrderInv /\ [Next]_vars => OrderInv'
  <1> SUFFICES ASSUME OrderInv, [Next]_vars PROVE OrderInv'
    OBVIOUS
  <1>1. IInv'
    BY StepInv DEF OrderInv
  <1>2. CyclesKnown'
    BY InputStep DEF OrderInv, CyclesKnown
  <1>3. OrderTypeOK' /\ NotBegun' /\ KahnOK' /\ BuildsDependenciesFirst'
    <2>1. CASE StartOrder
      BY <2>1, StartOrderStep
    <2>2. CASE Emit
      BY <2>2, EmitStep
    <2>3. CASE Relax
      BY <2>3, RelaxStep
    <2>4. CASE Relaxed
      BY <2>4, RelaxedStep
    <2>5. CASE Finish
      BY <2>5, FinishStep
    <2>6. CASE UNCHANGED vars
      <3>1. OrderTypeOK' /\ NotBegun'
        BY <2>6 DEF OrderInv, OrderTypeOK, NotBegun
      <3>2. Affected' = Affected /\ InputsEarlier' = InputsEarlier /\ \A d : Left(d)' = Left(d)
        BY <2>6 DEF InputsEarlier, Succ, Left, Arcs, Affected, Out, Members
      <3>3. KahnOK'
        BY <2>6, <3>2 DEF OrderInv, KahnOK
      <3>4. BuildsDependenciesFirst'
        BY <2>6, <3>2 DEF OrderInv, BuildsDependenciesFirst, Emitted, Acyclic, Out
      <3> QED BY <3>1, <3>3, <3>4
    <2>7. CASE ~(StartOrder \/ Emit \/ Relax \/ Relaxed \/ Finish) /\ ~UNCHANGED vars
      <3>1. /\ UNCHANGED <<indegree, ready, order>>
            /\ {pc, pc'} \cap {"order", "relax", "done"} = {}
        BY <2>7, OrderKept
      <3>2. cyclic' \subseteq Datasets /\ cur' \in Datasets
        BY <2>7, CyclicStep
      <3> QED BY <3>1, <3>2 DEF OrderInv, OrderTypeOK, NotBegun, KahnOK, BuildsDependenciesFirst
    <2> QED BY <2>1, <2>2, <2>3, <2>4, <2>5, <2>6, <2>7
  <1> QED BY <1>1, <1>2, <1>3 DEF OrderInv

\* Every loop of invalidate, those of _rebuild_order included, stays in the graph: no count of
\* inputs goes below zero.
THEOREM TypeCorrect == Spec => []TypeOK
  <1>1. OrderInv => TypeOK
    BY DEF OrderInv, IInv, TypeOK
  <1> QED BY <1>1, InitOrder, OrderStep, PTL DEF Spec

\* Whatever the graph, _rebuild_order lists each affected dataset once, and away from cycles
\* after every dataset it is built from.
THEOREM BuildOrder == Spec => []BuildsDependenciesFirst
  <1>1. OrderInv => BuildsDependenciesFirst
    BY DEF OrderInv
  <1> QED BY <1>1, InitOrder, OrderStep, PTL DEF Spec


\* Planner.ToldAndInOrder, checked by TLC on small graphs, for every graph.
THEOREM PlanCanBeReadAndRun == Spec => []ToldAndInOrder
  BY WideningIsTold, BuildOrder, PTL DEF ToldAndInOrder

=============================================================================
