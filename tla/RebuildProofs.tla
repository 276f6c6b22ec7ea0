--------------------------- MODULE RebuildProofs ---------------------------
(***************************************************************************)
(* Proofs about Rebuild for every plan, every batch size and any number of *)
(* failures: the waves stay within the plan, the batches hold each of its  *)
(* partitions once, and with task dependencies none starts before those of *)
(* its inputs have succeeded.                                              *)
(***************************************************************************)
EXTENDS Rebuild, Rounds

-----------------------------------------------------------------------------
(* What the assumptions say of one plan. *)

Length == Len(plan.order)

LEMMA PlanFacts ==
  ASSUME plan \in Plans
  PROVE  /\ Length \in Nat \ {0}
         /\ DOMAIN plan.order = 1 .. Length
         /\ Affected = {plan.order[i] : i \in 1 .. Length}
         /\ \A i, j \in 1 .. Length : plan.order[i] = plan.order[j] => i = j
         /\ \A i, j \in 1 .. Length :
              plan.order[j] \in Acyclic /\ plan.order[i] \in PlanParents(plan.order[j]) => i < j
  <1> DEFINE pl == plan
  <1>1. /\ DOMAIN pl.order = 1 .. Len(pl.order) /\ Len(pl.order) \in Nat \ {0}
        /\ {pl.order[i] : i \in DOMAIN pl.order} = AffectedBy(pl)
        /\ \A i, j \in DOMAIN pl.order : pl.order[i] = pl.order[j] => i = j
        /\ \A i, j \in DOMAIN pl.order :
             pl.order[j] \in AcyclicIn(pl) /\ pl.order[i] \in ParentsIn(pl, pl.order[j]) => i < j
    BY RebuildAssumption
  <1> QED BY <1>1 DEF Length, Affected, PlanParents, Acyclic

\* Only datasets of the plan count as inputs or as acyclic.
LEMMA OnlyAffected ==
  /\ Affected \subseteq Datasets
  /\ Acyclic \subseteq Affected
  /\ \A d : PlanParents(d) \subseteq Affected
  BY DEF Affected, AffectedBy, Acyclic, AcyclicIn, PlanParents, ParentsIn

\* Every dataset of the plan has a batch, and every batch is of one.
LEMMA BatchPerDataset ==
  /\ \A d \in Affected : \E b \in BatchesIn(plan) : b.dataset = d
  /\ \A b \in BatchesIn(plan) : b.dataset \in Affected
  <1> DEFINE sets(d) == {[dataset |-> d, keys |-> b] : b \in BatchesOf(plan.dirty[d], MaxBatch)}
  <1>1. ASSUME NEW d \in Affected PROVE \E b \in BatchesIn(plan) : b.dataset = d
    <2>1. PICK k \in plan.dirty[d] : TRUE
      BY DEF Affected, AffectedBy
    <2> DEFINE batch == {j \in plan.dirty[d] : Together(plan.dirty[d], j, k, MaxBatch)}
    <2>2. batch \in BatchesOf(plan.dirty[d], MaxBatch)
      BY <2>1 DEF BatchesOf
    <2> HIDE DEF batch
    <2>3. [dataset |-> d, keys |-> batch] \in sets(d)
      BY <2>2
    <2>4. [dataset |-> d, keys |-> batch] \in BatchesIn(plan)
      BY <2>3, <1>1 DEF BatchesIn, Affected
    <2> QED BY <2>4
  <1>2. ASSUME NEW b \in BatchesIn(plan) PROVE b.dataset \in Affected
    <2>1. PICK d \in Affected : b \in sets(d)
      BY <1>2 DEF BatchesIn, Affected
    <2>2. PICK s \in BatchesOf(plan.dirty[d], MaxBatch) : b = [dataset |-> d, keys |-> s]
      BY <2>1
    <2> QED BY <2>1, <2>2
  <1> QED BY <1>1, <1>2

\* A plan has no more datasets than its order has places.
LEMMA OrderHoldsThemAll ==
  ASSUME plan \in Plans
  PROVE  IsFiniteSet(Affected) /\ Cardinality(Affected) \in Nat /\ Cardinality(Affected) <= Length
  <1> DEFINE f == [i \in 1 .. Length |-> plan.order[i]]
  <1>1. Length \in Nat /\ Affected = {plan.order[i] : i \in 1 .. Length}
    BY PlanFacts
  <1>2. IsFiniteSet(1 .. Length) /\ Cardinality(1 .. Length) = Length
    BY <1>1, FS_Interval
  <1>3. f \in Surjection(1 .. Length, Affected)
    BY <1>1 DEF Surjection
  <1> HIDE DEF f
  <1>4. IsFiniteSet(Affected) /\ Cardinality(Affected) <= Cardinality(1 .. Length)
    BY <1>2, <1>3, FS_Surjection
  <1> QED BY <1>2, <1>4, FS_CardinalityType

-----------------------------------------------------------------------------
(* The inductive invariant. *)

Typed ==
  /\ plan \in Plans /\ flavor \in Flavors
  /\ next \in 1 .. Length + 1 /\ placed \in [Datasets -> Nat]
  /\ grouped \subseteq Affected /\ wave \in [Datasets -> Nat] /\ count \in Nat
  /\ status \in [BatchesIn(plan) -> Statuses]
  /\ failures \in 0 .. MaxFailures /\ pc \in {"place", "group", "run"}

\* Nobody is deeper than its place, and an acyclic dataset is deeper than its inputs.
Deep ==
  /\ \A d \in Datasets : placed[d] < next
  /\ \A j \in 1 .. Length : j < next /\ plan.order[j] \in Acyclic =>
       \A p \in PlanParents(plan.order[j]) : placed[p] < placed[plan.order[j]]

\* The waves so far hold the least depths, in order, none of them empty.
Waved ==
  /\ \A d \in Datasets \ grouped : wave[d] = 0
  /\ \A d \in grouped : wave[d] < count
  /\ \A d, e \in grouped : placed[d] < placed[e] => wave[d] < wave[e]
  /\ \A d \in grouped, e \in Affected \ grouped : placed[d] < placed[e]
  /\ \A w \in 0 .. count - 1 : \E d \in grouped : wave[d] = w
  /\ count <= Cardinality(grouped)

\* The three parts run one after the other.
Phased ==
  /\ pc = "place" => grouped = {}
  /\ pc # "place" => next = Length + 1
  /\ pc = "run" => grouped = Affected
  /\ pc # "run" => \A b \in Batches : status[b] = "waiting"

\* What started has every earlier wave behind it.
Behind ==
  \A b, c \in Batches : Started(b) /\ wave[c.dataset] < wave[b.dataset] => status[c] = "ok"

PlacingInv == Typed /\ Deep /\ Waved /\ Phased

-----------------------------------------------------------------------------
(* The scheduler establishes and keeps it. *)

LEMMA InitSchedule == Init => PlacingInv /\ Behind
  <1> SUFFICES ASSUME Init PROVE PlacingInv /\ Behind
    OBVIOUS
  <1>1. Length \in Nat \ {0}
    BY PlanFacts DEF Init
  <1>2. Typed
    BY <1>1, RebuildAssumption DEF Init, Typed, Statuses
  <1>3. Deep
    BY <1>1 DEF Init, Deep
  <1>4. Waved
    BY FS_EmptySet DEF Init, Waved
  <1>5. Phased /\ Behind
    BY DEF Init, Phased, Behind, Batches, Started
  <1> QED BY <1>2, <1>3, <1>4, <1>5 DEF PlacingInv

\* What no action changes.
LEMMA Unchanging ==
  ASSUME Next
  PROVE  /\ plan' = plan /\ flavor' = flavor
         /\ Affected' = Affected /\ Length' = Length /\ Acyclic' = Acyclic
         /\ \A d : PlanParents(d)' = PlanParents(d)
  <1>1. plan' = plan /\ flavor' = flavor
    BY DEF Next, Progress, Schedule, Place, AllPlaced, AddWave, AllGrouped, Start, Succeed, Fail, Retry
  <1>2. Affected' = Affected /\ Length' = Length
    BY <1>1 DEF Affected, AffectedBy, Length
  <1>3. Acyclic' = Acyclic
    BY <1>1 DEF Acyclic, AcyclicIn, AffectedBy, AllAbove, OnCycleIn, ParentsIn
  <1>4. \A d : PlanParents(d)' = PlanParents(d)
    BY <1>1 DEF PlanParents, ParentsIn, AffectedBy
  <1> QED BY <1>1, <1>2, <1>3, <1>4

\* The depth Place gives is above every input's and at most the place in the order.
LEMMA DepthOfPlaced ==
  ASSUME Typed, Deep, NEW d \in Datasets, NEW depth \in DepthsFound(d),
         \A other \in DepthsFound(d) : other <= depth
  PROVE  depth \in Nat /\ depth <= next /\ \A p \in PlanParents(d) : placed[p] < depth
  <1>1. Length \in Nat \ {0} /\ next \in Nat /\ next >= 1
    BY PlanFacts DEF Typed
  <1>2. \A p \in PlanParents(d) : p \in Datasets /\ placed[p] \in Nat /\ placed[p] < next
    BY OnlyAffected DEF Typed, Deep
  <1>3. \A o \in DepthsFound(d) : o \in Nat /\ o <= next
    BY <1>1, <1>2 DEF DepthsFound
  <1>4. ASSUME NEW p \in PlanParents(d) PROVE placed[p] < depth
    <2>1. placed[p] + 1 \in DepthsFound(d)
      BY DEF DepthsFound
    <2> QED BY <2>1, <1>2, <1>3
  <1> QED BY <1>3, <1>4

LEMMA PlaceKeeps == ASSUME PlacingInv, Place PROVE PlacingInv'
  <1> DEFINE d == plan.order[next]
  <1> USE Unchanging DEF Next, Progress, Schedule
  <1>1. /\ Length \in Nat \ {0} /\ next \in 1 .. Length
        /\ Affected = {plan.order[i] : i \in 1 .. Length}
        /\ \A i, j \in 1 .. Length : plan.order[i] = plan.order[j] => i = j
        /\ \A i, j \in 1 .. Length :
             plan.order[j] \in Acyclic /\ plan.order[i] \in PlanParents(plan.order[j]) => i < j
    BY PlanFacts DEF PlacingInv, Typed, Place
  <1>2. d \in Datasets /\ d \in Affected
    BY <1>1, OnlyAffected
  <1>3. PICK depth \in DepthsFound(d) :
          /\ \A other \in DepthsFound(d) : other <= depth
          /\ placed' = [placed EXCEPT ![d] = depth]
    BY DEF Place
  <1>4. depth \in Nat /\ depth <= next /\ \A p \in PlanParents(d) : placed[p] < depth
    BY <1>2, <1>3, DepthOfPlaced DEF PlacingInv
  <1>5. /\ next' = next + 1 /\ pc = "place" /\ pc' = pc /\ grouped' = grouped /\ wave' = wave
        /\ count' = count /\ status' = status /\ failures' = failures /\ plan' = plan
        /\ flavor' = flavor /\ grouped = {}
    BY DEF Place, PlacingInv, Phased
  <1>6. placed' \in [Datasets -> Nat] /\ placed'[d] = depth
          /\ \A e \in Datasets \ {d} : placed'[e] = placed[e]
    BY <1>2, <1>3, <1>4 DEF PlacingInv, Typed
  <1>7. Typed'
    <2>1. next' \in 1 .. Length' + 1
      BY <1>1, <1>5
    <2> QED BY <2>1, <1>5, <1>6 DEF PlacingInv, Typed, BatchesIn, AffectedBy
  <1>8. Deep'
    <2>1. \A e \in Datasets : placed'[e] < next'
      BY <1>1, <1>4, <1>5, <1>6 DEF PlacingInv, Deep, Typed
    <2>2. ASSUME NEW j \in 1 .. Length, j < next', plan.order[j] \in Acyclic,
                 NEW p \in PlanParents(plan.order[j])
          PROVE  placed'[p] < placed'[plan.order[j]]
      <3>1. PICK i \in 1 .. Length : plan.order[i] = p
        BY <1>1, OnlyAffected
      <3>2. i < j /\ j <= next
        BY <1>1, <1>5, <2>2, <3>1
      <3>3. p # d /\ p \in Datasets /\ placed'[p] = placed[p]
        BY <1>1, <1>6, <3>1, <3>2, OnlyAffected
      <3>4. CASE j = next
        BY <3>3, <3>4, <1>4, <1>6
      <3>5. CASE j # next
        <4>1. plan.order[j] # d /\ plan.order[j] \in Datasets
          BY <1>1, <3>5, OnlyAffected
        <4>2. placed[p] < placed[plan.order[j]]
          BY <3>2, <3>5, <1>1, <2>2 DEF PlacingInv, Deep
        <4> QED BY <4>1, <4>2, <3>3, <1>6
      <3> QED BY <3>4, <3>5
    <2> QED BY <2>1, <2>2, <1>5 DEF Deep
  <1>9. Waved'
    BY <1>5 DEF PlacingInv, Waved
  <1>10. Phased'
    BY <1>5 DEF PlacingInv, Phased, Batches
  <1> QED BY <1>7, <1>8, <1>9, <1>10 DEF PlacingInv

LEMMA AddWaveKeeps == ASSUME PlacingInv, AddWave PROVE PlacingInv'
  <1> USE Unchanging DEF Next, Progress, Schedule
  <1>1. PICK least \in Affected \ grouped :
          /\ \A d \in Affected \ grouped : placed[least] <= placed[d]
          /\ grouped' = grouped \cup {d \in Affected : placed[d] = placed[least]}
          /\ wave' = [d \in Datasets |->
                        IF d \in {e \in Affected : placed[e] = placed[least]}
                        THEN Index(placed[d]) ELSE wave[d]]
    BY DEF AddWave
  <1> DEFINE new == {d \in Affected : placed[d] = placed[least]}
  <1>2. /\ count' = count + 1 /\ pc = "group" /\ pc' = pc /\ placed' = placed /\ next' = next
        /\ status' = status /\ failures' = failures /\ plan' = plan /\ flavor' = flavor
    BY DEF AddWave
  <1>3. Affected \subseteq Datasets /\ grouped \subseteq Affected /\ count \in Nat
          /\ placed \in [Datasets -> Nat] /\ wave \in [Datasets -> Nat]
    BY OnlyAffected DEF PlacingInv, Typed
  <1>4. least \in new /\ new \subseteq Affected /\ new \cap grouped = {}
    BY <1>1, <1>3 DEF PlacingInv, Waved
  <1>5. grouped' = grouped \cup new
    BY <1>1
  <1>6. \A d \in new : wave'[d] = count
    BY <1>1, <1>3 DEF Index
  <1>7. \A d \in Datasets \ new : wave'[d] = wave[d]
    BY <1>1
  <1>8. wave' \in [Datasets -> Nat]
    BY <1>1, <1>3 DEF Index
  <1>9. \A d \in new : placed[d] = placed[least]
    OBVIOUS
  <1>10. \A d \in Affected \ grouped' : d \notin new /\ placed[least] < placed[d]
    BY <1>1, <1>3, <1>5
  <1> HIDE DEF new
  <1>11. Typed'
    BY <1>2, <1>3, <1>4, <1>5, <1>8 DEF PlacingInv, Typed, BatchesIn, AffectedBy
  <1>12. Deep'
    BY <1>2 DEF PlacingInv, Deep
  <1>13. Waved'
    <2>1. \A d \in Datasets \ grouped' : wave'[d] = 0
      BY <1>5, <1>7 DEF PlacingInv, Waved
    <2>2. \A d \in grouped : wave'[d] = wave[d] /\ wave[d] < count /\ wave[d] \in Nat
      BY <1>3, <1>4, <1>7 DEF PlacingInv, Waved
    <2>3. \A d \in grouped' : wave'[d] < count'
      BY <1>2, <1>3, <1>5, <1>6, <2>2
    <2>4. ASSUME NEW d \in grouped', NEW e \in grouped', placed'[d] < placed'[e]
          PROVE  wave'[d] < wave'[e]
      <3>1. CASE d \in grouped /\ e \in grouped
        BY <3>1, <2>4, <2>2, <1>2 DEF PlacingInv, Waved
      <3>2. CASE d \in grouped /\ e \in new
        BY <3>2, <2>2, <1>6
      <3>3. CASE d \in new /\ e \in grouped
        BY <3>3, <2>4, <1>2, <1>3, <1>4, <1>9 DEF PlacingInv, Waved
      <3>4. CASE d \in new /\ e \in new
        BY <3>4, <2>4, <1>2, <1>3, <1>4, <1>9
      <3> QED BY <3>1, <3>2, <3>3, <3>4, <1>5
    <2>5. ASSUME NEW d \in grouped', NEW e \in Affected \ grouped' PROVE placed[d] < placed[e]
      <3>1. CASE d \in grouped
        BY <3>1, <2>5, <1>5 DEF PlacingInv, Waved
      <3>2. CASE d \in new
        BY <3>2, <2>5, <1>9, <1>10
      <3> QED BY <3>1, <3>2, <1>5
    <2>6. ASSUME NEW w \in 0 .. count' - 1 PROVE \E d \in grouped' : wave'[d] = w
      <3>1. CASE w = count
        BY <3>1, <1>4, <1>5, <1>6
      <3>2. CASE w # count
        <4>1. w \in 0 .. count - 1
          BY <3>2, <1>2, <1>3
        <4>2. PICK d \in grouped : wave[d] = w
          BY <4>1 DEF PlacingInv, Waved
        <4> QED BY <4>2, <2>2, <1>5
      <3> QED BY <3>1, <3>2
    <2>7. count' <= Cardinality(grouped')
      <3>1. IsFiniteSet(Affected) /\ plan \in Plans
        BY OrderHoldsThemAll DEF PlacingInv, Typed
      <3>2. IsFiniteSet(grouped) /\ IsFiniteSet(grouped')
        BY <3>1, <1>3, <1>4, <1>5, FS_Subset
      <3>3. Cardinality(grouped \cup {least}) = Cardinality(grouped) + 1
        BY <3>2, <1>1, FS_AddElement
      <3>4. Cardinality(grouped \cup {least}) <= Cardinality(grouped')
        BY <3>2, <1>4, <1>5, FS_Subset
      <3>5. Cardinality(grouped) \in Nat /\ Cardinality(grouped') \in Nat
        BY <3>2, FS_CardinalityType
      <3>6. count <= Cardinality(grouped)
        BY DEF PlacingInv, Waved
      <3> QED BY <3>3, <3>4, <3>5, <3>6, <1>2, <1>3
    <2> QED BY <2>1, <2>3, <2>4, <2>5, <2>6, <2>7, <1>2 DEF Waved
  <1>14. Phased'
    BY <1>2 DEF PlacingInv, Phased, Batches
  <1> QED BY <1>11, <1>12, <1>13, <1>14 DEF PlacingInv

\* The turns between the parts.
LEMMA TurnKeeps == ASSUME PlacingInv, AllPlaced \/ AllGrouped PROVE PlacingInv'
  <1> USE Unchanging DEF Next, Progress, Schedule, scheduling
  <1>1. /\ plan' = plan /\ flavor' = flavor /\ next' = next /\ placed' = placed
        /\ grouped' = grouped /\ wave' = wave /\ count' = count /\ status' = status
        /\ failures' = failures
    BY DEF AllPlaced, AllGrouped
  <1>2. pc' \in {"group", "run"} /\ pc \in {"place", "group"}
          /\ (pc = "place" => next = Length + 1) /\ (pc' = "run" => grouped = Affected)
    <2>1. Length \in Nat \ {0} /\ DOMAIN plan.order = 1 .. Length
      BY PlanFacts DEF PlacingInv, Typed
    <2> QED BY <2>1 DEF AllPlaced, AllGrouped, PlacingInv, Typed
  <1>3. Typed'
    BY <1>1, <1>2 DEF PlacingInv, Typed, BatchesIn, AffectedBy
  <1>4. Deep' /\ Waved'
    BY <1>1 DEF PlacingInv, Deep, Waved
  <1>5. Phased'
    BY <1>1, <1>2 DEF PlacingInv, Phased, Batches
  <1> QED BY <1>3, <1>4, <1>5 DEF PlacingInv

\* What a batch does leaves the waves alone.
Batched(b) == Start(b) \/ Succeed(b) \/ Fail(b) \/ Retry(b)

LEMMA BatchKeeps ==
  ASSUME PlacingInv, NEW b \in Batches, Batched(b)
  PROVE  PlacingInv' /\ pc = "run" /\ wave' = wave /\ Batches' = Batches
  <1> USE DEF Batched, scheduling
  <1>1. Batches = BatchesIn(plan) /\ status \in [BatchesIn(plan) -> Statuses]
    BY DEF Batches, PlacingInv, Typed
  <1>2. /\ plan' = plan /\ flavor' = flavor /\ next' = next /\ placed' = placed
        /\ grouped' = grouped /\ wave' = wave /\ count' = count /\ pc' = pc
    BY DEF Start, Succeed, Fail, Retry
  <1>3. pc = "run"
    BY DEF Start, Succeed, Fail, Retry, PlacingInv, Phased
  <1>4. status' \in [BatchesIn(plan) -> Statuses]
    BY <1>1 DEF Start, Succeed, Fail, Retry, Statuses
  <1>5. failures' \in 0 .. MaxFailures
    BY RebuildAssumption DEF Start, Succeed, Fail, Retry, PlacingInv, Typed
  <1>6. Affected' = Affected /\ Length' = Length /\ BatchesIn(plan)' = BatchesIn(plan)
          /\ Acyclic' = Acyclic /\ \A d : PlanParents(d)' = PlanParents(d)
    <2>1. Next
      BY DEF Next, Progress
    <2> QED BY <2>1, <1>2, Unchanging DEF BatchesIn, AffectedBy
  <1>7. Typed'
    BY <1>2, <1>4, <1>5, <1>6 DEF PlacingInv, Typed
  <1>8. Deep' /\ Waved'
    BY <1>2, <1>6 DEF PlacingInv, Deep, Waved
  <1>9. Phased'
    BY <1>2, <1>3, <1>6 DEF PlacingInv, Phased
  <1>10. Batches' = Batches
    BY <1>1, <1>4, <1>6 DEF Batches
  <1> QED BY <1>2, <1>3, <1>7, <1>8, <1>9, <1>10 DEF PlacingInv

\* Every step keeps the scheduler's part.
LEMMA StepKeepsSchedule == ASSUME PlacingInv, [Next]_vars PROVE PlacingInv'
  <1>1. CASE Place
    BY <1>1, PlaceKeeps
  <1>2. CASE AllPlaced \/ AllGrouped
    BY <1>2, TurnKeeps
  <1>3. CASE AddWave
    BY <1>3, AddWaveKeeps
  <1>4. ASSUME NEW b \in Batches, Batched(b) PROVE PlacingInv'
    BY <1>4, BatchKeeps
  <1>5. CASE UNCHANGED vars
    <2>1. /\ plan' = plan /\ flavor' = flavor /\ next' = next /\ placed' = placed /\ grouped' = grouped
          /\ wave' = wave /\ count' = count /\ status' = status /\ failures' = failures /\ pc' = pc
      BY <1>5 DEF vars, scheduling
    <2>2. Affected' = Affected /\ Length' = Length /\ BatchesIn(plan)' = BatchesIn(plan)
      BY <2>1 DEF Affected, AffectedBy, Length, BatchesIn
    <2>3. Acyclic' = Acyclic
      BY <2>1 DEF Acyclic, AcyclicIn, AffectedBy, AllAbove, OnCycleIn, ParentsIn
    <2>4. \A d : PlanParents(d)' = PlanParents(d)
      BY <2>1 DEF PlanParents, ParentsIn, AffectedBy
    <2>5. Typed' /\ Deep' /\ Waved' /\ Phased'
      BY <2>1, <2>2, <2>3, <2>4 DEF PlacingInv, Typed, Deep, Waved, Phased, Batches
    <2> QED BY <2>5 DEF PlacingInv
  <1> QED BY <1>1, <1>2, <1>3, <1>4, <1>5 DEF Next, Progress, Schedule, Batched

-----------------------------------------------------------------------------
(* Type correctness. *)

\* Waves are numbered within the plan, because none is empty.
LEMMA TypesFollow == PlacingInv => TypeOK
  <1> SUFFICES ASSUME PlacingInv PROVE TypeOK
    OBVIOUS
  <1>1. plan \in Plans
    BY DEF PlacingInv, Typed
  <1>2. Length \in Nat \ {0} /\ IsFiniteSet(Affected) /\ Cardinality(Affected) \in Nat
          /\ Cardinality(Affected) <= Length
    BY <1>1, PlanFacts, OrderHoldsThemAll
  <1>3. Cardinality(grouped) \in Nat /\ Cardinality(grouped) <= Cardinality(Affected)
    BY <1>2, FS_Subset, FS_CardinalityType DEF PlacingInv, Typed
  <1>4. count \in 0 .. Length
    BY <1>2, <1>3 DEF PlacingInv, Typed, Waved
  <1>5. wave \in [Datasets -> 0 .. Length - 1]
    <2>1. \A d \in Datasets : wave[d] \in Nat /\ wave[d] <= Length - 1
      BY <1>2, <1>4 DEF PlacingInv, Typed, Waved
    <2>2. \A d \in Datasets : wave[d] \in 0 .. Length - 1
      BY <2>1, <1>2
    <2> QED BY <2>2 DEF PlacingInv, Typed
  <1>6. placed \in [Datasets -> 0 .. Length]
    <2>1. next \in 1 .. Length + 1
      BY DEF PlacingInv, Typed
    <2>2. \A d \in Datasets : placed[d] \in Nat /\ placed[d] < next
      BY DEF PlacingInv, Typed, Deep
    <2>3. \A d \in Datasets : placed[d] \in 0 .. Length
      BY <1>2, <2>1, <2>2
    <2> QED BY <2>3 DEF PlacingInv, Typed
  <1> QED BY <1>4, <1>5, <1>6 DEF TypeOK, PlacingInv, Typed, Length

\* The variables of Rebuild keep their types, whatever the plan: the scheduler puts a
\* plan of n datasets in at most n waves, even where a cycle leaves no dataset at depth 0
\* (waves of graph/plan/schedule.py).
THEOREM TypeCorrect == Spec => []TypeOK
  <1>1. Init => PlacingInv
    BY InitSchedule
  <1>2. PlacingInv /\ [Next]_vars => PlacingInv'
    BY StepKeepsSchedule
  <1>3. PlacingInv => TypeOK
    BY TypesFollow
  <1> QED BY <1>1, <1>2, <1>3, PTL DEF Spec

-----------------------------------------------------------------------------
(* What runs, with task dependencies. *)

\* A batch that starts has every earlier wave behind it: the one before because it waits
\* for it, the ones before that because no wave is empty.
LEMMA StartKeepsBehind ==
  ASSUME PlacingInv, Behind, flavor = "tasks", NEW b \in Batches, Start(b)
  PROVE  Behind'
  <1>1. Batches = BatchesIn(plan) /\ status \in [Batches -> Statuses]
    BY DEF Batches, PlacingInv, Typed
  <1>2. PlacingInv' /\ pc = "run" /\ wave' = wave /\ Batches' = Batches
    BY BatchKeeps DEF Batched
  <1>3. status' = [status EXCEPT ![b] = "running"] /\ status[b] = "waiting"
    BY DEF Start
  <1>4. \A c \in Batches : c.dataset \in grouped /\ wave[c.dataset] \in Nat
                             /\ wave[c.dataset] < count
    BY <1>1, <1>2, BatchPerDataset, OnlyAffected DEF PlacingInv, Typed, Phased, Waved
  <1>5. \A c \in Batches : wave[c.dataset] = wave[b.dataset] - 1 => status[c] = "ok"
    BY DEF Start, DependsOn, MayFollow
  <1>6. ASSUME NEW c \in Batches, wave[c.dataset] < wave[b.dataset] PROVE status[c] = "ok"
    <2>1. CASE wave[c.dataset] = wave[b.dataset] - 1
      BY <2>1, <1>5
    <2>2. CASE wave[c.dataset] # wave[b.dataset] - 1
      <3>1. wave[b.dataset] - 1 \in 0 .. count - 1 /\ wave[c.dataset] < wave[b.dataset] - 1
        BY <1>4, <1>6, <2>2 DEF PlacingInv, Typed
      <3>2. PICK d \in grouped : wave[d] = wave[b.dataset] - 1
        BY <3>1 DEF PlacingInv, Waved
      <3>3. PICK e \in Batches : e.dataset = d
        BY <1>1, BatchPerDataset DEF PlacingInv, Typed
      <3>4. status[e] = "ok"
        BY <3>2, <3>3, <1>5
      <3> QED BY <3>1, <3>2, <3>3, <3>4 DEF Behind, Started
    <2> QED BY <2>1, <2>2
  <1>7. ASSUME NEW a \in Batches, NEW c \in Batches, status'[a] # "waiting",
               wave[c.dataset] < wave[a.dataset]
        PROVE  status'[c] = "ok"
    <2>1. CASE a = b
      <3>1. status[c] = "ok" /\ c # b
        BY <2>1, <1>3, <1>6, <1>7
      <3> QED BY <3>1, <1>1, <1>3
    <2>2. CASE a # b
      <3>1. status[a] # "waiting"
        BY <2>2, <1>1, <1>3, <1>7
      <3>2. status[c] = "ok"
        BY <3>1, <1>7 DEF Behind, Started
      <3> QED BY <3>2, <1>1, <1>3
    <2> QED BY <2>1, <2>2
  <1> QED BY <1>2, <1>7 DEF Behind, Started

\* A batch that ends, fails or is cleared was not behind a batch that started: it had
\* not succeeded.
LEMMA EndKeepsBehind ==
  ASSUME PlacingInv, Behind, NEW b \in Batches, Succeed(b) \/ Fail(b) \/ Retry(b)
  PROVE  Behind'
  <1>1. status \in [Batches -> Statuses]
    BY DEF Batches, PlacingInv, Typed
  <1>2. PlacingInv' /\ wave' = wave /\ Batches' = Batches
    BY BatchKeeps DEF Batched
  <1>3. PICK end \in Statuses : status' = [status EXCEPT ![b] = end]
    BY DEF Succeed, Fail, Retry, Statuses
  <1>4. status[b] \notin {"ok", "waiting"}
    BY DEF Succeed, Fail, Retry
  <1>5. ASSUME NEW a \in Batches, NEW c \in Batches, status'[a] # "waiting",
               wave[c.dataset] < wave[a.dataset]
        PROVE  status'[c] = "ok"
    <2>1. status[a] # "waiting"
      BY <1>1, <1>3, <1>4, <1>5
    <2>2. status[c] = "ok" /\ c # b
      BY <2>1, <1>4, <1>5 DEF Behind, Started
    <2> QED BY <2>2, <1>1, <1>3
  <1> QED BY <1>2, <1>5 DEF Behind, Started

\* While nothing runs nothing has started.
LEMMA PlacingKeepsBehind == ASSUME PlacingInv, Schedule PROVE Behind'
  <1>1. pc # "run" /\ status' = status
    BY DEF Schedule, Place, AllPlaced, AddWave, AllGrouped
  <1> QED BY <1>1 DEF PlacingInv, Phased, Behind, Started, Batches

TasksInv == PlacingInv /\ Behind /\ flavor = "tasks"

LEMMA StepKeepsTasks == ASSUME TasksInv, [Next]_vars PROVE TasksInv'
  <1>1. PlacingInv'
    BY StepKeepsSchedule DEF TasksInv
  <1>2. flavor' = flavor
    BY Unchanging DEF vars
  <1>3. ASSUME Schedule PROVE Behind'
    BY <1>3, PlacingKeepsBehind DEF TasksInv
  <1>4. ASSUME NEW b \in Batches, Start(b) PROVE Behind'
    BY <1>4, StartKeepsBehind DEF TasksInv
  <1>5. ASSUME NEW b \in Batches, Succeed(b) \/ Fail(b) \/ Retry(b) PROVE Behind'
    BY <1>5, EndKeepsBehind DEF TasksInv
  <1>6. ASSUME UNCHANGED vars PROVE Behind'
    BY <1>6 DEF vars, scheduling, TasksInv, Behind, Started, Batches
  <1>7. Behind'
    BY <1>3, <1>4, <1>5, <1>6 DEF Next, Progress, TasksInv
  <1> QED BY <1>1, <1>2, <1>7 DEF TasksInv

\* Once batches run an acyclic dataset is in a later wave than its inputs.
LEMMA InputsFollow == TasksInv => InputsFirst
  <1> SUFFICES ASSUME TasksInv, NEW b \in Batches, Started(b), b.dataset \in Acyclic,
                      NEW c \in Batches, c.dataset \in PlanParents(b.dataset)
               PROVE  status[c] = "ok"
    BY DEF InputsFirst
  <1>1. pc = "run" /\ plan \in Plans
    BY DEF TasksInv, PlacingInv, Phased, Typed, Started
  <1>2. grouped = Affected /\ next = Length + 1
    BY <1>1 DEF TasksInv, PlacingInv, Phased
  <1>3. PICK j \in 1 .. Length : plan.order[j] = b.dataset
    BY <1>1, PlanFacts, OnlyAffected
  <1>4. j < next
    BY <1>1, <1>2, <1>3, PlanFacts
  <1>5. placed[c.dataset] < placed[b.dataset]
    BY <1>3, <1>4 DEF TasksInv, PlacingInv, Deep
  <1>6. b.dataset \in grouped /\ c.dataset \in grouped
    BY <1>2, OnlyAffected
  <1>7. wave[c.dataset] < wave[b.dataset]
    BY <1>5, <1>6 DEF TasksInv, PlacingInv, Waved
  <1> QED BY <1>7 DEF TasksInv, Behind

\* "Wave boundaries are real dependencies" (docs/guide/plan.md): with the task lists of
\* to_task_list, away from cycles no batch starts before every batch of every input of
\* its dataset has succeeded, for every plan and however often batches fail.
THEOREM InputsAreFirst ==
  ASSUME Flavors = {"tasks"}
  PROVE  Spec => []InputsFirst
  <1>1. Init => TasksInv
    BY InitSchedule DEF Init, TasksInv
  <1>2. TasksInv /\ [Next]_vars => TasksInv'
    BY StepKeepsTasks
  <1>3. TasksInv => InputsFirst
    BY InputsFollow
  <1> QED BY <1>1, <1>2, <1>3, PTL DEF Spec

-----------------------------------------------------------------------------
(* Batches. *)

\* What RebuildAssumption says of the partitions of one dataset.
Keys(keys) ==
  /\ IsFiniteSet(keys)
  /\ \A k \in keys : k = [rest |-> k.rest, time |-> k.time] /\ k.time \in Int \cup {NoTime}

Timed(keys) == {k \in keys : k.time # NoTime}

\* The run of partitions that k is in starts at t.
StartsAt(keys, k, t) ==
  /\ t \in Int /\ t <= k.time
  /\ \A u \in t .. k.time : [k EXCEPT !.time = u] \in keys
  /\ [k EXCEPT !.time = t - 1] \notin keys

\* Every set of integers that is finite and has one has a least one.
LEMMA LeastInteger ==
  ASSUME NEW T \in SUBSET Int, IsFiniteSet(T), T # {}
  PROVE  \E n \in T : \A m \in T : n <= m
  <1> DEFINE below == [n \in T |-> {m \in T : m <= n}]
             size == [n \in T |-> Cardinality(below[n])]
             sizes == {size[n] : n \in T}
  <1>1. \A n \in T : below[n] = {m \in T : m <= n} /\ IsFiniteSet(below[n]) /\ size[n] = Cardinality(below[n])
    <2>1. \A n \in T : {m \in T : m <= n} \in SUBSET T
      OBVIOUS
    <2> QED BY <2>1, FS_Subset
  <1> HIDE DEF below
  <1>2. \A n \in T : size[n] \in Nat
    BY <1>1, FS_CardinalityType
  <1>3. PICK n \in T : \A m \in T : size[n] <= size[m]
    <2>1. sizes \in SUBSET Nat /\ sizes # {}
      BY <1>2
    <2>2. PICK s \in sizes : \A r \in sizes : s <= r
      <3> HIDE DEF sizes
      <3> QED BY <2>1, LeastNumber
    <2> QED BY <2>2
  <1>4. ASSUME NEW m \in T, ~(n <= m) PROVE FALSE
    <2>1. below[m] \in SUBSET below[n] /\ n \in below[n] /\ n \notin below[m]
      <3>1. m \in Int /\ n \in Int /\ T \subseteq Int
        OBVIOUS
      <3>2. below[m] = {x \in T : x <= m} /\ below[n] = {x \in T : x <= n}
        BY <1>1
      <3>3. \A x \in T : x <= m => x <= n
        BY <1>4, <3>1
      <3>4. n \in {x \in T : x <= n} /\ n \notin {x \in T : x <= m}
        BY <1>4, <3>1
      <3>5. {x \in T : x <= m} \in SUBSET {x \in T : x <= n}
        BY <3>3
      <3> QED BY <3>2, <3>4, <3>5
    <2>2. Cardinality(below[m]) <= Cardinality(below[n]) /\ Cardinality(below[m]) # Cardinality(below[n])
      BY <1>1, <2>1, FS_Subset
    <2> HIDE DEF size
    <2> QED BY <1>1, <1>2, <1>3, <2>2
  <1> QED BY <1>4

\* RunStart is where the run starts, and nowhere else.
LEMMA RunStartIs ==
  ASSUME NEW keys, Keys(keys), NEW k \in Timed(keys)
  PROVE  /\ StartsAt(keys, k, RunStart(keys, k))
         /\ \A t : StartsAt(keys, k, t) => t = RunStart(keys, k)
  <1> DEFINE times == {j.time : j \in {x \in keys : x.time # NoTime}}
             P(t) == /\ t <= k.time
                     /\ \A u \in t .. k.time : [k EXCEPT !.time = u] \in keys
                     /\ [k EXCEPT !.time = t - 1] \notin keys
             runs == {t \in times : t <= k.time /\ \A u \in t .. k.time : [k EXCEPT !.time = u] \in keys}
  <1>1. k.time \in Int /\ k = [rest |-> k.rest, time |-> k.time] /\ k \in keys
    BY DEF Keys, Timed
  <1>2. times \in SUBSET Int /\ IsFiniteSet(times)
    <2> DEFINE f == [j \in Timed(keys) |-> j.time]
    <2>1. f \in Surjection(Timed(keys), times)
      BY DEF Surjection, Timed
    <2>2. IsFiniteSet(Timed(keys))
      BY FS_Subset DEF Keys, Timed
    <2>3. times \in SUBSET Int
      BY DEF Keys
    <2> HIDE DEF f, times
    <2> QED BY <2>1, <2>2, <2>3, FS_Surjection
  <1>3. k.time \in runs
    <2>1. k.time \in times
      BY <1>1 DEF Timed
    <2>2. \A u \in k.time .. k.time : u = k.time
      BY <1>1
    <2>3. [k EXCEPT !.time = k.time] = k
      BY <1>1
    <2> QED BY <1>1, <2>1, <2>2, <2>3
  <1>4. PICK t \in runs : \A u \in runs : t <= u
    <2>1. runs \in SUBSET Int /\ IsFiniteSet(runs)
      <3>1. runs \in SUBSET times
        OBVIOUS
      <3> HIDE DEF runs, times
      <3> QED BY <1>2, <3>1, FS_Subset
    <2> HIDE DEF runs
    <2> QED BY <1>3, <2>1, LeastInteger
  <1>5. t \in Int /\ t \in times
    BY <1>2
  <1>6. [k EXCEPT !.time = t - 1] \notin keys
    <2>1. SUFFICES ASSUME [k EXCEPT !.time = t - 1] \in keys PROVE FALSE
      OBVIOUS
    <2>2. t - 1 \in Int /\ [k EXCEPT !.time = t - 1].time = t - 1
      BY <1>1, <1>5
    <2>3. t - 1 # NoTime
      BY <2>2, RebuildAssumption
    <2>4. t - 1 \in times
      BY <2>1, <2>2, <2>3
    <2>5. t - 1 <= k.time
      BY <1>1, <1>4, <1>5
    <2>6. \A u \in t - 1 .. k.time : u = t - 1 \/ u \in t .. k.time
      BY <1>1, <1>5
    <2>7. t - 1 \in runs
      BY <1>4, <2>1, <2>4, <2>5, <2>6
    <2>8. ~(t <= t - 1)
      BY <1>5
    <2> QED BY <1>4, <2>7, <2>8
  <1>7. \E s \in times : P(s)
    BY <1>4, <1>5, <1>6
  <1>8. RunStart(keys, k) \in times /\ P(RunStart(keys, k))
    <2> DEFINE s == CHOOSE s \in times : P(s)
    <2>1. s \in times /\ P(s)
      <3> HIDE DEF times, P
      <3> QED BY <1>7
    <2>2. RunStart(keys, k) = s
      BY DEF RunStart
    <2> HIDE DEF s
    <2> QED BY <2>1, <2>2
  <1> HIDE DEF times
  <1>9. StartsAt(keys, k, RunStart(keys, k))
    BY <1>2, <1>8 DEF StartsAt
  <1>10. ASSUME NEW s, StartsAt(keys, k, s), NEW r, StartsAt(keys, k, r), s < r PROVE FALSE
    <2>1. s \in Int /\ r \in Int /\ r - 1 \in s .. k.time
      BY <1>1, <1>10 DEF StartsAt
    <2> QED BY <1>10, <2>1 DEF StartsAt
  <1>11. ASSUME NEW s, StartsAt(keys, k, s) PROVE s = RunStart(keys, k)
    <2>1. s \in Int /\ RunStart(keys, k) \in Int
      BY <1>9, <1>11 DEF StartsAt
    <2>2. ~(s < RunStart(keys, k)) /\ ~(RunStart(keys, k) < s)
      BY <1>9, <1>10, <1>11
    <2> QED BY <2>1, <2>2
  <1> QED BY <1>9, <1>11


\* Division cuts the numbers into stretches of most.
LEMMA Stretches ==
  ASSUME NEW x \in Nat, NEW most \in Nat \ {0}
  PROVE  /\ x \div most \in Int
         /\ most * (x \div most) <= x /\ x < most * (x \div most) + most
  OBVIOUS

LEMMA OneStretch ==
  ASSUME NEW x \in Nat, NEW most \in Nat \ {0}, NEW c \in Int,
         most * c <= x, x < most * c + most
  PROVE  x \div most = c
  <1> DEFINE q == x \div most
  <1>1. q \in Int /\ most * q <= x /\ x < most * q + most
    BY Stretches
  <1> HIDE DEF q
  <1>2. \A a, b \in Int : a < b => most * a + most <= most * b
    <2>1. SUFFICES ASSUME NEW a \in Int, NEW b \in Int, a < b PROVE most * a + most <= most * b
      OBVIOUS
    <2>2. PICK e \in Nat : b = a + 1 + e
      <3>1. b - a - 1 \in Nat /\ b = a + 1 + (b - a - 1)
        BY <2>1
      <3> QED BY <3>1
    <2>3. most * b = most * a + most + most * e /\ most * e \in Nat /\ most * a \in Int
      BY <2>2
    <2> QED BY <2>3
  <1>3. most * q \in Int /\ most * c \in Int
    BY <1>1
  <1>4. ~(q < c) /\ ~(c < q)
    BY <1>1, <1>2, <1>3
  <1> QED BY <1>1, <1>4 DEF q

\* The batch of k: all that is together with it.
BatchOf(keys, k) == {j \in keys : Together(keys, j, k, MaxBatch)}

\* Being together is an equivalence, so partitions are in one batch at most.
LEMMA BatchesAreApart ==
  ASSUME NEW keys, NEW j \in keys, NEW k \in keys, j \in BatchOf(keys, k)
  PROVE  BatchOf(keys, j) = BatchOf(keys, k)
  BY DEF BatchOf, Together

\* The times of a batch: one partition without, or some of one stretch of a run.
LEMMA BatchTimes ==
  ASSUME NEW keys, Keys(keys), NEW k \in Timed(keys), NEW j \in BatchOf(keys, k)
  PROVE  LET s == RunStart(keys, k)
             c == Chunk(keys, k, MaxBatch)
         IN  /\ j \in Timed(keys) /\ j.rest = k.rest /\ RunStart(keys, j) = s
             /\ s \in Int /\ c \in Int /\ j.time - s \in Nat
             /\ MaxBatch * c <= j.time - s /\ j.time - s < MaxBatch * c + MaxBatch
  <1> DEFINE s == RunStart(keys, k)
             c == Chunk(keys, k, MaxBatch)
  <1>1. j \in Timed(keys) /\ j.rest = k.rest /\ RunStart(keys, j) = s /\ Chunk(keys, j, MaxBatch) = c
    BY DEF BatchOf, Together, Timed
  <1>2. s \in Int /\ s <= j.time /\ j.time \in Int
    BY <1>1, RunStartIs DEF StartsAt, Keys, Timed
  <1>3. c = (j.time - s) \div MaxBatch
    BY <1>1 DEF Chunk
  <1>4. j.time - s \in Nat /\ MaxBatch \in Nat \ {0}
    BY <1>2, RebuildAssumption
  <1> HIDE DEF s, c
  <1>5. c \in Int /\ MaxBatch * c <= j.time - s /\ j.time - s < MaxBatch * c + MaxBatch
    BY <1>3, <1>4, Stretches
  <1> QED BY <1>1, <1>2, <1>4, <1>5 DEF s, c

LEMMA BatchSize ==
  ASSUME NEW keys, Keys(keys), NEW k \in keys
  PROVE  Cardinality(BatchOf(keys, k)) <= MaxBatch
  <1>1. MaxBatch \in Nat \ {0}
    BY RebuildAssumption
  <1>2. CASE k.time = NoTime
    <2>1. BatchOf(keys, k) = {k}
      BY <1>2 DEF BatchOf, Together
    <2>2. Cardinality({k}) = 1
      BY FS_Singleton
    <2> QED BY <1>1, <2>1, <2>2
  <1>3. CASE k.time # NoTime
    <2> DEFINE s == RunStart(keys, k)
               c == Chunk(keys, k, MaxBatch)
               first == s + MaxBatch * c
               B == BatchOf(keys, k)
               f == [j \in B |-> j.time]
    <2>1. k \in Timed(keys)
      BY <1>3 DEF Timed
    <2>2. \A j \in B : /\ j \in Timed(keys) /\ j.rest = k.rest
                       /\ s \in Int /\ c \in Int /\ j.time - s \in Nat
                       /\ MaxBatch * c <= j.time - s /\ j.time - s < MaxBatch * c + MaxBatch
      <3> HIDE DEF B
      <3> QED BY <2>1, BatchTimes DEF B
    <2>3. k \in B
      BY DEF BatchOf, Together
    <2>4. s \in Int /\ c \in Int
      BY <2>2, <2>3
    <2> HIDE DEF s, c, B
    <2>5. MaxBatch * c \in Int /\ first \in Int
      BY <1>1, <2>4
    <2>6. \A j \in B : j.time \in Int /\ j = [rest |-> k.rest, time |-> j.time]
      BY <2>2 DEF Keys, Timed
    <2>7. \A j \in B : j.time \in first .. first + MaxBatch - 1
      <3>1. SUFFICES ASSUME NEW j \in B PROVE j.time \in first .. first + MaxBatch - 1
        OBVIOUS
      <3> DEFINE m == MaxBatch * c
      <3>2. m \in Int /\ m <= j.time - s /\ j.time - s < m + MaxBatch
        BY <2>2, <2>5
      <3> HIDE DEF m
      <3>3. s + m <= j.time /\ j.time <= s + m + MaxBatch - 1
        BY <1>1, <2>4, <2>6, <3>2
      <3> QED BY <1>1, <2>4, <2>6, <3>2, <3>3 DEF m
    <2> HIDE DEF first
    <2>8. f \in Injection(B, first .. first + MaxBatch - 1)
      BY <2>6, <2>7 DEF Injection, IsInjective
    <2>9. IsFiniteSet(first .. first + MaxBatch - 1) /\ Cardinality(first .. first + MaxBatch - 1) = MaxBatch
      <3>1. first + MaxBatch - 1 \in Int /\ first <= first + MaxBatch - 1
        BY <1>1, <2>5
      <3>2. (first + MaxBatch - 1) - first + 1 = MaxBatch
        BY <1>1, <2>5
      <3> QED BY <2>5, <3>1, <3>2, FS_Interval
    <2> HIDE DEF f
    <2>10. Cardinality(B) <= MaxBatch
      BY <2>8, <2>9, FS_Injection
    <2> QED BY <2>10 DEF B
  <1> QED BY <1>2, <1>3


\* Between two partitions of a batch nothing is missing.
LEMMA BatchIsOneStretch ==
  ASSUME NEW keys, Keys(keys), NEW i \in keys, NEW j \in BatchOf(keys, i), NEW k \in BatchOf(keys, i),
         j # k, NEW t \in j.time .. k.time
  PROVE  [j EXCEPT !.time = t] \in BatchOf(keys, i)
  <1> DEFINE s == RunStart(keys, i)
             c == Chunk(keys, i, MaxBatch)
             x == [j EXCEPT !.time = t]
  <1>1. i \in Timed(keys)
    BY DEF BatchOf, Together, Timed
  <1>2. /\ j \in Timed(keys) /\ j.rest = i.rest /\ RunStart(keys, j) = s
        /\ k \in Timed(keys) /\ k.rest = i.rest /\ RunStart(keys, k) = s
        /\ s \in Int /\ c \in Int /\ j.time - s \in Nat
        /\ MaxBatch * c <= j.time - s /\ k.time - s < MaxBatch * c + MaxBatch
    BY <1>1, BatchTimes
  <1> HIDE DEF s, c
  <1>3. j.time \in Int /\ k.time \in Int /\ MaxBatch \in Nat \ {0} /\ MaxBatch * c \in Int
    BY <1>2, RebuildAssumption DEF Keys, Timed
  <1>4. t \in Int /\ j.time <= t /\ t <= k.time
    BY <1>3
  <1>5. /\ j = [rest |-> i.rest, time |-> j.time] /\ k = [rest |-> i.rest, time |-> k.time]
        /\ x = [rest |-> i.rest, time |-> t]
        /\ \A u : [k EXCEPT !.time = u] = [x EXCEPT !.time = u]
    <2>1. j = [rest |-> i.rest, time |-> j.time] /\ k = [rest |-> i.rest, time |-> k.time]
      BY <1>2 DEF Keys, Timed
    <2>2. x = [rest |-> i.rest, time |-> t]
      BY <2>1
    <2> HIDE DEF x
    <2>3. ASSUME NEW u PROVE [k EXCEPT !.time = u] = [x EXCEPT !.time = u]
      <3>1. [k EXCEPT !.time = u] = [rest |-> i.rest, time |-> u]
        BY <2>1
      <3>2. [x EXCEPT !.time = u] = [rest |-> i.rest, time |-> u]
        BY <2>2
      <3> QED BY <3>1, <3>2
    <2> QED BY <2>1, <2>2, <2>3
  <1>6. StartsAt(keys, k, s)
    BY <1>2, RunStartIs
  <1>7. x \in keys /\ x.time = t /\ x.rest = i.rest
    <2>1. t \in s .. k.time
      BY <1>2, <1>3, <1>4
    <2>2. [k EXCEPT !.time = t] = x
      BY <1>5
    <2> QED BY <1>5, <1>6, <2>1, <2>2 DEF StartsAt
  <1>8. x \in Timed(keys)
    BY <1>4, <1>7, RebuildAssumption DEF Timed
  <1>9. StartsAt(keys, x, s)
    <2>1. s <= t /\ \A u \in s .. t : u \in s .. k.time
      BY <1>2, <1>3, <1>4
    <2> QED BY <1>5, <1>6, <1>7, <2>1 DEF StartsAt
  <1> HIDE DEF x
  <1>10. RunStart(keys, x) = s
    BY <1>8, <1>9, RunStartIs
  <1>11. Chunk(keys, x, MaxBatch) = c
    <2>1. t - s \in Nat /\ MaxBatch * c <= t - s /\ t - s < MaxBatch * c + MaxBatch
      <3> DEFINE m == MaxBatch * c
      <3> HIDE DEF m
      <3>1. m \in Int /\ m <= j.time - s /\ k.time - s < m + MaxBatch
        BY <1>2, <1>3 DEF m
      <3>2. t - s \in Nat /\ m <= t - s /\ t - s < m + MaxBatch
        BY <1>2, <1>3, <1>4, <3>1
      <3> QED BY <3>2 DEF m
    <2>2. (t - s) \div MaxBatch = c
      BY <1>2, <1>3, <2>1, OneStretch
    <2> QED BY <1>7, <1>10, <2>2 DEF Chunk
  <1>12. Together(keys, x, i, MaxBatch)
    BY <1>1, <1>7, <1>8, <1>10, <1>11 DEF Together, Timed, s, c
  <1>13. x \in BatchOf(keys, i)
    BY <1>7, <1>12 DEF BatchOf
  <1> QED BY <1>13 DEF x

\* The batches of a plan are those of its datasets.
LEMMA BatchesAre ==
  BatchesIn(plan) = UNION {{[dataset |-> d, keys |-> BatchOf(plan.dirty[d], k)] : k \in plan.dirty[d]} : d \in Affected}
  BY DEF BatchesIn, BatchesOf, BatchOf, Affected

LEMMA EachOnce ==
  ASSUME Typed
  PROVE  EachPartitionOnce
  <1>1. Batches = BatchesIn(plan)
    BY DEF Typed, Batches
  <1>2. \A d \in Affected : Keys(plan.dirty[d])
    BY RebuildAssumption, OnlyAffected DEF Typed, Keys
  <1>3. ASSUME NEW d \in Affected, NEW k \in plan.dirty[d]
        PROVE  Cardinality({b \in Batches : b.dataset = d /\ k \in b.keys}) = 1
    <2> DEFINE mine == [dataset |-> d, keys |-> BatchOf(plan.dirty[d], k)]
    <2>1. mine \in Batches /\ mine.dataset = d /\ k \in mine.keys
      <3>1. k \in BatchOf(plan.dirty[d], k)
        BY DEF BatchOf, Together
      <3> QED BY <1>1, <3>1, BatchesAre
    <2>2. ASSUME NEW b \in Batches, b.dataset = d, k \in b.keys PROVE b = mine
      <3>1. PICK e \in Affected : \E i \in plan.dirty[e] : b = [dataset |-> e, keys |-> BatchOf(plan.dirty[e], i)]
        BY <1>1, BatchesAre
      <3>2. PICK i \in plan.dirty[e] : b = [dataset |-> e, keys |-> BatchOf(plan.dirty[e], i)]
        BY <3>1
      <3>3. e = d /\ k \in BatchOf(plan.dirty[d], i)
        BY <2>2, <3>2
      <3> QED BY <3>2, <3>3, BatchesAreApart
    <2> HIDE DEF mine
    <2>3. {b \in Batches : b.dataset = d /\ k \in b.keys} = {mine}
      BY <2>1, <2>2
    <2> QED BY <2>3, FS_Singleton
  <1>4. ASSUME NEW b \in Batches
        PROVE  /\ b.keys \subseteq plan.dirty[b.dataset]
               /\ Cardinality(b.keys) <= MaxBatch
               /\ \A j, k \in b.keys : j # k =>
                    \A t \in j.time .. k.time : [j EXCEPT !.time = t] \in b.keys
    <2>1. PICK d \in Affected : \E i \in plan.dirty[d] : b = [dataset |-> d, keys |-> BatchOf(plan.dirty[d], i)]
      BY <1>1, BatchesAre
    <2>2. PICK i \in plan.dirty[d] : b.dataset = d /\ b.keys = BatchOf(plan.dirty[d], i)
      BY <2>1
    <2>3. Cardinality(b.keys) <= MaxBatch
      BY <1>2, <2>2, BatchSize
    <2>4. \A j, k \in b.keys : j # k => \A t \in j.time .. k.time : [j EXCEPT !.time = t] \in b.keys
      BY <1>2, <2>2, BatchIsOneStretch
    <2>5. b.keys \subseteq plan.dirty[b.dataset]
      BY <2>2 DEF BatchOf
    <2> QED BY <2>3, <2>4, <2>5
  <1> QED BY <1>3, <1>4 DEF EachPartitionOnce

\* to_task_list, batch_partitions: the tasks hold every partition of the plan once, in stretches of
\* no more than max_batch, and wait for what they are built from - for every plan.
THEOREM BatchesAreRight ==
  ASSUME Flavors = {"tasks"}
  PROVE  Spec => []BatchesCanBeTrusted
  <1>1. Init => PlacingInv
    BY InitSchedule
  <1>2. PlacingInv /\ [Next]_vars => PlacingInv'
    BY StepKeepsSchedule
  <1>3. PlacingInv => EachPartitionOnce
    BY EachOnce DEF PlacingInv
  <1>4. Spec => []EachPartitionOnce
    BY <1>1, <1>2, <1>3, PTL DEF Spec
  <1>5. Spec => []InputsFirst
    BY InputsAreFirst
  <1> QED BY <1>4, <1>5, PTL DEF BatchesCanBeTrusted

-----------------------------------------------------------------------------
(* Waves are as early as the inputs allow. *)

\* AllAbove is the least set with S and the inputs of each of its members.
LEMMA AboveIsClosed ==
  ASSUME NEW pl, NEW S \in SUBSET Datasets
  PROVE  /\ AllAbove(pl, S) \in SUBSET Datasets /\ S \subseteq AllAbove(pl, S)
         /\ \A d \in AllAbove(pl, S) : ParentsIn(pl, d) \subseteq AllAbove(pl, S)
         /\ \A C \in SUBSET Datasets :
              S \subseteq C /\ (\A d \in C : ParentsIn(pl, d) \subseteq C) => AllAbove(pl, S) \subseteq C
  <1> DEFINE N == Cardinality(Datasets)
             step == [T \in SUBSET Datasets |-> T \cup UNION {ParentsIn(pl, d) : d \in T}]
             reach[i \in 0 .. Cardinality(Datasets)] == IF i = 0 THEN S ELSE step[reach[i - 1]]
  <1>1. \A d : ParentsIn(pl, d) \in SUBSET Datasets
    BY DEF ParentsIn, AffectedBy
  <1>2. \A T \in SUBSET Datasets : /\ step[T] = T \cup UNION {ParentsIn(pl, d) : d \in T}
                                   /\ step[T] \in SUBSET Datasets /\ T \subseteq step[T]
    BY <1>1
  <1>3. HasSize(Datasets, N) /\ IsWidening(step, Datasets)
    <2>1. step = [T \in SUBSET Datasets |-> step[T]]
      OBVIOUS
    <2> HIDE DEF step
    <2> QED BY <1>2, <2>1, RebuildAssumption DEF HasSize, IsWidening
  <1>4. IsIteration(reach, N, S, step)
    BY DEF IsIteration
  <1>5. AllAbove(pl, S) = reach[N]
    BY DEF AllAbove
  <1> HIDE DEF N, step, reach
  <1>6. /\ reach[N] \in SUBSET Datasets /\ S \subseteq reach[N] /\ step[reach[N]] = reach[N]
        /\ \A C \in SUBSET Datasets :
             S \subseteq C /\ (\A T \in SUBSET C : step[T] \subseteq C) => reach[N] \subseteq C
    BY <1>3, <1>4, RoundsClose
  <1>7. \A d \in reach[N] : ParentsIn(pl, d) \subseteq reach[N]
    BY <1>2, <1>6
  <1>8. ASSUME NEW C \in SUBSET Datasets, S \subseteq C, \A d \in C : ParentsIn(pl, d) \subseteq C
        PROVE  reach[N] \subseteq C
    <2>1. ASSUME NEW T \in SUBSET C PROVE step[T] \subseteq C
      <3>1. step[T] = T \cup UNION {ParentsIn(pl, d) : d \in T}
        BY <1>2
      <3> QED BY <3>1, <1>8
    <2> QED BY <1>6, <1>8, <2>1
  <1> QED BY <1>5, <1>6, <1>7, <1>8

\* No cycle is above what an acyclic dataset is built from.
LEMMA InputsAreAcyclic ==
  ASSUME NEW d \in Acyclic, NEW p \in PlanParents(d)
  PROVE  p \in Acyclic
  <1>1. d \in Datasets /\ p \in Affected /\ p \in Datasets
    BY OnlyAffected
  <1>2. AllAbove(plan, {d}) \cap OnCycleIn(plan) = {}
    BY DEF Acyclic, AcyclicIn
  <1>3. /\ AllAbove(plan, {d}) \in SUBSET Datasets /\ {d} \subseteq AllAbove(plan, {d})
        /\ \A e \in AllAbove(plan, {d}) : ParentsIn(plan, e) \subseteq AllAbove(plan, {d})
    BY <1>1, AboveIsClosed
  <1>4. {p} \subseteq AllAbove(plan, {d})
    BY <1>3 DEF PlanParents
  <1>5. AllAbove(plan, {p}) \subseteq AllAbove(plan, {d})
    BY <1>1, <1>3, <1>4, AboveIsClosed
  <1> QED BY <1>1, <1>2, <1>5 DEF Acyclic, AcyclicIn, Affected

\* A depth is no more than one above that of some input.
Exact ==
  \A j \in 1 .. Length : j < next /\ plan.order[j] \in Acyclic =>
    \/ placed[plan.order[j]] = 0
    \/ \E p \in PlanParents(plan.order[j]) : placed[plan.order[j]] = placed[p] + 1

\* There are as many waves as depths in them, and an acyclic dataset's wave is its depth.
Numbered ==
  /\ count = Cardinality({placed[d] : d \in grouped})
  /\ \A d \in grouped \cap Acyclic : wave[d] = placed[d]

WavesInv == PlacingInv /\ Exact /\ Numbered

\* What Place leaves behind: an acyclic dataset is directly above one of its inputs.
LEMMA AllAreDeep ==
  ASSUME PlacingInv, Exact, next = Length + 1, NEW d \in Acyclic
  PROVE  /\ placed[d] \in Nat /\ d \in Affected
         /\ \A p \in PlanParents(d) : p \in Acyclic /\ placed[p] \in Nat /\ placed[p] < placed[d]
         /\ placed[d] # 0 => \E p \in PlanParents(d) : placed[d] = placed[p] + 1
  <1>1. /\ Length \in Nat \ {0}
        /\ Affected = {plan.order[i] : i \in 1 .. Length}
    BY PlanFacts DEF PlacingInv, Typed
  <1>2. d \in Affected /\ d \in Datasets /\ \A p \in PlanParents(d) : p \in Acyclic /\ p \in Datasets
    BY OnlyAffected, InputsAreAcyclic
  <1>3. PICK j \in 1 .. Length : plan.order[j] = d
    BY <1>1, <1>2
  <1>4. j < next
    BY <1>1, <1>3
  <1>5. \A p \in PlanParents(d) : placed[p] < placed[d]
    BY <1>3, <1>4 DEF PlacingInv, Deep
  <1>6. placed[d] = 0 \/ \E p \in PlanParents(d) : placed[d] = placed[p] + 1
    BY <1>3, <1>4 DEF Exact
  <1> QED BY <1>2, <1>5, <1>6 DEF PlacingInv, Typed

\* From an acyclic dataset the inputs lead down, through every depth, to one without.
LEMMA DepthsAreInUse ==
  ASSUME PlacingInv, Exact, next = Length + 1, NEW d \in Acyclic, NEW k \in 0 .. placed[d]
  PROVE  \E e \in Acyclic : placed[e] = k
  <1> DEFINE P == {n \in 0 .. placed[d] : \E e \in Acyclic : placed[e] = placed[d] - n}
  <1>1. placed[d] \in Nat
    BY AllAreDeep
  <1>2. 0 \in P
    BY <1>1
  <1>3. ASSUME NEW n \in 0 .. placed[d], n + 1 \in 0 .. placed[d], n \in P
        PROVE  n + 1 \in P
    <2>1. PICK e \in Acyclic : placed[e] = placed[d] - n
      BY <1>3
    <2>2. placed[e] # 0
      BY <1>1, <1>3, <2>1
    <2>3. PICK p \in PlanParents(e) : placed[e] = placed[p] + 1
      BY <2>2, AllAreDeep
    <2>4. p \in Acyclic /\ placed[p] \in Nat
      BY AllAreDeep
    <2>5. placed[p] = placed[d] - (n + 1)
      BY <1>1, <2>1, <2>3, <2>4
    <2> QED BY <1>3, <2>4, <2>5
  <1>4. placed[d] - k \in P
    <2>1. placed[d] - k \in 0 .. placed[d]
      BY <1>1
    <2> HIDE DEF P
    <2> QED BY <1>1, <1>2, <1>3, <2>1, UpTo
  <1>5. PICK e \in Acyclic : placed[e] = placed[d] - (placed[d] - k)
    BY <1>4
  <1> QED BY <1>1, <1>5

\* The depths below one that acyclic datasets have are the numbers below it.
LEMMA DepthsBelow ==
  ASSUME PlacingInv, Exact, next = Length + 1, NEW d \in Acyclic \ grouped,
         \A e \in Affected \ grouped : placed[d] <= placed[e]
  PROVE  {placed[e] : e \in grouped} = 0 .. placed[d] - 1
  <1>1. placed[d] \in Nat /\ d \in Affected
    BY AllAreDeep
  <1>2. ASSUME NEW e \in grouped PROVE placed[e] \in 0 .. placed[d] - 1
    <2>1. placed[e] < placed[d] /\ placed[e] \in Nat
      BY <1>1, OnlyAffected DEF PlacingInv, Waved, Typed
    <2> QED BY <1>1, <2>1
  <1>3. ASSUME NEW k \in 0 .. placed[d] - 1 PROVE \E e \in grouped : placed[e] = k
    <2>1. PICK e \in Acyclic : placed[e] = k
      BY <1>1, DepthsAreInUse
    <2>2. e \in Affected
      BY OnlyAffected
    <2>3. e \in grouped
      BY <1>1, <2>1, <2>2
    <2> QED BY <2>1, <2>3
  <1> QED BY <1>2, <1>3

-----------------------------------------------------------------------------
(* The scheduler keeps them so. *)

LEMMA InitWaves == Init => WavesInv
  <1> SUFFICES ASSUME Init PROVE WavesInv
    OBVIOUS
  <1>1. PlacingInv
    BY InitSchedule
  <1>2. Exact
    BY DEF Init, Exact
  <1>3. Numbered
    <2>1. {placed[d] : d \in grouped} = {} /\ count = 0
      BY DEF Init
    <2> QED BY <2>1, FS_EmptySet DEF Numbered, Init
  <1> QED BY <1>1, <1>2, <1>3 DEF WavesInv

LEMMA PlaceKeepsWaves == ASSUME WavesInv, Place PROVE WavesInv'
  <1> USE Unchanging DEF Next, Progress, Schedule
  <1>1. /\ Length \in Nat \ {0} /\ next \in 1 .. Length
        /\ Affected = {plan.order[i] : i \in 1 .. Length}
        /\ \A i, j \in 1 .. Length : plan.order[i] = plan.order[j] => i = j
        /\ \A i, j \in 1 .. Length :
             plan.order[j] \in Acyclic /\ plan.order[i] \in PlanParents(plan.order[j]) => i < j
    BY PlanFacts DEF WavesInv, PlacingInv, Typed, Place
  <1> DEFINE d == plan.order[next]
  <1>2. d \in Datasets /\ placed \in [Datasets -> Nat]
    BY <1>1, OnlyAffected DEF WavesInv, PlacingInv, Typed
  <1>3. PICK depth \in DepthsFound(d) : placed' = [placed EXCEPT ![d] = depth]
    BY DEF Place
  <1>4. /\ next' = next + 1 /\ grouped = {} /\ grouped' = {} /\ count' = count /\ plan' = plan
    BY DEF Place, WavesInv, PlacingInv, Phased
  <1>5. PlacingInv'
    BY PlaceKeeps DEF WavesInv
  <1>6. Numbered'
    <2>1. {placed[e] : e \in grouped} = {} /\ {placed'[e] : e \in grouped'} = {}
      BY <1>4
    <2> QED BY <1>4, <2>1 DEF WavesInv, Numbered
  <1>7. ASSUME NEW j \in 1 .. Length, j < next', plan.order[j] \in Acyclic
        PROVE  \/ placed'[plan.order[j]] = 0
               \/ \E p \in PlanParents(plan.order[j]) : placed'[plan.order[j]] = placed'[p] + 1
    <2>1. ASSUME NEW p \in PlanParents(plan.order[j]) PROVE p \in Datasets /\ placed'[p] = placed[p]
      <3>1. PICK i \in 1 .. Length : plan.order[i] = p
        BY <1>1, OnlyAffected
      <3>2. i < j /\ j <= next
        BY <1>1, <1>4, <1>7, <3>1, <2>1
      <3>3. p # d /\ p \in Datasets
        BY <1>1, <3>1, <3>2, <2>1, OnlyAffected
      <3> QED BY <1>2, <1>3, <3>3
    <2>2. CASE j = next
      <3>1. placed'[d] = depth /\ depth \in {0} \cup {placed[p] + 1 : p \in PlanParents(d)}
        BY <1>2, <1>3 DEF DepthsFound
      <3> QED BY <2>1, <2>2, <3>1
    <2>3. CASE j # next
      <3>1. plan.order[j] # d /\ plan.order[j] \in Datasets /\ j < next
        BY <1>1, <1>4, <1>7, <2>3, OnlyAffected
      <3>2. placed'[plan.order[j]] = placed[plan.order[j]]
        BY <1>2, <1>3, <3>1
      <3>3. \/ placed[plan.order[j]] = 0
            \/ \E p \in PlanParents(plan.order[j]) : placed[plan.order[j]] = placed[p] + 1
        BY <1>7, <3>1 DEF WavesInv, Exact
      <3> QED BY <2>1, <3>2, <3>3
    <2> QED BY <2>2, <2>3
  <1>8. Exact'
    BY <1>4, <1>7 DEF Exact
  <1> QED BY <1>5, <1>6, <1>8 DEF WavesInv

LEMMA AddWaveKeepsWaves == ASSUME WavesInv, AddWave PROVE WavesInv'
  <1> USE Unchanging DEF Next, Progress, Schedule
  <1>1. PICK least \in Affected \ grouped :
          /\ \A d \in Affected \ grouped : placed[least] <= placed[d]
          /\ grouped' = grouped \cup {d \in Affected : placed[d] = placed[least]}
          /\ wave' = [d \in Datasets |->
                        IF d \in {e \in Affected : placed[e] = placed[least]}
                        THEN Index(placed[d]) ELSE wave[d]]
    BY DEF AddWave
  <1> DEFINE new == {d \in Affected : placed[d] = placed[least]}
             depths == {placed[d] : d \in grouped}
  <1>2. /\ count' = count + 1 /\ pc = "group" /\ placed' = placed /\ next' = next /\ plan' = plan
        /\ next = Length + 1
    BY DEF AddWave, WavesInv, PlacingInv, Phased
  <1>3. Affected \subseteq Datasets /\ grouped \subseteq Affected /\ count \in Nat
          /\ placed \in [Datasets -> Nat]
    BY OnlyAffected DEF WavesInv, PlacingInv, Typed
  <1>4. PlacingInv' /\ Exact'
    BY <1>2, AddWaveKeeps DEF WavesInv, Exact
  <1>5. \A d \in grouped : placed[d] < placed[least]
    BY <1>1 DEF WavesInv, PlacingInv, Waved
  <1>6. count' = Cardinality({placed'[d] : d \in grouped'})
    <2>1. {placed'[d] : d \in grouped'} = depths \cup {placed[least]}
      BY <1>1, <1>2
    <2>2. placed[least] \notin depths
      BY <1>1, <1>3, <1>5
    <2>3. IsFiniteSet(depths)
      <3>1. IsFiniteSet(grouped)
        BY <1>3, RebuildAssumption, FS_Subset
      <3>2. IsFiniteSet({[x \in grouped |-> placed[x]][d] : d \in grouped})
        BY <3>1, ImageIsFinite
      <3> QED BY <3>2
    <2>4. count = Cardinality(depths)
      BY DEF WavesInv, Numbered
    <2> HIDE DEF depths
    <2> QED BY <1>2, <2>1, <2>2, <2>3, <2>4, FS_AddElement
  <1>7. ASSUME NEW d \in grouped', d \in Acyclic PROVE wave'[d] = placed'[d]
    <2>1. CASE d \in new
      <3>1. d \in Acyclic \ grouped /\ \A e \in Affected \ grouped : placed[d] <= placed[e]
        BY <1>1, <1>3, <1>5, <1>7, <2>1
      <3>2. depths = 0 .. placed[d] - 1
        BY <1>2, <3>1, DepthsBelow DEF WavesInv
      <3>3. Cardinality(0 .. placed[d] - 1) = placed[d] /\ placed[d] \in Nat
        <4>1. placed[d] \in Nat
          BY <1>3, <2>1
        <4> QED BY <4>1, FS_Interval
      <3>4. count = placed[d]
        BY <3>2, <3>3 DEF WavesInv, Numbered
      <3>5. wave'[d] = count
        BY <1>1, <1>3, <2>1 DEF Index
      <3> QED BY <1>2, <3>4, <3>5
    <2>2. CASE d \notin new
      <3>1. d \in grouped /\ wave'[d] = wave[d]
        BY <1>1, <1>3, <1>7, <2>2
      <3> QED BY <1>2, <1>7, <3>1 DEF WavesInv, Numbered
    <2> QED BY <2>1, <2>2
  <1>8. Numbered'
    BY <1>6, <1>7 DEF Numbered
  <1> QED BY <1>4, <1>8 DEF WavesInv

LEMMA StepKeepsWaves == ASSUME WavesInv, [Next]_vars PROVE WavesInv'
  <1>1. PlacingInv'
    BY StepKeepsSchedule DEF WavesInv
  <1>2. CASE Place
    BY <1>2, PlaceKeepsWaves
  <1>3. CASE AddWave
    BY <1>3, AddWaveKeepsWaves
  <1>4. CASE ~Place /\ ~AddWave
    <2>1. next' = next /\ placed' = placed /\ grouped' = grouped /\ wave' = wave /\ count' = count
            /\ plan' = plan
      BY <1>4 DEF Next, Progress, Schedule, AllPlaced, AllGrouped, Start, Succeed, Fail, Retry,
                  scheduling, vars
    <2>2. Acyclic' = Acyclic /\ Length' = Length /\ \A d : PlanParents(d)' = PlanParents(d)
      BY <2>1, Unchanging DEF vars, Acyclic, Length, PlanParents
    <2> QED BY <1>1, <2>1, <2>2 DEF WavesInv, Exact, Numbered
  <1> QED BY <1>2, <1>3, <1>4

-----------------------------------------------------------------------------
(* The two reference definitions give what the scheduler found. *)

\* placed is the number of edges on the longest chain that ends in a dataset.
LEMMA LongestChainIs ==
  ASSUME PlacingInv, Exact, next = Length + 1, NEW d \in Acyclic
  PROVE  LongestChainTo(d) = placed[d]
  <1> DEFINE N == Cardinality(Datasets)
             step == [T \in SUBSET Datasets |-> UNION {PlanParents(e) : e \in T}]
             reaches[n \in 0 .. Cardinality(Datasets)] == IF n = 0 THEN {d} ELSE step[reaches[n - 1]]
             A == {d}
  <1>1. d \in Datasets /\ placed[d] \in Nat
    BY AllAreDeep, OnlyAffected
  <1>2. N \in Nat /\ placed[d] <= N
    <2>1. /\ Length \in Nat \ {0} /\ \A i, j \in 1 .. Length : plan.order[i] = plan.order[j] => i = j
          /\ Affected = {plan.order[i] : i \in 1 .. Length}
      BY PlanFacts DEF PlacingInv, Typed
    <2> DEFINE f == [i \in 1 .. Length |-> plan.order[i]]
    <2>2. f \in Injection(1 .. Length, Datasets)
      <3>1. f \in [1 .. Length -> Datasets]
        BY <2>1, OnlyAffected
      <3>2. \A i, j \in 1 .. Length : f[i] = f[j] => i = j
        BY <2>1
      <3> HIDE DEF f
      <3> QED BY <3>1, <3>2 DEF Injection, IsInjective
    <2>3. IsFiniteSet(1 .. Length) /\ Cardinality(1 .. Length) = Length
      BY <2>1, FS_Interval
    <2> HIDE DEF f
    <2>4. Length <= Cardinality(Datasets) /\ Cardinality(Datasets) \in Nat
      BY <2>2, <2>3, RebuildAssumption, FS_Injection, FS_CardinalityType
    <2>5. placed[d] < Length + 1
      BY <1>1 DEF PlacingInv, Deep
    <2> QED BY <1>1, <2>1, <2>4, <2>5
  <1>3. \A T \in SUBSET Datasets : step[T] = UNION {PlanParents(e) : e \in T} /\ step[T] \in SUBSET Datasets
    BY OnlyAffected
  <1>4. step \in [SUBSET Datasets -> SUBSET Datasets]
    <2>1. step = [T \in SUBSET Datasets |-> step[T]]
      OBVIOUS
    <2> HIDE DEF step
    <2> QED BY <1>3, <2>1
  <1>5. IsIteration(reaches, N, A, step)
    BY DEF IsIteration
  <1>6. LongestChainTo(d) = CHOOSE n \in DOMAIN reaches :
                            reaches[n] # {} /\ \A m \in DOMAIN reaches : m > n => reaches[m] = {}
    BY DEF LongestChainTo
  <1>7. A \in SUBSET Datasets
    BY <1>1
  <1> HIDE DEF N, step, reaches
  <1>8. /\ reaches \in [0 .. N -> SUBSET Datasets] /\ reaches[0] = A
        /\ \A n \in 0 .. N : n + 1 \in 0 .. N => reaches[n + 1] = step[reaches[n]]
    <2> DEFINE W == SUBSET Datasets
    <2>1. A \in W /\ step \in [W -> W]
      BY <1>4, <1>7
    <2> HIDE DEF W, A
    <2>2. /\ reaches \in [0 .. N -> W] /\ reaches[0] = A
          /\ \A n \in 0 .. N : n + 1 \in 0 .. N => reaches[n + 1] = step[reaches[n]]
      BY <1>2, <1>5, <2>1, Iterates
    <2> QED BY <2>2 DEF W
  <1>9. \A n \in 0 .. N : n + 1 \in 0 .. N => reaches[n + 1] = UNION {PlanParents(e) : e \in reaches[n]}
    BY <1>3, <1>8
  <1>10. \A n \in 0 .. N : \A e \in reaches[n] : e \in Acyclic /\ placed[e] <= placed[d] - n
    <2> DEFINE P == {n \in 0 .. N : \A e \in reaches[n] : e \in Acyclic /\ placed[e] <= placed[d] - n}
    <2>1. 0 \in P
      BY <1>1, <1>2, <1>8
    <2>2. ASSUME NEW n \in 0 .. N, n + 1 \in 0 .. N, n \in P PROVE n + 1 \in P
      <3>1. ASSUME NEW p \in reaches[n + 1] PROVE p \in Acyclic /\ placed[p] <= placed[d] - (n + 1)
        <4>1. PICK e \in reaches[n] : p \in PlanParents(e)
          BY <1>9, <2>2, <3>1
        <4>2. e \in Acyclic /\ placed[e] <= placed[d] - n
          BY <2>2, <4>1
        <4>3. p \in Acyclic /\ placed[p] \in Nat /\ placed[p] < placed[e] /\ placed[e] \in Nat
          BY <4>1, <4>2, AllAreDeep
        <4> QED BY <1>1, <4>2, <4>3
      <3> QED BY <2>2, <3>1
    <2>3. \A n \in 0 .. N : n \in P
      <3> HIDE DEF P
      <3> QED BY <1>2, <2>1, <2>2, UpTo
    <2> QED BY <2>3
  <1>11. \A n \in 0 .. placed[d] : \E e \in reaches[n] : placed[e] = placed[d] - n
    <2> DEFINE P == {n \in 0 .. placed[d] : \E e \in reaches[n] : placed[e] = placed[d] - n}
    <2>1. 0 \in P
      BY <1>1, <1>8
    <2>2. ASSUME NEW n \in 0 .. placed[d], n + 1 \in 0 .. placed[d], n \in P PROVE n + 1 \in P
      <3>1. PICK e \in reaches[n] : placed[e] = placed[d] - n
        BY <2>2
      <3>2. n \in 0 .. N /\ n + 1 \in 0 .. N
        BY <1>1, <1>2, <2>2
      <3>3. e \in Acyclic /\ placed[e] # 0
        BY <1>1, <1>10, <2>2, <3>1, <3>2
      <3>4. PICK p \in PlanParents(e) : placed[e] = placed[p] + 1
        BY <3>3, AllAreDeep
      <3>5. p \in reaches[n + 1]
        BY <1>9, <3>1, <3>2, <3>4
      <3>6. placed[p] = placed[d] - (n + 1)
        <4>1. placed[p] \in Nat
          BY <3>3, AllAreDeep
        <4> QED BY <1>1, <3>1, <3>4, <4>1
      <3> QED BY <2>2, <3>5, <3>6
    <2>3. \A n \in 0 .. placed[d] : n \in P
      <3> HIDE DEF P
      <3> QED BY <1>1, <2>1, <2>2, UpTo
    <2> QED BY <2>3
  <1>12. \A m \in 0 .. N : m > placed[d] => reaches[m] = {}
    <2> SUFFICES ASSUME NEW m \in 0 .. N, m > placed[d], NEW e \in reaches[m] PROVE FALSE
      OBVIOUS
    <2>1. e \in Acyclic /\ placed[e] <= placed[d] - m
      BY <1>10
    <2>2. placed[e] \in Nat
      BY <2>1, AllAreDeep
    <2> QED BY <1>1, <2>1, <2>2
  <1>13. reaches[placed[d]] # {} /\ placed[d] \in 0 .. N /\ DOMAIN reaches = 0 .. N
    BY <1>1, <1>2, <1>8, <1>11
  <1>14. ASSUME NEW n \in 0 .. N, reaches[n] # {}, \A m \in 0 .. N : m > n => reaches[m] = {}
         PROVE  n = placed[d]
    BY <1>1, <1>12, <1>13, <1>14
  <1>15. \E n \in DOMAIN reaches : reaches[n] # {} /\ \A m \in DOMAIN reaches : m > n => reaches[m] = {}
    BY <1>12, <1>13
  <1> QED BY <1>6, <1>13, <1>14, <1>15

\* The chain through the k-th dataset of the order, given those through the earlier ones.
Chain(f, k) ==
  LET order  == plan.order
      before == {f[j] : j \in {n \in 1 .. k - 1 : order[n] \in PlanParents(order[k])}} \cup {<< >>}
  IN  Append(CHOOSE s \in before : \A t \in before : Len(t) <= Len(s), order[k])

LEMMA ChainOfEarlier ==
  ASSUME NEW k \in Nat, NEW f, NEW g, \A j \in 1 .. k - 1 : f[j] = g[j]
  PROVE  Chain(f, k) = Chain(g, k)
  <1> DEFINE K == {n \in 1 .. k - 1 : plan.order[n] \in PlanParents(plan.order[k])}
  <1>1. {f[j] : j \in K} = {g[j] : j \in K}
    OBVIOUS
  <1> QED BY <1>1 DEF Chain

\* critical_path's table exists: a chain is made of the chains before it.
LEMMA ChainsExist ==
  ASSUME NEW N \in Nat, NEW best, best = CHOOSE f : f = [i \in 1 .. N |-> Chain(f, i)]
  PROVE  DOMAIN best = 1 .. N /\ \A i \in 1 .. N : best[i] = Chain(best, i)
  <1> DEFINE Good(f, n) == \A i \in 1 .. n : f[i] = Chain(f, i)
             P == {n \in 0 .. N : \E f : Good(f, n)}
  <1>1. 0 \in P
    <2>1. Good(<< >>, 0)
      OBVIOUS
    <2> QED BY <2>1
  <1>2. ASSUME NEW n \in 0 .. N, n + 1 \in 0 .. N, n \in P PROVE n + 1 \in P
    <2>1. PICK f : Good(f, n)
      BY <1>2
    <2> DEFINE g == [i \in 1 .. n + 1 |-> IF i = n + 1 THEN Chain(f, n + 1) ELSE f[i]]
    <2>2. \A i \in 1 .. n : g[i] = f[i]
      OBVIOUS
    <2>3. g[n + 1] = Chain(f, n + 1)
      OBVIOUS
    <2> HIDE DEF g
    <2>4. ASSUME NEW i \in 1 .. n + 1 PROVE g[i] = Chain(g, i)
      <3>1. i \in Nat /\ \A j \in 1 .. i - 1 : f[j] = g[j]
        BY <2>2
      <3>2. Chain(f, i) = Chain(g, i)
        BY <3>1, ChainOfEarlier
      <3>3. CASE i = n + 1
        BY <3>2, <3>3, <2>3
      <3>4. CASE i # n + 1
        <4>1. i \in 1 .. n
          BY <3>4
        <4> QED BY <4>1, <3>2, <2>1, <2>2
      <3> QED BY <3>3, <3>4
    <2> QED BY <1>2, <2>4
  <1>3. PICK f : Good(f, N)
    <2>1. \A n \in 0 .. N : n \in P
      <3> HIDE DEF P
      <3> QED BY <1>1, <1>2, UpTo
    <2>2. N \in P
      BY <2>1
    <2> QED BY <2>2
  <1> DEFINE h == [i \in 1 .. N |-> f[i]]
  <1>4. h = [i \in 1 .. N |-> Chain(h, i)]
    <2>1. ASSUME NEW i \in 1 .. N PROVE h[i] = Chain(h, i)
      <3>1. i \in Nat /\ \A j \in 1 .. i - 1 : f[j] = h[j]
        OBVIOUS
      <3>2. Chain(f, i) = Chain(h, i)
        <4> HIDE DEF h
        <4> QED BY <3>1, ChainOfEarlier
      <3> QED BY <1>3, <3>2
    <2>2. h = [i \in 1 .. N |-> h[i]]
      OBVIOUS
    <2> HIDE DEF h
    <2> QED BY <2>1, <2>2
  <1>5. best = [i \in 1 .. N |-> Chain(best, i)]
    <2> HIDE DEF h
    <2> QED BY <1>4
  <1> QED BY <1>5

\* Away from cycles the critical path has one dataset for each depth of the deepest.
LEMMA CriticalPathIs ==
  ASSUME PlacingInv, Exact, next = Length + 1, Acyclic = Affected
  PROVE  \E top \in Affected :
           /\ \A d \in Affected : placed[d] <= placed[top]
           /\ Len(CriticalPath) = placed[top] + 1
  <1> DEFINE best[i \in DOMAIN plan.order] ==
               LET before == {best[j] : j \in {k \in 1 .. i - 1 : plan.order[k] \in PlanParents(plan.order[i])}}
                             \cup {<< >>}
               IN  Append(CHOOSE s \in before : \A t \in before : Len(t) <= Len(s), plan.order[i])
             all == {best[i] : i \in DOMAIN plan.order} \cup {<< >>}
  <1>1. /\ Length \in Nat \ {0} /\ DOMAIN plan.order = 1 .. Length
        /\ Affected = {plan.order[i] : i \in 1 .. Length}
        /\ \A i, j \in 1 .. Length :
             plan.order[j] \in Acyclic /\ plan.order[i] \in PlanParents(plan.order[j]) => i < j
    BY PlanFacts DEF PlacingInv, Typed
  <1>2. CriticalPath = CHOOSE s \in all : \A t \in all : Len(t) <= Len(s)
    BY DEF CriticalPath
  <1>3. DOMAIN best = 1 .. Length /\ \A i \in 1 .. Length : best[i] = Chain(best, i)
    <2>1. best = CHOOSE f : f = [i \in 1 .. Length |-> Chain(f, i)]
      BY <1>1 DEF Chain
    <2> HIDE DEF best
    <2> QED BY <1>1, <2>1, ChainsExist
  <1> HIDE DEF best
  <1>4. \A d \in Affected : /\ d \in Datasets /\ d \in Acyclic /\ placed[d] \in Nat
                            /\ \A p \in PlanParents(d) : p \in Acyclic /\ placed[p] \in Nat /\ placed[p] < placed[d]
                            /\ placed[d] # 0 => \E p \in PlanParents(d) : placed[d] = placed[p] + 1
    BY AllAreDeep, OnlyAffected
  <1>5. \A i \in 1 .. Length : best[i] \in Seq(Datasets) /\ Len(best[i]) = placed[plan.order[i]] + 1
    <2> DEFINE P == {n \in 0 .. Length :
                       \A i \in 1 .. n : best[i] \in Seq(Datasets) /\ Len(best[i]) = placed[plan.order[i]] + 1}
    <2>1. 0 \in P
      BY <1>1
    <2>2. ASSUME NEW n \in 0 .. Length, n + 1 \in 0 .. Length, n \in P PROVE n + 1 \in P
      <3> DEFINE k == n + 1
                 d == plan.order[k]
                 K == {j \in 1 .. k - 1 : plan.order[j] \in PlanParents(d)}
                 before == {best[j] : j \in K} \cup {<< >>}
                 last == CHOOSE s \in before : \A t \in before : Len(t) <= Len(s)
      <3>1. k \in 1 .. Length /\ d \in Affected
        BY <1>1, <2>2
      <3>2. best[k] = Append(last, d)
        <4>1. best[k] = Chain(best, k)
          BY <1>3, <3>1
        <4> QED BY <4>1 DEF Chain
      <3>3. \A j \in K : best[j] \in Seq(Datasets) /\ Len(best[j]) = placed[plan.order[j]] + 1
                         /\ plan.order[j] \in PlanParents(d)
        BY <2>2
      <3>4. \A s \in before : s \in Seq(Datasets) /\ Len(s) <= placed[d]
        <4>1. << >> \in Seq(Datasets) /\ Len(<< >>) <= placed[d]
          BY <1>4, <3>1
        <4>2. ASSUME NEW j \in K PROVE best[j] \in Seq(Datasets) /\ Len(best[j]) <= placed[d]
          BY <1>4, <3>1, <3>3
        <4> QED BY <4>1, <4>2
      <3>5. \E s \in before : Len(s) = placed[d]
        <4>1. CASE placed[d] = 0
          BY <4>1
        <4>2. CASE placed[d] # 0
          <5>1. PICK p \in PlanParents(d) : placed[d] = placed[p] + 1
            BY <1>4, <3>1, <4>2
          <5>2. PICK j \in 1 .. Length : plan.order[j] = p
            BY <1>1, <5>1, OnlyAffected
          <5>3. j \in K
            BY <1>1, <1>4, <2>2, <3>1, <5>1, <5>2
          <5> QED BY <3>3, <5>1, <5>2, <5>3
        <4> QED BY <4>1, <4>2
      <3>6. last \in Seq(Datasets) /\ Len(last) = placed[d]
        <4> HIDE DEF before, d
        <4>1. PICK s \in before : Len(s) = placed[d]
          BY <3>5
        <4>2. \A t \in before : Len(t) <= Len(s)
          BY <3>4, <4>1
        <4>3. last \in before /\ \A t \in before : Len(t) <= Len(last)
          BY <4>2
        <4> HIDE DEF last
        <4>4. Len(last) \in Nat /\ Len(s) \in Nat /\ Len(s) <= Len(last) /\ Len(last) <= placed[d]
          BY <3>4, <4>1, <4>3
        <4> QED BY <3>4, <4>1, <4>3, <4>4
      <3> HIDE DEF last, K, before
      <3>7. best[k] \in Seq(Datasets) /\ Len(best[k]) = placed[d] + 1
        BY <1>4, <3>1, <3>2, <3>6
      <3>8. ASSUME NEW i \in 1 .. n + 1
            PROVE  best[i] \in Seq(Datasets) /\ Len(best[i]) = placed[plan.order[i]] + 1
        <4>1. CASE i = n + 1
          BY <3>7, <4>1
        <4>2. CASE i # n + 1
          <5>1. i \in 1 .. n
            BY <4>2
          <5> QED BY <2>2, <5>1
        <4> QED BY <4>1, <4>2
      <3> QED BY <2>2, <3>8
    <2>3. \A n \in 0 .. Length : n \in P
      <3> HIDE DEF P
      <3> QED BY <1>1, <2>1, <2>2, UpTo
    <2>4. Length \in P
      BY <1>1, <2>3
    <2> QED BY <2>4
  <1>6. PICK top \in Affected : \A d \in Affected : placed[d] <= placed[top]
    <2> DEFINE S == {placed[d] : d \in Affected}
               f == [d \in Affected |-> placed[d]]
    <2>1. IsFiniteSet(Affected)
      BY OrderHoldsThemAll DEF PlacingInv, Typed
    <2>2. S = {f[d] : d \in Affected}
      OBVIOUS
    <2>3. Affected = DOMAIN f
      OBVIOUS
    <2>4. IsFiniteSet({f[d] : d \in Affected})
      <3> HIDE DEF f
      <3> QED BY <2>1, <2>3, ImageIsFinite
    <2>5. S \in SUBSET Int /\ S # {}
      BY <1>1, <1>4
    <2>6. PICK m \in S : \A n \in S : n <= m
      <3> HIDE DEF S, f
      <3> QED BY <2>2, <2>4, <2>5, FiniteHasGreatest
    <2> QED BY <2>6
  <1>7. PICK i \in 1 .. Length : plan.order[i] = top
    BY <1>1
  <1>8. best[i] \in all /\ Len(best[i]) = placed[top] + 1
    BY <1>1, <1>5, <1>7
  <1>9. \A s \in all : Len(s) \in Nat /\ Len(s) <= placed[top] + 1
    <2>1. Len(<< >>) = 0 /\ placed[top] \in Nat
      BY <1>4
    <2>2. ASSUME NEW j \in 1 .. Length PROVE Len(best[j]) \in Nat /\ Len(best[j]) <= placed[top] + 1
      <3>1. plan.order[j] \in Affected
        BY <1>1
      <3> QED BY <1>4, <1>5, <1>6, <3>1
    <2> QED BY <1>1, <2>1, <2>2
  <1> HIDE DEF all
  <1>10. CriticalPath \in all /\ \A t \in all : Len(t) <= Len(CriticalPath)
    BY <1>2, <1>8, <1>9
  <1>11. Len(CriticalPath) = placed[top] + 1
    BY <1>4, <1>8, <1>9, <1>10
  <1> QED BY <1>6, <1>11

LEMMA EarliestFollows == WavesInv => WavesAreEarliest
  <1> SUFFICES ASSUME WavesInv, pc = "group", grouped = Affected
               PROVE  /\ \A d \in Acyclic : wave[d] = LongestChainTo(d)
                      /\ Acyclic = Affected => count = Len(CriticalPath)
    BY DEF WavesAreEarliest
  <1>1. PlacingInv /\ Exact /\ next = Length + 1
    BY DEF WavesInv, PlacingInv, Phased
  <1>2. ASSUME NEW d \in Acyclic PROVE wave[d] = LongestChainTo(d)
    BY <1>1, LongestChainIs, OnlyAffected DEF WavesInv, Numbered
  <1>3. ASSUME Acyclic = Affected PROVE count = Len(CriticalPath)
    <2>1. PICK top \in Affected : /\ \A d \in Affected : placed[d] <= placed[top]
                                  /\ Len(CriticalPath) = placed[top] + 1
      BY <1>1, <1>3, CriticalPathIs
    <2>2. \A d \in Affected : placed[d] \in Nat
      BY <1>1, <1>3, AllAreDeep
    <2>3. {placed[d] : d \in grouped} = 0 .. placed[top]
      <3>1. \A d \in Affected : placed[d] \in 0 .. placed[top]
        BY <2>1, <2>2
      <3>2. \A k \in 0 .. placed[top] : \E d \in Affected : placed[d] = k
        BY <1>1, <1>3, DepthsAreInUse
      <3> QED BY <3>1, <3>2
    <2>4. Cardinality(0 .. placed[top]) = placed[top] + 1
      BY <2>2, FS_Interval
    <2> QED BY <2>1, <2>3, <2>4 DEF WavesInv, Numbered
  <1> QED BY <1>2, <1>3

\* schedule, critical_path: "the maximum safe parallelism per level" - away from cycles every
\* dataset is in the earliest wave its inputs allow, and a plan without cycles has exactly
\* as many waves as its critical path has datasets.
THEOREM WavesAreAsEarly == Spec => []WavesAreEarliest
  <1>1. Init => WavesInv
    BY InitWaves
  <1>2. WavesInv /\ [Next]_vars => WavesInv'
    BY StepKeepsWaves
  <1>3. WavesInv => WavesAreEarliest
    BY EarliestFollows
  <1> QED BY <1>1, <1>2, <1>3, PTL DEF Spec
=============================================================================
