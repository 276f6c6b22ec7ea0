------------------------------ MODULE Rebuild ------------------------------
(***************************************************************************)
(* From a plan to rebuilt tables: schedule of graph/plan/schedule.py puts  *)
(* the plan's datasets in waves and their partitions in batches, and       *)
(* fathom dag writes them down for an orchestrator (to_task_list, which    *)
(* the Airflow and Prefect files of report/orchestrators.py follow) or as  *)
(* a shell script (to_shell).  The batches then run, fail and are retried. *)
(***************************************************************************)
EXTENDS Integers, Sequences, FiniteSets

CONSTANTS Datasets,
          Plans,         \* plans to run, see RebuildAssumption
          MaxBatch,      \* max_batch
          Flavors,       \* of fathom dag: "tasks" or "shell"
          MaxFailures,   \* bound: batches that fail
          NoTime         \* the time of a partition that has none

\* The datasets of a plan, and the ones that must be built before d (self-loops aside).
AffectedBy(pl)   == {d \in Datasets : pl.dirty[d] # {}}
ParentsIn(pl, d) == {p \in AffectedBy(pl) : p # d /\ <<p, d>> \in pl.edges}

\* S and the datasets above it; the ones on a cycle; the ones no cycle is above.
AllAbove(pl, S) ==
  LET step == [T \in SUBSET Datasets |-> T \cup UNION {ParentsIn(pl, d) : d \in T}]
      reach[i \in 0 .. Cardinality(Datasets)] == IF i = 0 THEN S ELSE step[reach[i - 1]]
  IN  reach[Cardinality(Datasets)]

OnCycleIn(pl) == {d \in Datasets : d \in AllAbove(pl, ParentsIn(pl, d))}
AcyclicIn(pl) ==
  LET onCycle == OnCycleIn(pl)
  IN  {d \in AffectedBy(pl) : AllAbove(pl, {d}) \cap onCycle = {}}

\* A plan is the graph's edges, what is dirty ([rest, time] per partition, the time
\* counted in the batches' grain) and the build order.  A partition without a time covers
\* those with one (_absorb keeps one of them); of the order it is assumed what holds of
\* every one Planner gives, BuildsDependenciesFirst.
ASSUME RebuildAssumption ==
  /\ IsFiniteSet(Datasets) /\ MaxBatch \in Nat \ {0} /\ MaxFailures \in Nat /\ NoTime \notin Int
  /\ \A pl \in Plans :
       /\ pl.edges \subseteq Datasets \X Datasets
       /\ DOMAIN pl.order = 1 .. Len(pl.order) /\ Len(pl.order) \in Nat \ {0}
       /\ {pl.order[i] : i \in DOMAIN pl.order} = AffectedBy(pl)
       /\ \A i, j \in DOMAIN pl.order : pl.order[i] = pl.order[j] => i = j
       /\ \A d \in Datasets :
            /\ IsFiniteSet(pl.dirty[d])
            /\ \A k \in pl.dirty[d] : k = [rest |-> k.rest, time |-> k.time] /\ k.time \in Int \cup {NoTime}
            /\ \A j, k \in pl.dirty[d] : j.rest = k.rest /\ j.time = NoTime => k = j
       /\ LET acyclic == AcyclicIn(pl)
          IN  \A i, j \in DOMAIN pl.order :
                pl.order[j] \in acyclic /\ pl.order[i] \in ParentsIn(pl, pl.order[j]) => i < j

VARIABLES plan, flavor,       \* the input
          next, placed,       \* waves: position in the order; the depths found so far
          grouped, wave, count,   \* datasets put in a wave; their wave; waves so far
          status,             \* of each batch
          failures, pc

scheduling == <<next, placed, grouped, wave, count>>
vars == <<plan, flavor, scheduling, status, failures, pc>>

Affected   == AffectedBy(plan)
PlanParents(d) == ParentsIn(plan, d)
Acyclic    == AcyclicIn(plan)

-----------------------------------------------------------------------------
\* batch_partitions: partitions alike but for their time form runs of consecutive
\* times, cut after every most of them; one without a time is on its own.
RunStart(keys, k) ==
  CHOOSE t \in {j.time : j \in {x \in keys : x.time # NoTime}} :
    /\ t <= k.time
    /\ \A u \in t .. k.time : [k EXCEPT !.time = u] \in keys
    /\ [k EXCEPT !.time = t - 1] \notin keys

\* Mutant: a batch holds one more.
ChunkOneMore(keys, k, most) == (k.time - RunStart(keys, k)) \div (most + 1)

Chunk(keys, k, most) == (k.time - RunStart(keys, k)) \div most

Together(keys, j, k, most) ==
  \/ j = k
  \/ /\ j.time # NoTime /\ k.time # NoTime /\ j.rest = k.rest
     /\ RunStart(keys, j) = RunStart(keys, k) /\ Chunk(keys, j, most) = Chunk(keys, k, most)

BatchesOf(keys, most) == {{j \in keys : Together(keys, j, k, most)} : k \in keys}

BatchesIn(pl) ==
  UNION {{[dataset |-> d, keys |-> b] : b \in BatchesOf(pl.dirty[d], MaxBatch)} :
           d \in AffectedBy(pl)}
Batches == DOMAIN status

-----------------------------------------------------------------------------
Init ==
  /\ plan \in Plans /\ flavor \in Flavors
  /\ next = 1 /\ placed = [d \in Datasets |-> 0]
  /\ grouped = {} /\ wave = [d \in Datasets |-> 0] /\ count = 0
  /\ status = [b \in BatchesIn(plan) |-> "waiting"]
  /\ failures = 0 /\ pc = "place"

\* Mutant: a dataset goes after one parent, not after all of them.
DepthsOfOne(d) == IF PlanParents(d) = {} THEN {0} ELSE {placed[CHOOSE p \in PlanParents(d) : TRUE] + 1}

\* placed.get(parent, 0) + 1 for every parent in the plan; 0 without one.
DepthsFound(d) == {0} \cup {placed[p] + 1 : p \in PlanParents(d)}

Place ==
  /\ pc = "place" /\ next \in DOMAIN plan.order
  /\ LET d == plan.order[next]
     IN  \E depth \in DepthsFound(d) :
           /\ \A other \in DepthsFound(d) : other <= depth
           /\ placed' = [placed EXCEPT ![d] = depth]
  /\ next' = next + 1
  /\ UNCHANGED <<plan, flavor, grouped, wave, count, status, failures, pc>>

AllPlaced ==
  /\ pc = "place" /\ next \notin DOMAIN plan.order
  /\ pc' = "group"
  /\ UNCHANGED <<plan, flavor, scheduling, status, failures>>

\* The index of the wave of the datasets of a depth: enumerate over the waves.
Index(depth) == count

\* One wave for each depth in use, in increasing order.
AddWave ==
  /\ pc = "group"
  /\ \E least \in Affected \ grouped :
       /\ \A d \in Affected \ grouped : placed[least] <= placed[d]
       /\ LET new == {d \in Affected : placed[d] = placed[least]}
          IN  /\ grouped' = grouped \cup new
              /\ wave' = [d \in Datasets |-> IF d \in new THEN Index(placed[d]) ELSE wave[d]]
  /\ count' = count + 1
  /\ UNCHANGED <<plan, flavor, next, placed, status, failures, pc>>

AllGrouped ==
  /\ pc = "group" /\ grouped = Affected
  /\ pc' = "run"
  /\ UNCHANGED <<plan, flavor, scheduling, status, failures>>

\* Mutant: a batch waits for one batch of the wave before, not for all.
DependsOnOne(b) ==
  LET before == {c \in Batches : wave[c.dataset] = wave[b.dataset] - 1}
  IN  {c \in before : c = (CHOOSE x \in before : TRUE)}

\* Mutant: a batch waits for the batches of its own inputs, wherever they are.
DependsOnInputs(b) == {c \in Batches : c.dataset \in PlanParents(b.dataset)}

\* to_task_list's depends_on: every batch of the wave before.
DependsOn(b) == {c \in Batches : wave[c.dataset] = wave[b.dataset] - 1}

\* A task starts when all it depends on succeeded; the script's "wait" returns when all
\* that it started has ended, however it ended.
MayFollow(c) == status[c] = "ok" \/ (flavor = "shell" /\ status[c] = "failed")

Start(b) ==
  /\ pc = "run" /\ status[b] = "waiting"
  /\ \A c \in DependsOn(b) : MayFollow(c)
  /\ status' = [status EXCEPT ![b] = "running"]
  /\ UNCHANGED <<plan, flavor, scheduling, failures, pc>>

Succeed(b) ==
  /\ status[b] = "running"
  /\ status' = [status EXCEPT ![b] = "ok"]
  /\ UNCHANGED <<plan, flavor, scheduling, failures, pc>>

Fail(b) ==
  /\ status[b] = "running" /\ failures < MaxFailures
  /\ failures' = failures + 1
  /\ status' = [status EXCEPT ![b] = "failed"]
  /\ UNCHANGED <<plan, flavor, scheduling, pc>>

\* An operator clears a failed task of the orchestrator.
Retry(b) ==
  /\ flavor = "tasks" /\ status[b] = "failed"
  /\ status' = [status EXCEPT ![b] = "waiting"]
  /\ UNCHANGED <<plan, flavor, scheduling, failures, pc>>

Schedule == Place \/ AllPlaced \/ AddWave \/ AllGrouped
Progress == Schedule \/ \E b \in Batches : Start(b) \/ Succeed(b)
Next     == Progress \/ \E b \in Batches : Fail(b) \/ Retry(b)

\* The generator runs to its end and the orchestrator starts what may start; a running
\* batch ends.  Nobody has to retry.
Spec == Init /\ [][Next]_vars /\ WF_vars(Progress)

-----------------------------------------------------------------------------
Statuses == {"waiting", "running", "ok", "failed"}

\* A plan of n datasets has at most n waves, numbered from 0, and the batches that run
\* are the plan's.
TypeOK ==
  /\ next \in 1 .. Len(plan.order) + 1
  /\ placed \in [Datasets -> 0 .. Len(plan.order)]
  /\ grouped \subseteq Affected
  /\ wave \in [Datasets -> 0 .. Len(plan.order) - 1] /\ count \in 0 .. Len(plan.order)
  /\ status \in [BatchesIn(plan) -> Statuses]
  /\ failures \in 0 .. MaxFailures

\* "Partition keys travel with the task": every partition of the plan is in one batch,
\* no batch is longer than max_batch, and each is one stretch of time.
EachPartitionOnce ==
  /\ \A d \in Affected : \A k \in plan.dirty[d] :
       Cardinality({b \in Batches : b.dataset = d /\ k \in b.keys}) = 1
  /\ \A b \in Batches :
       /\ b.keys \subseteq plan.dirty[b.dataset]
       /\ Cardinality(b.keys) <= MaxBatch
       /\ \A j, k \in b.keys : j # k =>
            \A t \in j.time .. k.time : [j EXCEPT !.time = t] \in b.keys

Started(b) == status[b] # "waiting"

\* "Wave boundaries are real dependencies": away from cycles no batch starts before
\* every batch of every dataset it is built from has succeeded, whatever fails and is
\* retried.
InputsFirst ==
  LET acyclic == Acyclic
  IN  \A b \in {x \in Batches : Started(x) /\ x.dataset \in acyclic} :
        \A c \in Batches : c.dataset \in PlanParents(b.dataset) => status[c] = "ok"

\* What an orchestrator is given: the partitions of the plan in batches, and an order that
\* waits for what they are built from.
BatchesCanBeTrusted == EachPartitionOnce /\ InputsFirst

\* Reference definition: edges on the longest chain of affected datasets ending in d.
LongestChainTo(d) ==
  LET step == [T \in SUBSET Datasets |-> UNION {PlanParents(e) : e \in T}]
      reaches[n \in 0 .. Cardinality(Datasets)] == IF n = 0 THEN {d} ELSE step[reaches[n - 1]]
  IN  CHOOSE n \in DOMAIN reaches :
        reaches[n] # {} /\ \A m \in DOMAIN reaches : m > n => reaches[m] = {}

\* critical_path: the longest of the parents' chains, in plan order, and the dataset.
CriticalPath ==
  LET order == plan.order
      best[i \in DOMAIN order] ==
        LET before == {best[j] : j \in {k \in 1 .. i - 1 : order[k] \in PlanParents(order[i])}}
                      \cup {<< >>}
        IN  Append(CHOOSE s \in before : \A t \in before : Len(t) <= Len(s), order[i])
      all == {best[i] : i \in DOMAIN order} \cup {<< >>}
  IN  CHOOSE s \in all : \A t \in all : Len(t) <= Len(s)

\* "the maximum safe parallelism per level": away from cycles a dataset is in the
\* earliest wave its inputs allow, so a plan without cycles has as many waves as its
\* critical path has datasets, "the lower bound no amount of parallelism removes".
WavesAreEarliest ==
  pc = "group" /\ grouped = Affected =>
    /\ \A d \in Acyclic : wave[d] = LongestChainTo(d)
    /\ Acyclic = Affected => count = Len(CriticalPath)

\* "a cycle the planner widened around does not become a scheduler deadlock": unless
\* a batch that failed is left so, every batch of every plan is rebuilt.
EverythingIsRebuilt ==
  ([]<>(\A b \in Batches : status[b] # "failed")) => <>(\A b \in Batches : status[b] = "ok")
=============================================================================
