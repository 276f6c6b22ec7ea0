------------------------------ MODULE Erasure ------------------------------
(***************************************************************************)
(* Erasing a subject: plan_erasure of govern/erasure.py makes the datasets *)
(* the planner reaches its targets, in build order, and apply_erasure goes *)
(* through them with the engines' erase(), while the pipelines that build  *)
(* the tables keep running.  A table that a model defines is not deleted   *)
(* from but rebuilt from its inputs, so what the proof says depends on     *)
(* the order.                                                              *)
(***************************************************************************)
EXTENDS Integers, Sequences

CONSTANTS Datasets,
          Partitions,
          Requests       \* requests with what they meet, see ErasureAssumption

Cells      == Datasets \X Partitions
CellsOf(d) == {d} \X Partitions

\* The cells a rebuild of cell c reads: an edge maps a partition to itself or to all.
Reads(r, c) ==
  UNION {{e.from} \X (IF e.whole THEN Partitions ELSE {c[2]}) : e \in {x \in r.edges : x.to = c[1]}}

\* The cells a plan reaches.
Reach(r) == {c \in Cells : c[2] \in r.dirty[c[1]]}

\* A request is the graph's edges [from, to, whole]; how each table can be erased from
\* (a model is registered for it, it has the key column, or neither); what storage allows
\* (rewrite, none, or no adapter configured); the datasets with an eraser; whether the
\* engine rebuilds in one transaction; the cells with the subject's rows; and the
\* planner's answer.  What Planner checks of it, Sound, is assumed here, and that a model
\* reads some other table.
ASSUME ErasureAssumption ==
  \A r \in Requests :
    /\ \A e \in r.edges : e.from \in Datasets /\ e.to \in Datasets /\ e.whole \in BOOLEAN
    /\ r.how \in [Datasets -> {"model", "keyed", "opaque"}]
    /\ r.caps \in [Datasets -> {"rewrite", "none", "unset"}]
    /\ r.erasers \subseteq Datasets /\ r.transactional \in BOOLEAN
    /\ r.rows \subseteq Cells
    /\ r.dirty \in [Datasets -> SUBSET Partitions]
    /\ r.order \in Seq(Datasets)
    /\ \A d \in Datasets :
         r.dirty[d] # {} <=> \E i \in 1 .. Len(r.order) : r.order[i] = d
    /\ \A c \in Cells : Reads(r, c) \cap Reach(r) # {} => c \in Reach(r)
    /\ \A d \in Datasets :
         r.how[d] = "model" => \E e \in r.edges : e.to = d /\ e.from # d

VARIABLES request,
          holds,      \* cells that hold something of the subject
          others,     \* cells that hold something of everybody else
          entries,    \* of the proof being written: one status for each target so far
          dry, pc,    \* of the call of apply_erasure
          certified   \* a proof has said "complete"

data == <<holds, others>>
vars == <<request, data, entries, dry, pc, certified>>

Init ==
  /\ request \in Requests
  /\ holds = request.rows /\ others = Cells
  /\ entries = << >> /\ dry = TRUE /\ pc = "idle" /\ certified = FALSE

-----------------------------------------------------------------------------
Targets    == Len(request.order)
Handled    == Len(entries)
Target     == request.order[Handled + 1]
Blocked(d) == request.caps[d] # "rewrite"

\* The target's partitions.
Scope(d) == {d} \X request.dirty[d]

\* What of a set of cells is left when the cells of S are built anew from it.
Rebuilt(cells, S) == (cells \ S) \cup {c \in S : Reads(request, c) \cap (cells \ S) # {}}

\* apply_erasure is called, the first time or again after a failure or a dry run.
Call ==
  /\ pc \in {"idle", "raised", "done"}
  /\ dry' \in BOOLEAN
  /\ entries' = << >> /\ pc' = "applying"
  /\ UNCHANGED <<request, data, certified>>

AtTarget == pc = "applying" /\ Handled < Targets

SkipBlocked ==
  /\ AtTarget /\ Blocked(Target)
  /\ entries' = Append(entries, "blocked")
  /\ UNCHANGED <<request, data, dry, pc, certified>>

Describe ==
  /\ AtTarget /\ ~Blocked(Target) /\ dry
  /\ entries' = Append(entries, "planned")
  /\ UNCHANGED <<request, data, dry, pc, certified>>

SkipUnsupplied ==
  /\ AtTarget /\ ~Blocked(Target) /\ ~dry /\ Target \notin request.erasers
  /\ entries' = Append(entries, "blocked")
  /\ UNCHANGED <<request, data, dry, pc, certified>>

\* The eraser of the target is called.
AtEraser == AtTarget /\ ~Blocked(Target) /\ ~dry /\ Target \in request.erasers

\* Mutant: the statement lost its condition on the subject.
DeleteAllRows ==
  /\ AtEraser /\ request.how[Target] = "keyed"
  /\ holds' = holds \ Scope(Target) /\ others' = others \ Scope(Target)
  /\ entries' = Append(entries, "erased")
  /\ UNCHANGED <<request, dry, pc, certified>>

\* DELETE ... WHERE the key column is the subject.
DeleteRows ==
  /\ AtEraser /\ request.how[Target] = "keyed"
  /\ holds' = holds \ Scope(Target)
  /\ entries' = Append(entries, "erased")
  /\ UNCHANGED <<request, others, dry, pc, certified>>

\* DuckDB: BEGIN, DELETE the partitions, INSERT them from the model, COMMIT.
Rederive ==
  /\ AtEraser /\ request.how[Target] = "model" /\ request.transactional
  /\ holds' = Rebuilt(holds, Scope(Target)) /\ others' = Rebuilt(others, Scope(Target))
  /\ entries' = Append(entries, "erased")
  /\ UNCHANGED <<request, dry, pc, certified>>

\* Snowflake, BigQuery and Databricks: the same two statements, each on its own.
DeletePartitions ==
  /\ AtEraser /\ request.how[Target] = "model" /\ ~request.transactional
  /\ holds' = holds \ Scope(Target) /\ others' = others \ Scope(Target)
  /\ pc' = "inserting"
  /\ UNCHANGED <<request, entries, dry, certified>>

Built(cells) == {c \in Scope(Target) : Reads(request, c) \cap cells # {}}

InsertPartitions ==
  /\ pc = "inserting"
  /\ holds' = holds \cup Built(holds) /\ others' = others \cup Built(others)
  /\ entries' = Append(entries, "erased") /\ pc' = "applying"
  /\ UNCHANGED <<request, dry, certified>>

\* No key column and no model, a statement that fails, a lost connection: no proof.
Raise ==
  /\ AtEraser \/ pc = "inserting"
  /\ pc' = "raised"
  /\ UNCHANGED <<request, data, entries, dry, certified>>

\* Mutant: a proof is complete when the plan was.
CompletePlan == ~dry /\ \A i \in 1 .. Targets : ~Blocked(request.order[i])

Complete ==
  /\ ~dry
  /\ \A i \in 1 .. Targets : ~Blocked(request.order[i])
  /\ \A i \in 1 .. Handled : entries[i] = "erased"

Certify ==
  /\ pc = "applying" /\ Handled = Targets
  /\ certified' = (certified \/ Complete)
  /\ pc' = "done"
  /\ UNCHANGED <<request, data, entries, dry>>

\* The salt is looked at last: without one everything has been erased and no proof says so.
RefuseSalt ==
  /\ pc = "applying" /\ Handled = Targets
  /\ pc' = "raised"
  /\ UNCHANGED <<request, data, entries, dry, certified>>

\* A pipeline builds a partition of a table from its inputs, at any time.
Refresh(c) ==
  /\ Reads(request, c) # {}
  /\ holds'  = IF Reads(request, c) \cap holds # {} THEN holds \cup {c} ELSE holds \ {c}
  /\ others' = IF Reads(request, c) \cap others # {} THEN others \cup {c} ELSE others \ {c}
  /\ UNCHANGED <<request, entries, dry, pc, certified>>

Apply == \/ Call \/ SkipBlocked \/ Describe \/ SkipUnsupplied
         \/ DeleteRows \/ Rederive \/ DeletePartitions \/ InsertPartitions
         \/ Raise \/ Certify \/ RefuseSalt

Next == Apply \/ \E c \in Cells : Refresh(c)
Spec == Init /\ [][Next]_vars

-----------------------------------------------------------------------------
Statuses == {"blocked", "planned", "erased"}

\* The proof has an entry for each target at most.
TypeOK ==
  /\ holds \subseteq Cells /\ others \subseteq Cells
  /\ entries \in Seq(Statuses) /\ Handled <= Targets
  /\ dry \in BOOLEAN /\ certified \in BOOLEAN
  /\ pc \in {"idle", "applying", "inserting", "raised", "done"}
  /\ pc = "inserting" => Handled < Targets

\* The subject's rows all are where the plan looks: the partitions were named right and
\* the origin is a source, not a table built from one that holds the subject too.
Located == request.rows \subseteq Reach(request)

\* The order is one the planner gives away from cycles (BuildsDependenciesFirst).
InputsComeFirst ==
  \A e \in request.edges : \A i, j \in 1 .. Targets :
    request.order[i] = e.from /\ request.order[j] = e.to => i <= j

Gone(d) == holds \cap CellsOf(d) = {}

\* "A partial erasure must never read as a finished one" (ADR 6): once a proof has said
\* complete the subject is in no table of the graph, nor comes back by any rebuild,
\* whatever failed, was repeated or was rebuilt meanwhile.
CertifiedMeansGone == Located /\ InputsComeFirst /\ certified => holds = {}

\* The targets whose rows the i-th is made from, itself included.
MadeFrom(i) ==
  LET wider == [S \in SUBSET (1 .. Targets) |->
                  S \cup {j \in 1 .. Targets : \E k \in S : \E e \in request.edges :
                            e.from = request.order[j] /\ e.to = request.order[k]}]
      above[n \in 0 .. Targets] == IF n = 0 THEN {i} ELSE wider[above[n - 1]]
  IN  above[Targets]

\* Each entry of a proof, partial ones included, can be believed: a target marked erased
\* like all it is made from holds nothing of the subject.
EntriesAreTrue ==
  Located /\ InputsComeFirst =>
    \A i \in 1 .. Handled :
      (\A j \in MadeFrom(i) : j <= Handled /\ entries[j] = "erased") => Gone(request.order[i])

\* "never over-delete": an erasure in transactions leaves everybody else's data where it
\* was, at every moment, failures included.
NoBystanderLost == request.transactional => others = Cells

\* "Must be transactional" (Eraser.erase), of any engine: between two calls of erasers
\* everybody else's data is where it was.
ErasersAreTransactional == pc # "inserting" => others = Cells
=============================================================================
