-------------------------- MODULE GovernanceProofs --------------------------
(***************************************************************************)
(* What the registries of govern/ promise, for every value of the          *)
(* constants: keys, tenancy and roles (Access), copies (Copies), approvals *)
(* and the audit log (Decisions), sensitivity labels (Labels), and what is *)
(* concluded from profiles (Monitor).  Each has its own inductive          *)
(* invariant; the run's properties combine them.  The first part is about  *)
(* Erasure alone, for every graph, request and set of erasers, any number  *)
(* of calls, failures and rebuilds by pipelines: a proof that says         *)
(* complete is true for ever, and an erasure in transactions loses nothing *)
(* of anybody else.                                                        *)
(***************************************************************************)
EXTENDS MCGovernance, Rounds, FiniteSetTheorems, FunctionTheorems, SequenceTheorems, TLAPS

(***************************************************************************)
(* govern/erasure.py                                                       *)
(***************************************************************************)

\* Cells and what they are built from.
LEMMA CellFacts ==
  /\ \A d \in Datasets : CellsOf(d) \subseteq Cells
  /\ \A c \in Cells : c[1] \in Datasets /\ c[2] \in Partitions /\ c = <<c[1], c[2]>>
  /\ \A d, c : c \in CellsOf(d) <=> c \in {d} \X Partitions
  BY DEF Cells, CellsOf

\* A cell is read through an edge into its table.
LEMMA ReadsFacts ==
  ASSUME NEW r \in Requests, NEW c \in Cells, NEW x \in Reads(r, c)
  PROVE  x \in Cells /\ \E e \in r.edges : e.to = c[1] /\ x[1] = e.from
  <1>1. PICK e \in {y \in r.edges : y.to = c[1]} :
          x \in {e.from} \X (IF e.whole THEN Partitions ELSE {c[2]})
    BY DEF Reads
  <1>2. e \in r.edges /\ e.to = c[1]
    BY <1>1
  <1>3. e.from \in Datasets
    BY <1>2, ErasureAssumption
  <1>4. (IF e.whole THEN Partitions ELSE {c[2]}) \subseteq Partitions
    BY CellFacts
  <1>5. x \in {e.from} \X Partitions
    BY <1>1, <1>4
  <1>6. x \in Cells /\ x[1] = e.from
    BY <1>3, <1>5 DEF Cells
  <1> QED BY <1>2, <1>6

\* A model's partition reads a cell of another table.
LEMMA ModelReadsAnother ==
  ASSUME NEW r \in Requests, NEW d \in Datasets, r.how[d] = "model", NEW c \in CellsOf(d)
  PROVE  \E x \in Reads(r, c) : x \in Cells /\ x[1] # d
  <1>1. c \in Cells /\ c[1] = d /\ c[2] \in Partitions
    BY DEF Cells, CellsOf
  <1>2. PICK e \in r.edges : e.to = d /\ e.from # d
    BY ErasureAssumption
  <1>3. e.from \in Datasets
    BY ErasureAssumption
  <1> DEFINE x == <<e.from, c[2]>>
  <1>4. x \in {e.from} \X (IF e.whole THEN Partitions ELSE {c[2]})
    BY <1>1
  <1>5. e \in {y \in r.edges : y.to = c[1]}
    BY <1>1, <1>2
  <1>6. x \in Reads(r, c)
    BY <1>4, <1>5 DEF Reads
  <1>7. x \in Cells /\ x[1] # d
    BY <1>1, <1>2, <1>3 DEF Cells
  <1> QED BY <1>6, <1>7

\* The plan's targets are the tables its reach has cells in.
LEMMA TargetFacts ==
  ASSUME request \in Requests
  PROVE  /\ Targets \in Nat
         /\ \A i \in 1 .. Targets : request.order[i] \in Datasets
         /\ \A c \in Reach(request) :
              c \in Cells /\ \E i \in 1 .. Targets : request.order[i] = c[1]
         /\ \A c \in Cells : Reads(request, c) \cap Reach(request) # {} => c \in Reach(request)
  <1>1. request.order \in Seq(Datasets)
    BY ErasureAssumption
  <1>2. \A d \in Datasets :
          request.dirty[d] # {} <=> \E i \in 1 .. Len(request.order) : request.order[i] = d
    BY ErasureAssumption
  <1>3. \A c \in Cells : Reads(request, c) \cap Reach(request) # {} => c \in Reach(request)
    BY ErasureAssumption
  <1>4. Targets \in Nat /\ \A i \in 1 .. Targets : request.order[i] \in Datasets
    BY <1>1 DEF Targets
  <1>5. ASSUME NEW c \in Reach(request)
        PROVE  c \in Cells /\ \E i \in 1 .. Targets : request.order[i] = c[1]
    <2>1. c \in Cells /\ c[2] \in request.dirty[c[1]]
      BY DEF Reach
    <2>2. c[1] \in Datasets /\ request.dirty[c[1]] # {}
      BY <2>1, CellFacts
    <2> QED BY <2>1, <2>2, <1>2 DEF Targets
  <1> QED BY <1>3, <1>4, <1>5

-----------------------------------------------------------------------------
(* Type correctness. *)

Typed == TypeOK /\ request \in Requests

LEMMA TypedInit == Init => Typed
  <1> SUFFICES ASSUME Init PROVE Typed
    OBVIOUS
  <1>1. request \in Requests /\ request.rows \subseteq Cells
    BY ErasureAssumption DEF Init
  <1>2. Targets \in Nat
    BY <1>1, TargetFacts
  <1>3. entries \in Seq(Statuses) /\ Handled = 0
    BY DEF Init, Handled
  <1>4. dry \in BOOLEAN /\ certified \in BOOLEAN
    BY Zenon DEF Init
  <1>5. Handled <= Targets
    BY <1>2, <1>3
  <1>6. pc = "idle" /\ holds = request.rows /\ others = Cells
    BY DEF Init
  <1>7. pc # "inserting"
    BY <1>6
  <1> QED BY <1>1, <1>3, <1>4, <1>5, <1>6, <1>7, Zenon DEF Typed, TypeOK

LEMMA TypedNext == Typed /\ [Next]_vars => Typed'
  <1> SUFFICES ASSUME Typed, [Next]_vars PROVE Typed'
    OBVIOUS
  <1> USE DEF Typed, TypeOK, Statuses
  <1>1. Targets \in Nat
    BY TargetFacts
  <1>2. request' = request
    BY DEF Next, Apply, vars, Call, SkipBlocked, Describe, SkipUnsupplied, DeleteRows, Rederive,
           DeletePartitions, InsertPartitions, Raise, Certify, RefuseSalt, Refresh
  <1>3. Targets' = Targets
    BY <1>2 DEF Targets
  <1>4. \A n : n \in Nat /\ n < Targets => n + 1 <= Targets
    BY <1>1
  <1>5. Handled \in Nat
    BY DEF Handled
  <1>6. ASSUME NEW s \in Statuses, entries' = Append(entries, s)
        PROVE  entries' \in Seq(Statuses) /\ Handled' = Handled + 1
    BY <1>6 DEF Handled
  <1>7. AtTarget => Handled < Targets
    BY DEF AtTarget
  <1>8. CASE Call
    <2>1. entries' \in Seq(Statuses) /\ Handled' = 0
      BY <1>8 DEF Call, Handled
    <2> QED BY <1>1, <1>2, <1>3, <1>8, <2>1 DEF Call, data
  <1>9. CASE SkipBlocked
    BY <1>2, <1>3, <1>4, <1>5, <1>6, <1>7, <1>9 DEF SkipBlocked, AtTarget, data
  <1>10. CASE Describe
    BY <1>2, <1>3, <1>4, <1>5, <1>6, <1>7, <1>10 DEF Describe, AtTarget, data
  <1>11. CASE SkipUnsupplied
    BY <1>2, <1>3, <1>4, <1>5, <1>6, <1>7, <1>11 DEF SkipUnsupplied, AtTarget, data
  <1>12. CASE DeleteRows
    BY <1>2, <1>3, <1>4, <1>5, <1>6, <1>7, <1>12 DEF DeleteRows, AtEraser, AtTarget
  <1> DEFINE scope == Scope(Target)
  <1>13. AtEraser \/ pc = "inserting" => scope \subseteq Cells
    <2> SUFFICES ASSUME Handled < Targets PROVE scope \subseteq Cells
      BY DEF AtEraser, AtTarget
    <2>1. Handled + 1 \in 1 .. Targets
      BY <1>1, <1>5
    <2>2. Target \in Datasets
      BY <2>1, TargetFacts DEF Target
    <2>3. request.dirty[Target] \subseteq Partitions
      BY <2>2, ErasureAssumption
    <2> QED BY <2>2, <2>3 DEF Scope, Cells
  <1>14. CASE Rederive
    <2>1. \A S : S \subseteq Cells => Rebuilt(S, scope) \subseteq Cells
      BY <1>13, <1>14 DEF Rebuilt, Rederive
    <2> QED BY <1>2, <1>3, <1>4, <1>5, <1>6, <1>7, <1>14, <2>1 DEF Rederive, AtEraser, AtTarget
  <1>15. CASE DeletePartitions
    BY <1>2, <1>3, <1>15 DEF DeletePartitions, AtEraser, AtTarget, Handled
  <1>16. CASE InsertPartitions
    <2>1. \A S : Built(S) \subseteq Cells
      BY <1>13, <1>16 DEF Built, InsertPartitions
    <2> QED BY <1>2, <1>3, <1>4, <1>5, <1>6, <1>16, <2>1 DEF InsertPartitions
  <1>17. CASE Raise
    BY <1>2, <1>3, <1>17 DEF Raise, data, Handled
  <1>18. CASE Certify
    <2>1. Complete \in BOOLEAN
      BY DEF Complete
    <2> QED BY <1>2, <1>3, <1>18, <2>1 DEF Certify, data, Handled
  <1>19. CASE RefuseSalt
    BY <1>2, <1>3, <1>19 DEF RefuseSalt, data, Handled
  <1>20. CASE \E c \in Cells : Refresh(c)
    BY <1>2, <1>3, <1>20 DEF Refresh, Handled
  <1>21. CASE UNCHANGED vars
    BY <1>21 DEF vars, data, Handled, Targets
  <1> QED
    BY <1>8, <1>9, <1>10, <1>11, <1>12, <1>14, <1>15, <1>16, <1>17, <1>18, <1>19, <1>20, <1>21
    DEF Next, Apply

\* The proof under way never has more entries than the plan has targets, in whatever call.
THEOREM TypeCorrect == Spec => []TypeOK
  <1>1. Typed => TypeOK
    BY DEF Typed
  <1> QED BY <1>1, TypedInit, TypedNext, PTL DEF Spec

-----------------------------------------------------------------------------
(* A proof that says complete is true.  Where every copy is within reach and inputs come *)
(* first, the targets erased so far, when nothing before them was left out, are clean    *)
(* and what is built from clean cells is clean.                                          *)

ErasedTo(n) == \A m \in 1 .. n : entries[m] = "erased"

Safe ==
  /\ holds \subseteq Reach(request)
  /\ \A j \in 1 .. Handled : ErasedTo(j) => Gone(request.order[j])
  /\ pc = "inserting" /\ ErasedTo(Handled) => Gone(Target)
  /\ certified => holds = {}

SafeIfOrdered == Located /\ InputsComeFirst => Safe

\* The cells of H are cells of G or built from some.
MadeOf(H, G) ==
  \A c \in H : c \in G \/ (c \in Cells /\ Reads(request, c) \cap G # {})

\* What rebuilds make of cells within reach stays within reach, is nothing if they are
\* none, and leaves a target clean when it and all before it are.
LEMMA SpreadWithin ==
  ASSUME request \in Requests, InputsComeFirst,
         NEW G, G \subseteq Reach(request),
         NEW H, MadeOf(H, G)
  PROVE  /\ H \subseteq Reach(request)
         /\ G = {} => H = {}
         /\ \A j \in 1 .. Targets :
              (\A i \in 1 .. j : G \cap CellsOf(request.order[i]) = {})
                => H \cap CellsOf(request.order[j]) = {}
  <1> USE DEF MadeOf
  <1>1. H \subseteq Reach(request)
    BY TargetFacts
  <1>2. G = {} => H = {}
    OBVIOUS
  <1>3. ASSUME NEW j \in 1 .. Targets,
               \A i \in 1 .. j : G \cap CellsOf(request.order[i]) = {},
               NEW c \in H, c \in CellsOf(request.order[j])
        PROVE  FALSE
    <2>1. Targets \in Nat
      BY TargetFacts
    <2>2. c \notin G
      BY <1>3, <2>1
    <2>3. c \in Cells
      BY <1>1, TargetFacts
    <2>4. PICK x \in Reads(request, c) : x \in G
      BY <2>2
    <2>5. x \in Cells
      BY <2>3, ReadsFacts
    <2>6. PICK e \in request.edges : e.to = c[1] /\ x[1] = e.from
      BY <2>3, ReadsFacts
    <2>7. PICK i \in 1 .. Targets : request.order[i] = x[1]
      BY <2>4, TargetFacts
    <2>8. c[1] = request.order[j]
      BY <1>3 DEF CellsOf
    <2>9. i <= j
      BY <2>6, <2>7, <2>8 DEF InputsComeFirst
    <2>10. x \in CellsOf(request.order[i])
      BY <2>5, <2>7 DEF Cells, CellsOf
    <2> QED BY <1>3, <2>1, <2>4, <2>9, <2>10
  <1> QED BY <1>1, <1>2, <1>3

\* The cells of a clean plan are clean: nothing within reach is left.
LEMMA AllClean ==
  ASSUME request \in Requests, holds \subseteq Reach(request),
         \A j \in 1 .. Targets : Gone(request.order[j])
  PROVE  holds = {}
  <1> SUFFICES ASSUME NEW c \in holds PROVE FALSE
    OBVIOUS
  <1>1. c \in Cells
    BY TargetFacts
  <1>2. PICK j \in 1 .. Targets : request.order[j] = c[1]
    BY TargetFacts
  <1>3. c \in CellsOf(request.order[j])
    BY <1>1, <1>2 DEF Cells, CellsOf
  <1> QED BY <1>2, <1>3 DEF Gone

LEMMA SafeInit == Init => SafeIfOrdered
  <1> SUFFICES ASSUME Init, Located, InputsComeFirst PROVE Safe
    BY DEF SafeIfOrdered
  <1>1. Handled = 0
    BY DEF Init, Handled
  <1>2. holds \subseteq Reach(request) /\ pc = "idle"
    BY DEF Init, Located
  <1>3. ~certified
    BY Zenon DEF Init
  <1>4. \A j \in 1 .. Handled : ErasedTo(j) => Gone(request.order[j])
    BY <1>1
  <1> QED BY <1>2, <1>3, <1>4 DEF Safe

\* A step that writes no entry and spreads nothing new keeps what is safe.
LEMMA SafeKept ==
  ASSUME Typed, InputsComeFirst, Safe, request' = request, entries' = entries,
         MadeOf(holds', holds),
         pc' = "inserting" => pc = "inserting" \/ (Handled < Targets /\ Gone(Target)'),
         certified' => certified
  PROVE  Safe'
  <1> USE DEF Safe
  <1>1. /\ holds' \subseteq Reach(request)
        /\ holds = {} => holds' = {}
        /\ \A j \in 1 .. Targets :
             (\A i \in 1 .. j : holds \cap CellsOf(request.order[i]) = {})
               => holds' \cap CellsOf(request.order[j]) = {}
    BY SpreadWithin DEF Typed
  <1>2. Handled' = Handled /\ Reach(request)' = Reach(request) /\ Target' = Target
    BY DEF Handled, Reach, Target
  <1>3. Handled \in Nat /\ Targets \in Nat /\ Handled <= Targets
    BY TargetFacts DEF Typed, TypeOK, Handled
  <1>4. \A n : ErasedTo(n)' <=> ErasedTo(n)
    BY DEF ErasedTo
  <1>5. ASSUME NEW j \in 1 .. Handled, ErasedTo(j) PROVE Gone(request.order[j])'
    <2>1. \A i \in 1 .. j : Gone(request.order[i])
      BY <1>3, <1>5 DEF ErasedTo
    <2>2. holds' \cap CellsOf(request.order[j]) = {}
      BY <1>1, <1>3, <2>1 DEF Gone
    <2> QED BY <2>2 DEF Gone, CellsOf
  <1>6. ASSUME pc' = "inserting", ErasedTo(Handled) PROVE Gone(Target)'
    <2>1. CASE pc = "inserting"
      <3>1. Handled + 1 \in 1 .. Targets
        BY <1>3, <2>1 DEF Typed, TypeOK
      <3>2. \A i \in 1 .. Handled : Gone(request.order[i])
        BY <1>3, <1>6 DEF ErasedTo
      <3>3. Gone(request.order[Handled + 1])
        BY <1>6, <2>1 DEF Target
      <3>4. \A i \in 1 .. Handled + 1 : holds \cap CellsOf(request.order[i]) = {}
        BY <1>3, <3>2, <3>3 DEF Gone
      <3>5. holds' \cap CellsOf(Target) = {}
        BY <1>1, <3>1, <3>4 DEF Target
      <3> QED BY <1>2, <3>5 DEF Gone, CellsOf
    <2> QED BY <1>6, <2>1
  <1> QED BY <1>1, <1>2, <1>4, <1>5, <1>6

\* A step that writes an entry, "erased" only over a clean target when those before it
\* are, keeps what is safe.
LEMMA SafeExtended ==
  ASSUME Typed, InputsComeFirst, Safe, request' = request, Handled < Targets,
         NEW s \in Statuses, entries' = Append(entries, s),
         MadeOf(holds', holds),
         s = "erased" /\ ErasedTo(Handled) => holds' \cap CellsOf(Target) = {},
         pc' # "inserting", certified' => certified
  PROVE  Safe'
  <1> USE DEF Safe
  <1>1. /\ holds' \subseteq Reach(request)
        /\ holds = {} => holds' = {}
        /\ \A j \in 1 .. Targets :
             (\A i \in 1 .. j : holds \cap CellsOf(request.order[i]) = {})
               => holds' \cap CellsOf(request.order[j]) = {}
    BY SpreadWithin DEF Typed
  <1>2. entries \in Seq(Statuses) /\ Handled \in Nat /\ Targets \in Nat
    BY TargetFacts DEF Typed, TypeOK, Handled
  <1>3. /\ Handled' = Handled + 1 /\ Reach(request)' = Reach(request)
        /\ \A m \in 1 .. Handled : entries'[m] = entries[m]
        /\ entries'[Handled + 1] = s
    BY <1>2 DEF Handled, Reach
  <1>4. ASSUME NEW j \in 1 .. Handled + 1, ErasedTo(j)' PROVE Gone(request.order[j])'
    <2>1. \A m \in 1 .. j : entries'[m] = "erased"
      BY <1>4 DEF ErasedTo
    <2>2. holds' \cap CellsOf(request.order[j]) = {}
      <3>1. CASE j = Handled + 1
        <4>1. s = "erased"
          BY <1>3, <2>1, <3>1
        <4>2. \A m \in 1 .. Handled : m \in 1 .. j
          BY <1>2, <3>1
        <4>3. \A m \in 1 .. Handled : entries[m] = "erased"
          BY <1>3, <2>1, <4>2
        <4>4. ErasedTo(Handled)
          BY <4>3 DEF ErasedTo
        <4> QED BY <3>1, <4>1, <4>4 DEF Target
      <3>2. CASE j # Handled + 1
        <4>1. j \in 1 .. Handled /\ j \in 1 .. Targets
          BY <1>2, <3>2
        <4>5. \A m \in 1 .. j : m \in 1 .. Handled
          BY <1>2, <4>1
        <4>2. \A m \in 1 .. j : entries[m] = "erased"
          BY <1>3, <2>1, <4>5
        <4>3. ASSUME NEW i \in 1 .. j PROVE Gone(request.order[i])
          <5>1. i \in 1 .. Handled /\ \A m \in 1 .. i : m \in 1 .. j
            BY <1>2, <4>1
          <5>2. ErasedTo(i)
            BY <4>2, <5>1 DEF ErasedTo
          <5> QED BY <5>1, <5>2
        <4> QED BY <1>1, <4>1, <4>3 DEF Gone
      <3> QED BY <3>1, <3>2
    <2> QED BY <2>2 DEF Gone, CellsOf
  <1> QED BY <1>1, <1>3, <1>4

\* The cells of a target within reach are those in its scope.
LEMMA ScopeFacts ==
  ASSUME Typed, Safe, Handled < Targets
  PROVE  /\ Handled + 1 \in 1 .. Targets /\ Target \in Datasets
         /\ (holds \ Scope(Target)) \cap CellsOf(Target) = {}
         /\ Scope(Target) \subseteq CellsOf(Target) /\ Scope(Target) \subseteq Cells
  <1>1. Handled \in Nat /\ Targets \in Nat
    BY TargetFacts DEF Typed, TypeOK, Handled
  <1>2. Handled + 1 \in 1 .. Targets
    BY <1>1
  <1>3. Target \in Datasets
    BY <1>2, TargetFacts DEF Typed, Target
  <1>4. request.dirty[Target] \subseteq Partitions
    BY <1>3, ErasureAssumption DEF Typed
  <1>5. ASSUME NEW c \in holds, c \in CellsOf(Target) PROVE c \in Scope(Target)
    <2>1. c \in Cells /\ c[2] \in request.dirty[c[1]]
      BY DEF Safe, Reach
    <2>2. c[1] = Target /\ c = <<c[1], c[2]>>
      BY <1>5, <2>1, CellFacts DEF CellsOf
    <2> QED BY <2>1, <2>2 DEF Scope
  <1> QED BY <1>2, <1>3, <1>4, <1>5 DEF Scope, CellsOf, Cells

LEMMA SafeNext == Typed /\ SafeIfOrdered /\ [Next]_vars => SafeIfOrdered'
  <1>1. Typed /\ [Next]_vars => request' = request
    BY DEF Next, Apply, vars, Call, SkipBlocked, Describe, SkipUnsupplied, DeleteRows, Rederive,
           DeletePartitions, InsertPartitions, Raise, Certify, RefuseSalt, Refresh
  <1>2. request' = request => /\ Located' = Located /\ InputsComeFirst' = InputsComeFirst
                              /\ Targets' = Targets
    BY DEF Located, InputsComeFirst, Targets, Reach
  <1> SUFFICES ASSUME Typed, [Next]_vars, Located, InputsComeFirst, Safe PROVE Safe'
    BY <1>1, <1>2 DEF SafeIfOrdered
  <1>3. request' = request
    BY <1>1
  <1>4. \A s \in {"blocked", "planned", "erased"} : s \in Statuses
    BY DEF Statuses
  <1>5. CASE Call
    <2>1. Handled' = 0 /\ Reach(request)' = Reach(request) /\ holds' = holds
      BY <1>3, <1>5 DEF Call, Handled, Reach, data
    <2>2. pc' = "applying" /\ certified' = certified
      BY <1>5 DEF Call
    <2>3. holds' \subseteq Reach(request)' /\ (certified' => holds' = {})
      BY <2>1, <2>2 DEF Safe
    <2>4. \A j \in 1 .. Handled' : ErasedTo(j)' => Gone(request.order[j])'
      BY <2>1
    <2> QED BY <2>2, <2>3, <2>4 DEF Safe
  <1>6. CASE SkipBlocked
    <2>1. /\ entries' = Append(entries, "blocked") /\ holds' = holds /\ Handled < Targets
          /\ pc' # "inserting" /\ certified' = certified
      BY <1>6 DEF SkipBlocked, AtTarget, data
    <2> QED BY <1>3, <1>4, <2>1, SafeExtended DEF MadeOf
  <1>7. CASE Describe
    <2>1. /\ entries' = Append(entries, "planned") /\ holds' = holds /\ Handled < Targets
          /\ pc' # "inserting" /\ certified' = certified
      BY <1>7 DEF Describe, AtTarget, data
    <2> QED BY <1>3, <1>4, <2>1, SafeExtended DEF MadeOf
  <1>8. CASE SkipUnsupplied
    <2>1. /\ entries' = Append(entries, "blocked") /\ holds' = holds /\ Handled < Targets
          /\ pc' # "inserting" /\ certified' = certified
      BY <1>8 DEF SkipUnsupplied, AtTarget, data
    <2> QED BY <1>3, <1>4, <2>1, SafeExtended DEF MadeOf
  <1>9. CASE DeleteRows
    <2>1. /\ entries' = Append(entries, "erased") /\ holds' = holds \ Scope(Target)
          /\ Handled < Targets /\ pc' # "inserting" /\ certified' = certified
      BY <1>9 DEF DeleteRows, AtEraser, AtTarget
    <2>2. holds' \cap CellsOf(Target) = {}
      BY <2>1, ScopeFacts
    <2> QED BY <1>3, <1>4, <2>1, <2>2, SafeExtended DEF MadeOf
  <1>10. CASE Rederive
    <2>1. /\ entries' = Append(entries, "erased") /\ holds' = Rebuilt(holds, Scope(Target))
          /\ Handled < Targets /\ pc' # "inserting" /\ certified' = certified
      BY <1>10 DEF Rederive, AtEraser, AtTarget
    <2> DEFINE G == holds \ Scope(Target)
    <2>2. MadeOf(holds', G)
      BY <2>1, ScopeFacts DEF Rebuilt, MadeOf
    <2>3. MadeOf(holds', holds)
      BY <2>2 DEF MadeOf
    <2>4. ASSUME ErasedTo(Handled) PROVE holds' \cap CellsOf(Target) = {}
      <3>1. Handled \in Nat /\ Handled + 1 \in 1 .. Targets
        BY <2>1, ScopeFacts DEF Handled, Typed, TypeOK
      <3>2. \A i \in 1 .. Handled : Gone(request.order[i])
        BY <2>4, <3>1 DEF ErasedTo, Safe
      <3>3. G \cap CellsOf(request.order[Handled + 1]) = {}
        BY <2>1, ScopeFacts DEF Target
      <3>4. \A i \in 1 .. Handled + 1 : G \cap CellsOf(request.order[i]) = {}
        BY <3>1, <3>2, <3>3 DEF Gone
      <3>5. G \subseteq Reach(request)
        BY DEF Safe
      <3>6. \A j \in 1 .. Targets :
              (\A i \in 1 .. j : G \cap CellsOf(request.order[i]) = {})
                => holds' \cap CellsOf(request.order[j]) = {}
        BY <2>2, <3>5, SpreadWithin DEF Typed
      <3> QED BY <3>1, <3>4, <3>6 DEF Target
    <2> QED BY <1>3, <1>4, <2>1, <2>3, <2>4, SafeExtended
  <1>11. CASE DeletePartitions
    <2>1. /\ entries' = entries /\ holds' = holds \ Scope(Target)
          /\ Handled < Targets /\ certified' = certified
      BY <1>11 DEF DeletePartitions, AtEraser, AtTarget
    <2>2. holds' \cap CellsOf(Target) = {}
      BY <2>1, ScopeFacts
    <2>3. Gone(Target)'
      BY <1>3, <2>1, <2>2 DEF Gone, CellsOf, Target, Handled
    <2> QED BY <1>3, <2>1, <2>3, SafeKept DEF MadeOf
  <1>12. CASE InsertPartitions
    <2>1. /\ entries' = Append(entries, "erased") /\ holds' = holds \cup Built(holds)
          /\ pc = "inserting" /\ pc' # "inserting" /\ certified' = certified
      BY <1>12 DEF InsertPartitions
    <2>2. Handled < Targets
      BY <2>1 DEF Typed, TypeOK
    <2>3. MadeOf(holds', holds)
      BY <2>1, <2>2, ScopeFacts DEF Built, MadeOf
    <2>4. ASSUME ErasedTo(Handled) PROVE holds' \cap CellsOf(Target) = {}
      <3>1. Handled \in Nat /\ Handled + 1 \in 1 .. Targets
        BY <2>2, ScopeFacts DEF Handled, Typed, TypeOK
      <3>2. \A i \in 1 .. Handled : Gone(request.order[i])
        BY <2>4, <3>1 DEF ErasedTo, Safe
      <3>3. Gone(request.order[Handled + 1])
        BY <2>1, <2>4 DEF Safe, Target
      <3>4. \A i \in 1 .. Handled + 1 : holds \cap CellsOf(request.order[i]) = {}
        BY <3>1, <3>2, <3>3 DEF Gone
      <3>5. \A j \in 1 .. Targets :
              (\A i \in 1 .. j : holds \cap CellsOf(request.order[i]) = {})
                => holds' \cap CellsOf(request.order[j]) = {}
        BY <2>3, SpreadWithin DEF Typed, Safe
      <3> QED BY <3>1, <3>4, <3>5 DEF Target
    <2> QED BY <1>3, <1>4, <2>1, <2>2, <2>3, <2>4, SafeExtended
  <1>13. CASE Raise
    <2>1. entries' = entries /\ holds' = holds /\ pc' # "inserting" /\ certified' = certified
      BY <1>13 DEF Raise, data
    <2> QED BY <1>3, <2>1, SafeKept DEF MadeOf
  <1>14. CASE Certify
    <2>1. /\ entries' = entries /\ holds' = holds /\ pc' # "inserting" /\ Handled = Targets
          /\ certified' = (certified \/ Complete)
      BY <1>14 DEF Certify, data
    <2>2. ASSUME Complete PROVE holds = {}
      <3>1. \A j \in 1 .. Targets : ErasedTo(j)
        BY <2>1, <2>2, TargetFacts DEF Complete, ErasedTo, Typed
      <3>2. \A j \in 1 .. Targets : Gone(request.order[j])
        BY <2>1, <3>1 DEF Safe
      <3> QED BY <3>2, AllClean DEF Safe, Typed
    <2>3. Handled' = Handled /\ Reach(request)' = Reach(request)
      BY <1>3, <2>1 DEF Handled, Reach
    <2>4. \A j : /\ ErasedTo(j)' <=> ErasedTo(j)
                 /\ Gone(request.order[j])' <=> Gone(request.order[j])
      BY <1>3, <2>1 DEF ErasedTo, Gone, CellsOf
    <2>5. certified' => holds' = {}
      BY <2>1, <2>2 DEF Safe
    <2> QED BY <2>1, <2>3, <2>4, <2>5 DEF Safe
  <1>15. CASE RefuseSalt
    <2>1. entries' = entries /\ holds' = holds /\ pc' # "inserting" /\ certified' = certified
      BY <1>15 DEF RefuseSalt, data
    <2> QED BY <1>3, <2>1, SafeKept DEF MadeOf
  <1>16. ASSUME NEW c \in Cells, Refresh(c) PROVE Safe'
    <2>1. entries' = entries /\ pc' = pc /\ certified' = certified
      BY <1>16 DEF Refresh
    <2>2. MadeOf(holds', holds)
      BY <1>16 DEF Refresh, MadeOf
    <2> QED BY <1>3, <2>1, <2>2, SafeKept
  <1>17. CASE UNCHANGED vars
    <2>1. entries' = entries /\ holds' = holds /\ pc' = pc /\ certified' = certified
      BY <1>17 DEF vars, data
    <2> QED BY <1>3, <2>1, SafeKept DEF MadeOf
  <1> QED
    BY <1>5, <1>6, <1>7, <1>8, <1>9, <1>10, <1>11, <1>12, <1>13, <1>14, <1>15, <1>16, <1>17
    DEF Next, Apply

\* Once a proof said complete the subject is in no table within the graph and no rebuild
\* brings it back, for every request whose copies are within reach, in every order that
\* puts inputs first.
THEOREM CompleteIsTrue == Spec => []CertifiedMeansGone
  <1>1. SafeIfOrdered => CertifiedMeansGone
    BY DEF SafeIfOrdered, Safe, CertifiedMeansGone
  <1> QED BY <1>1, TypedInit, TypedNext, SafeInit, SafeNext, PTL DEF Spec

-----------------------------------------------------------------------------
(* Every entry can be believed.  The erased targets, the one being rebuilt in two        *)
(* statements among them: any set of them that has with a target all it is made from     *)
(* holds nothing of the subject.                                                         *)

ErasedOnes == {j \in 1 .. Targets : \/ j <= Handled /\ entries[j] = "erased"
                                    \/ j = Handled + 1 /\ pc = "inserting"}

HasItsInputs(C) ==
  \A k \in C, j \in 1 .. Targets, e \in request.edges :
    e.from = request.order[j] /\ e.to = request.order[k] => j \in C

Clean == \A C \in SUBSET ErasedOnes : HasItsInputs(C) => \A j \in C : Gone(request.order[j])

CleanIfOrdered == Located /\ InputsComeFirst => Clean

\* What is built from cells within reach leaves such a set clean.
LEMMA SpreadInto ==
  ASSUME request \in Requests, NEW G, G \subseteq Reach(request), NEW H, MadeOf(H, G),
         NEW C \in SUBSET (1 .. Targets), HasItsInputs(C),
         \A j \in C : G \cap CellsOf(request.order[j]) = {}
  PROVE  \A j \in C : H \cap CellsOf(request.order[j]) = {}
  <1> SUFFICES ASSUME NEW k \in C, NEW c \in H, c \in CellsOf(request.order[k]) PROVE FALSE
    OBVIOUS
  <1>1. c \notin G /\ c \in Cells /\ c[1] = request.order[k]
    BY DEF MadeOf, CellsOf
  <1>2. PICK x \in Reads(request, c) : x \in G
    BY <1>1 DEF MadeOf
  <1>3. x \in Cells
    BY <1>1, ReadsFacts
  <1>4. PICK e \in request.edges : e.to = c[1] /\ x[1] = e.from
    BY <1>1, ReadsFacts
  <1>5. PICK j \in 1 .. Targets : request.order[j] = x[1]
    BY <1>2, TargetFacts
  <1>6. j \in C
    BY <1>1, <1>4, <1>5 DEF HasItsInputs
  <1>7. x \in CellsOf(request.order[j])
    BY <1>3, <1>5 DEF Cells, CellsOf
  <1> QED BY <1>2, <1>6, <1>7

\* A step either marks nothing new and spreads what there is, or it marks the target at
\* hand and spreads what there is outside its scope.
Marks ==
  \/ ErasedOnes' \subseteq ErasedOnes /\ MadeOf(holds', holds)
  \/ /\ Handled + 1 \in 1 .. Targets /\ pc # "inserting"
     /\ ErasedOnes' \subseteq ErasedOnes \cup {Handled + 1}
     /\ MadeOf(holds', holds \ Scope(Target))

LEMMA EveryStepMarks ==
  ASSUME Typed, Safe, [Next]_vars
  PROVE  Marks
  <1>1. /\ entries \in Seq(Statuses) /\ Handled \in Nat /\ Targets \in Nat /\ Handled <= Targets
        /\ pc = "inserting" => Handled < Targets
    BY TargetFacts DEF Typed, TypeOK, Handled
  <1>2. request' = request /\ Targets' = Targets
    BY DEF Next, Apply, vars, Call, SkipBlocked, Describe, SkipUnsupplied, DeleteRows, Rederive,
           DeletePartitions, InsertPartitions, Raise, Certify, RefuseSalt, Refresh, Targets
  <1>3. ASSUME entries' = entries, pc' = "inserting" => pc = "inserting" PROVE ErasedOnes' \subseteq ErasedOnes
    BY <1>2, <1>3 DEF ErasedOnes, Handled
  <1>4. ASSUME NEW s \in Statuses, entries' = Append(entries, s), pc' # "inserting"
        PROVE  /\ ErasedOnes' \subseteq ErasedOnes \cup {Handled + 1}
               /\ s # "erased" \/ pc = "inserting" => ErasedOnes' \subseteq ErasedOnes
    <2>1. /\ Handled' = Handled + 1 /\ entries'[Handled + 1] = s
          /\ \A m \in 1 .. Handled : entries'[m] = entries[m]
      BY <1>1, <1>4 DEF Handled
    <2>2. ASSUME NEW j \in ErasedOnes'
          PROVE  j \in 1 .. Targets /\ (j \in ErasedOnes \/ (j = Handled + 1 /\ s = "erased"))
      <3>1. j \in 1 .. Targets /\ j <= Handled' /\ entries'[j] = "erased"
        BY <1>2, <1>4 DEF ErasedOnes
      <3>2. CASE j = Handled + 1
        BY <2>1, <3>1, <3>2
      <3>3. CASE j # Handled + 1
        <4>1. j \in 1 .. Handled
          BY <1>1, <2>1, <3>1, <3>3
        <4> QED BY <2>1, <3>1, <4>1 DEF ErasedOnes
      <3> QED BY <3>2, <3>3
    <2>3. pc = "inserting" => \A j \in 1 .. Targets : j = Handled + 1 => j \in ErasedOnes
      BY DEF ErasedOnes
    <2> QED BY <2>2, <2>3
  <1>5. "blocked" \in Statuses /\ "planned" \in Statuses /\ "erased" \in Statuses
    BY DEF Statuses
  <1>6. CASE Call
    <2>1. ErasedOnes' = {}
      BY <1>6 DEF Call, ErasedOnes, Handled
    <2>2. MadeOf(holds', holds)
      BY <1>6 DEF Call, data, MadeOf
    <2> QED BY <2>1, <2>2 DEF Marks
  <1>7. CASE SkipBlocked \/ Describe \/ SkipUnsupplied
    <2>1. /\ entries' = Append(entries, "blocked") \/ entries' = Append(entries, "planned")
          /\ pc' # "inserting" /\ MadeOf(holds', holds)
      BY <1>7 DEF SkipBlocked, Describe, SkipUnsupplied, AtTarget, data, MadeOf
    <2> QED BY <1>4, <1>5, <2>1 DEF Marks
  <1>8. CASE DeleteRows \/ Rederive
    <2>1. /\ entries' = Append(entries, "erased") /\ pc = "applying" /\ pc' = pc /\ Handled < Targets
      BY <1>8 DEF DeleteRows, Rederive, AtEraser, AtTarget
    <2>2. Scope(Target) \subseteq Cells
      BY <2>1, ScopeFacts
    <2>3. MadeOf(holds', holds \ Scope(Target))
      BY <1>8, <2>2 DEF DeleteRows, Rederive, MadeOf, Rebuilt
    <2> QED BY <1>1, <1>4, <1>5, <2>1, <2>3 DEF Marks
  <1>9. CASE DeletePartitions
    <2>1. /\ entries' = entries /\ pc = "applying" /\ pc' = "inserting" /\ Handled < Targets
          /\ holds' = holds \ Scope(Target)
      BY <1>9 DEF DeletePartitions, AtEraser, AtTarget
    <2>2. ErasedOnes' \subseteq ErasedOnes \cup {Handled + 1}
      BY <1>2, <2>1 DEF ErasedOnes, Handled
    <2>3. MadeOf(holds', holds \ Scope(Target))
      BY <2>1 DEF MadeOf
    <2> QED BY <1>1, <2>1, <2>2, <2>3 DEF Marks
  <1>10. CASE InsertPartitions
    <2>1. /\ entries' = Append(entries, "erased") /\ pc = "inserting" /\ pc' = "applying"
          /\ holds' = holds \cup Built(holds)
      BY <1>10 DEF InsertPartitions
    <2>2. MadeOf(holds', holds)
      BY <1>1, <2>1, ScopeFacts DEF Built, MadeOf
    <2> QED BY <1>4, <1>5, <2>1, <2>2 DEF Marks
  <1>11. CASE Raise \/ Certify \/ RefuseSalt
    <2>1. entries' = entries /\ pc' # "inserting" /\ MadeOf(holds', holds)
      BY <1>11 DEF Raise, Certify, RefuseSalt, data, MadeOf
    <2> QED BY <1>3, <2>1 DEF Marks
  <1>12. ASSUME NEW c \in Cells, Refresh(c) PROVE Marks
    <2>1. entries' = entries /\ pc' = pc /\ MadeOf(holds', holds)
      BY <1>12 DEF Refresh, MadeOf
    <2> QED BY <1>3, <2>1 DEF Marks
  <1>13. CASE UNCHANGED vars
    <2>1. entries' = entries /\ pc' = pc /\ MadeOf(holds', holds)
      BY <1>13 DEF vars, data, MadeOf
    <2> QED BY <1>3, <2>1 DEF Marks
  <1> QED BY <1>6, <1>7, <1>8, <1>9, <1>10, <1>11, <1>12, <1>13 DEF Next, Apply

LEMMA CleanInit == Init => CleanIfOrdered
  BY DEF Init, CleanIfOrdered, Clean, ErasedOnes, Handled

LEMMA CleanNext == Typed /\ SafeIfOrdered /\ CleanIfOrdered /\ [Next]_vars => CleanIfOrdered'
  <1>1. Typed /\ [Next]_vars => request' = request
    BY DEF Next, Apply, vars, Call, SkipBlocked, Describe, SkipUnsupplied, DeleteRows, Rederive,
           DeletePartitions, InsertPartitions, Raise, Certify, RefuseSalt, Refresh
  <1>2. request' = request => /\ Located' = Located /\ InputsComeFirst' = InputsComeFirst
                              /\ Targets' = Targets /\ \A C : HasItsInputs(C)' <=> HasItsInputs(C)
    BY DEF Located, InputsComeFirst, Targets, Reach, HasItsInputs
  <1> SUFFICES ASSUME Typed, [Next]_vars, InputsComeFirst, Safe, Clean,
                      NEW C \in SUBSET ErasedOnes', HasItsInputs(C), NEW i \in C
               PROVE  holds' \cap CellsOf(request.order[i]) = {}
    BY <1>1, <1>2 DEF CleanIfOrdered, SafeIfOrdered, Clean, Gone, CellsOf
  <1>3. C \in SUBSET (1 .. Targets) /\ holds \subseteq Reach(request) /\ request \in Requests
    BY <1>1, <1>2 DEF ErasedOnes, Safe, Typed
  <1>4. CASE ErasedOnes' \subseteq ErasedOnes /\ MadeOf(holds', holds)
    <2>1. \A j \in C : holds \cap CellsOf(request.order[j]) = {}
      BY <1>4 DEF Clean, Gone
    <2> QED BY <1>3, <1>4, <2>1, SpreadInto
  <1>5. ASSUME Handled + 1 \in 1 .. Targets, pc # "inserting",
               ErasedOnes' \subseteq ErasedOnes \cup {Handled + 1},
               MadeOf(holds', holds \ Scope(Target))
        PROVE  holds' \cap CellsOf(request.order[i]) = {}
    <2> DEFINE G == holds \ Scope(Target)  D == C \ {Handled + 1}
    <2>1. D \in SUBSET ErasedOnes
      BY <1>5
    <2>2. Handled \in Nat /\ Targets \in Nat /\ \A j \in ErasedOnes : j \in 1 .. Targets /\ j <= Handled
      BY <1>5, TargetFacts DEF ErasedOnes, Typed, TypeOK, Handled
    <2>3. HasItsInputs(D)
      <3> SUFFICES ASSUME NEW k \in D, NEW j \in 1 .. Targets, NEW e \in request.edges,
                          e.from = request.order[j], e.to = request.order[k]
                   PROVE  j \in D
        BY DEF HasItsInputs
      <3>1. j \in C
        BY DEF HasItsInputs
      <3>2. j <= k /\ k <= Handled
        BY <1>3, <2>1, <2>2 DEF InputsComeFirst
      <3> QED BY <2>1, <2>2, <3>1, <3>2
    <2>4. \A j \in D : holds \cap CellsOf(request.order[j]) = {}
      BY <2>1, <2>3 DEF Clean, Gone
    <2>5. G \cap CellsOf(request.order[Handled + 1]) = {}
      BY <1>5, <2>2, ScopeFacts DEF Target
    <2>6. \A j \in C : G \cap CellsOf(request.order[j]) = {}
      BY <2>4, <2>5
    <2>7. G \subseteq Reach(request)
      BY <1>3
    <2> HIDE DEF G
    <2> QED BY <1>3, <1>5, <2>6, <2>7, SpreadInto DEF G
  <1> QED BY <1>4, <1>5, EveryStepMarks DEF Marks

\* What a target is made from: a set of targets, with it and with all their inputs.
LEMMA MadeFromFacts ==
  ASSUME Typed, NEW i \in 1 .. Targets
  PROVE  i \in MadeFrom(i) /\ MadeFrom(i) \in SUBSET (1 .. Targets) /\ HasItsInputs(MadeFrom(i))
  <1> DEFINE N == Targets
             U == 1 .. Targets
             A == {i}
             F == [S \in SUBSET (1 .. Targets) |->
                     S \cup {j \in 1 .. Targets : \E k \in S : \E e \in request.edges :
                               e.from = request.order[j] /\ e.to = request.order[k]}]
             f == CHOOSE f : f = [n \in 0 .. N |-> IF n = 0 THEN A ELSE F[f[n - 1]]]
  <1>1. MadeFrom(i) = f[N]
    BY DEF MadeFrom
  <1>2. IsWidening(F, U) /\ A \in SUBSET U
    BY DEF IsWidening
  <1>3. HasSize(U, N)
    BY TargetFacts, FS_Interval DEF Typed, HasSize
  <1>4. IsIteration(f, N, A, F)
    BY DEF IsIteration
  <1>5. F[f[N]] = f[N] /\ A \subseteq f[N] /\ f[N] \in SUBSET U
    <2> HIDE DEF F, A, U, N, f
    <2> QED BY <1>2, <1>3, <1>4, RoundsClose
  <1>6. HasItsInputs(f[N])
    <2> HIDE DEF f
    <2>1. \A j \in 1 .. Targets, k \in f[N], e \in request.edges :
            e.from = request.order[j] /\ e.to = request.order[k] => j \in F[f[N]]
      BY <1>5
    <2> QED BY <1>5, <2>1 DEF HasItsInputs
  <1> QED BY <1>1, <1>5, <1>6

LEMMA CleanMeansTrue == Typed /\ CleanIfOrdered => EntriesAreTrue
  <1> SUFFICES ASSUME Typed, Clean, NEW i \in 1 .. Handled,
                      \A j \in MadeFrom(i) : j <= Handled /\ entries[j] = "erased"
               PROVE  Gone(request.order[i])
    BY DEF EntriesAreTrue, CleanIfOrdered
  <1>1. i \in 1 .. Targets
    BY TargetFacts DEF Typed, TypeOK, Handled
  <1>2. MadeFrom(i) \in SUBSET ErasedOnes
    BY <1>1, MadeFromFacts DEF ErasedOnes
  <1> QED BY <1>1, <1>2, MadeFromFacts DEF Clean

\* Every entry of a proof, partial ones included, can be believed.
THEOREM EntriesCanBeBelieved == Spec => []EntriesAreTrue
  BY CleanMeansTrue, TypedInit, TypedNext, SafeInit, SafeNext, CleanInit, CleanNext, PTL DEF Spec

-----------------------------------------------------------------------------
(* Everybody else's data.  With transactions no state is half way, and a partition that *)
(* is rebuilt has an input that is not being rebuilt with it.                            *)

OthersWhole == request.transactional => others = Cells /\ pc # "inserting"

LEMMA OthersInit == Init => OthersWhole
  BY DEF Init, OthersWhole

LEMMA OthersNext == Typed /\ OthersWhole /\ [Next]_vars => OthersWhole'
  <1>1. [Next]_vars => request' = request
    BY DEF Next, Apply, vars, Call, SkipBlocked, Describe, SkipUnsupplied, DeleteRows, Rederive,
           DeletePartitions, InsertPartitions, Raise, Certify, RefuseSalt, Refresh
  <1> SUFFICES ASSUME Typed, [Next]_vars, request.transactional, others = Cells,
                      pc # "inserting"
               PROVE  others' = Cells /\ pc' # "inserting"
    BY <1>1 DEF OthersWhole
  <1>2. CASE Rederive
    <2>1. /\ Handled < Targets /\ request.how[Target] = "model" /\ pc' # "inserting"
          /\ others' = Rebuilt(Cells, Scope(Target))
      BY <1>2 DEF Rederive, AtEraser, AtTarget
    <2>2. Handled + 1 \in 1 .. Targets
      BY <2>1, TargetFacts DEF Typed, TypeOK, Handled
    <2>3. Target \in Datasets
      BY <2>2, TargetFacts DEF Typed, Target
    <2>4. request.dirty[Target] \subseteq Partitions
      BY <2>3, ErasureAssumption DEF Typed
    <2>5. Scope(Target) \subseteq CellsOf(Target) /\ Scope(Target) \subseteq Cells
      BY <2>3, <2>4 DEF Scope, CellsOf, Cells
    <2>6. ASSUME NEW c \in Scope(Target)
          PROVE  Reads(request, c) \cap (Cells \ Scope(Target)) # {}
      <3>1. PICK x \in Reads(request, c) : x \in Cells /\ x[1] # Target
        BY <2>1, <2>3, <2>5, ModelReadsAnother DEF Typed
      <3>2. x \notin Scope(Target)
        BY <3>1 DEF Scope
      <3> QED BY <3>1, <3>2
    <2>7. Rebuilt(Cells, Scope(Target)) = Cells
      BY <2>5, <2>6 DEF Rebuilt
    <2> QED BY <2>1, <2>7
  <1>3. ASSUME NEW c \in Cells, Refresh(c) PROVE others' = Cells /\ pc' # "inserting"
    <2>1. Reads(request, c) # {} /\ pc' = pc
      BY <1>3 DEF Refresh
    <2>2. \A x \in Reads(request, c) : x \in Cells
      BY ReadsFacts DEF Typed
    <2>3. Reads(request, c) \cap others # {}
      BY <2>1, <2>2
    <2> QED BY <1>3, <2>1, <2>3 DEF Refresh
  <1>4. CASE DeleteRows
    BY <1>4 DEF DeleteRows, AtEraser, AtTarget
  <1>5. CASE DeletePartitions \/ InsertPartitions
    BY <1>5 DEF DeletePartitions, InsertPartitions
  <1>6. CASE Call \/ SkipBlocked \/ Describe \/ SkipUnsupplied \/ Raise \/ Certify \/ RefuseSalt
    BY <1>6 DEF Call, SkipBlocked, Describe, SkipUnsupplied, Raise, Certify, RefuseSalt, AtTarget,
                data
  <1>7. CASE UNCHANGED vars
    BY <1>7 DEF vars, data
  <1> QED BY <1>2, <1>3, <1>4, <1>5, <1>6, <1>7 DEF Next, Apply

\* An erasure whose rebuilds are transactions leaves everybody else's data where it was,
\* for every graph and order, cyclic ones included.
THEOREM BystandersKeepTheirs == Spec => []NoBystanderLost
  <1>1. OthersWhole => NoBystanderLost
    BY DEF OthersWhole, NoBystanderLost
  <1> QED BY <1>1, TypedInit, TypedNext, OthersInit, OthersNext, PTL DEF Spec

(***************************************************************************)
(* govern/access/keys.py                                                   *)
(***************************************************************************)

KeysInv == KeysTypeOK /\ CompleteShredsStayTrue /\ OnlyTheirOwnIsShredded

\* A key that is not shared belongs to the one subject it covers.
LEMMA NotSharedIsOwn ==
  ASSUME NEW k \in Known, NEW s \in keys[k].subjects, keys[k].subjects \subseteq Subjects, ~IsShared(k)
  PROVE  keys[k].subjects = {s}
  <1>1. IsFiniteSet(keys[k].subjects) /\ Cardinality(keys[k].subjects) \in Nat
    BY KeysAssumption, FS_Subset, FS_CardinalityType DEF KeysAssumption
  <1>2. ASSUME NEW t \in keys[k].subjects, t # s PROVE FALSE
    <2> DEFINE A == {s}
    <2>1. /\ IsFiniteSet(A) /\ Cardinality(A) = 1
          /\ t \notin A /\ A \cup {t} \in SUBSET keys[k].subjects
      BY <1>2, FS_Singleton
    <2>2. Cardinality(A \cup {t}) = 2
      <3> HIDE DEF A
      <3>1. Cardinality(A \cup {t}) = Cardinality(A) + 1
        BY <2>1, FS_AddElement
      <3> QED BY <2>1, <3>1
    <2>3. 2 <= Cardinality(keys[k].subjects)
      BY <1>1, <2>1, <2>2, FS_Subset
    <2> QED BY <1>1, <2>3 DEF IsShared
  <1> QED BY <1>2

\* A step may turn any key into any other, but a destroyed key stays, destroyed and with
\* its subjects; a key is destroyed by name or for its only subject; and a pair in use
\* keeps its key and its subject unless it is written down as left out.
KeysMoveForward ==
  /\ \A k \in Known : k \in Known'
  /\ \A k \in Known : keys[k].state = "destroyed" => keys'[k] = keys[k]
  /\ \A k \in Known : keys[k].state # "destroyed" /\ keys'[k].state = "destroyed" =>
       /\ keys'[k].subjects = keys[k].subjects
       /\ k \in byHand' \/ \E s \in Subjects : keys[k].subjects = {s}
  /\ byHand \subseteq byHand'
  /\ sealed' \subseteq sealed \cup Used(keys') /\ leftOut \subseteq leftOut'
  /\ \A p \in sealed : p[1] \in Known /\ p[2] \in keys[p[1]].subjects /\ p \notin leftOut' =>
       p[2] \in keys'[p[1]].subjects

LEMMA KeysForward ==
  ASSUME KeysTypeOK, KeysNext
  PROVE  KeysTypeOK' /\ KeysMoveForward
  <1>1. ASSUME NEW k \in KeyNames, NEW S \in SUBSET Subjects, Register(k, S)
        PROVE  KeysTypeOK' /\ KeysMoveForward
    BY <1>1 DEF Register, Registered, MayRegister, Used, KeysTypeOK, KeyStates, KeysMoveForward, Known
  <1>2. ASSUME NEW k \in KeyNames, NEW l \in KeyNames, Rotate(k, l)
        PROVE  KeysTypeOK' /\ KeysMoveForward
    BY <1>2 DEF Rotate, Registered, MayRegister, Used, KeysTypeOK, KeyStates, KeysMoveForward, Known
  <1>3. ASSUME NEW k \in KeyNames, DestroyKey(k)
        PROVE  KeysTypeOK' /\ KeysMoveForward
    BY <1>3 DEF DestroyKey, Destroyed, CanDecrypt, Used, KeysTypeOK, KeyStates, KeysMoveForward, Known
  <1>4. ASSUME NEW s \in Subjects, DestroyForSubject(s)
        PROVE  KeysTypeOK' /\ KeysMoveForward
    <2>1. ASSUME NEW k \in CoveredBy(s) PROVE keys[k].subjects = {s}
      <3>1. k \in Known /\ s \in keys[k].subjects /\ keys[k].subjects \subseteq Subjects
        BY DEF CoveredBy, KeysForSubject, KeysTypeOK, Known
      <3>2. ~IsShared(k)
        BY <1>4 DEF DestroyForSubject
      <3> QED BY <3>1, <3>2, NotSharedIsOwn
    <2>2. CoveredBy(s) \subseteq DOMAIN keys
      BY DEF CoveredBy, KeysForSubject, Known
    <2>3. UNCHANGED <<shreds, sealed, leftOut, byHand>> /\ DOMAIN keys' = DOMAIN keys
      BY <1>4 DEF DestroyForSubject, Destroyed
    <2>4. ASSUME NEW k \in DOMAIN keys
          PROVE  keys'[k] = IF k \in CoveredBy(s) THEN [keys[k] EXCEPT !.state = "destroyed"] ELSE keys[k]
      BY <1>4 DEF DestroyForSubject, Destroyed
    <2>5. KeysTypeOK'
      BY <2>3, <2>4 DEF KeysTypeOK, KeyStates
    <2>6. \A k \in CoveredBy(s) : keys[k].state # "destroyed"
      BY DEF CoveredBy, CanDecrypt
    <2>7. ASSUME NEW k \in DOMAIN keys, keys[k].state # "destroyed", keys'[k].state = "destroyed"
          PROVE  k \in CoveredBy(s) /\ keys'[k].subjects = keys[k].subjects /\ keys[k].subjects = {s}
      BY <2>1, <2>4, <2>7 DEF KeysTypeOK
    <2>8. ASSUME NEW k \in DOMAIN keys, keys[k].state = "destroyed"
          PROVE  keys'[k] = keys[k]
      BY <2>4, <2>6, <2>8
    <2>9. ASSUME NEW k \in DOMAIN keys PROVE keys'[k].subjects = keys[k].subjects
      BY <2>4 DEF KeysTypeOK
    <2> QED BY <2>3, <2>5, <2>7, <2>8, <2>9 DEF KeysMoveForward, Known
  <1>5. ASSUME NEW s \in Subjects, ProveShred(s)
        PROVE  KeysTypeOK' /\ KeysMoveForward
    BY <1>5 DEF ProveShred, Used, KeysTypeOK, KeysMoveForward, Known
  <1> QED BY <1>1, <1>2, <1>3, <1>4, <1>5 DEF KeysNext

LEMMA KeysInvInit == KeysInit => KeysInv
  BY DEF KeysInit, KeysInv, KeysTypeOK, CompleteShredsStayTrue, OnlyTheirOwnIsShredded, Known,
         VerifyDestroyed, CoveredBy, KeysForSubject

LEMMA KeysInvNext ==
  ASSUME KeysInv, KeysNext
  PROVE  KeysInv'
  <1>1. KeysTypeOK /\ KeysTypeOK' /\ KeysMoveForward
    BY KeysForward DEF KeysInv
  <1>2. ASSUME NEW p \in shreds', p.complete, NEW k \in DOMAIN p.states
        PROVE  k \in Known' /\ keys'[k].state = "destroyed"
    <2>1. CASE p \in shreds
      BY <1>1, <1>2, <2>1 DEF KeysInv, CompleteShredsStayTrue, KeysMoveForward
    <2>2. CASE p \notin shreds
      <3>1. PICK s \in Subjects : ProveShred(s)
        BY <1>2, <2>2 DEF KeysNext, Register, Rotate, DestroyKey, DestroyForSubject
      <3>2. VerifyDestroyed(s) /\ k \in KeysForSubject(s) /\ keys' = keys
        BY <1>2, <2>2, <3>1 DEF ProveShred
      <3>3. k \in Known /\ ~CanDecrypt(k)
        BY <3>2 DEF VerifyDestroyed, CoveredBy, KeysForSubject
      <3> QED BY <3>2, <3>3 DEF CanDecrypt, Known
    <2> QED BY <2>1, <2>2
  <1>3. ASSUME NEW p \in sealed' \ leftOut'
        PROVE  p[1] \in Known' /\ p[2] \in keys'[p[1]].subjects
    BY <1>1, <1>3 DEF KeysMoveForward, KeysInv, OnlyTheirOwnIsShredded, Used, Known
  <1>4. ASSUME NEW s \in Subjects, VerifyDestroyed(s)', NEW p \in sealed' \ leftOut', p[2] = s
        PROVE  ~CanDecrypt(p[1])'
    BY <1>3, <1>4 DEF VerifyDestroyed, CoveredBy, KeysForSubject
  <1>5. ASSUME NEW p \in sealed' \ leftOut', ~CanDecrypt(p[1])', p[1] \notin byHand'
        PROVE  keys'[p[1]].subjects = {p[2]}
    <2>1. p[1] \in Known' /\ p[2] \in keys'[p[1]].subjects /\ keys'[p[1]].state = "destroyed"
      BY <1>3, <1>5 DEF CanDecrypt
    <2>2. p \in sealed \ leftOut
      BY <1>1, <1>5, <2>1 DEF KeysMoveForward, Used
    <2>3. p[1] \in Known /\ p[2] \in keys[p[1]].subjects
      BY <2>2 DEF KeysInv, OnlyTheirOwnIsShredded
    <2>4. CASE keys[p[1]].state = "destroyed"
      <3>1. keys'[p[1]] = keys[p[1]] /\ p[1] \notin byHand
        BY <1>1, <1>5, <2>3, <2>4 DEF KeysMoveForward
      <3> QED BY <2>2, <2>4, <3>1 DEF KeysInv, OnlyTheirOwnIsShredded, CanDecrypt
    <2>5. CASE keys[p[1]].state # "destroyed"
      BY <1>1, <1>5, <2>1, <2>3, <2>5 DEF KeysMoveForward
    <2> QED BY <2>4, <2>5
  <1> QED BY <1>1, <1>2, <1>3, <1>4, <1>5 DEF KeysInv, CompleteShredsStayTrue, OnlyTheirOwnIsShredded

LEMMA KeysInvStutter == KeysInv /\ UNCHANGED keysVars => KeysInv'
  BY DEF KeysInv, keysVars, KeysTypeOK, CompleteShredsStayTrue, OnlyTheirOwnIsShredded, Known,
         VerifyDestroyed, CoveredBy, KeysForSubject, CanDecrypt

LEMMA KeysHold == GovernanceSpec => []KeysInv
  <1>1. GovernanceInit => KeysInv
    BY KeysInvInit DEF GovernanceInit
  <1>2. KeysInv /\ [GovernanceNext]_governanceVars => KeysInv'
    BY KeysInvNext, KeysInvStutter DEF GovernanceNext, governanceVars
  <1> QED BY <1>1, <1>2, PTL DEF GovernanceSpec

-----------------------------------------------------------------------------
(***************************************************************************)
(* govern/replicas.py                                                      *)
(***************************************************************************)

CopiesTyped ==
  /\ replicas \subseteq Declarable /\ today \in Nat /\ erasedOn \in {-1} \cup 0 .. today
  /\ DOMAIN attestations \subseteq Locations
  /\ \A l \in DOMAIN attestations : attestations[l] \in 0 .. today

ClosedCopies == erasedOn # -1 => \A r \in wasDischarged : Discharged({r})

CopiesInv == CopiesTyped /\ ClosedCopies /\ (erasedOn = -1 => wasDischarged = {}) /\ wasDischarged \subseteq replicas

Closed == {"follows_source", "expired", "attested"}
DischargedIn(r, day, erased, attested) ==
  r.kind \notin BeyondControl /\
    \/ r.kind \in FollowsSource
    \/ r.retention # NoRetention /\ day - erased >= r.retention
    \/ r.location \in attested

LEMMA DischargedMeans ==
  ASSUME NEW r PROVE Discharged({r}) <=> DischargedIn(r, today, erasedOn, DOMAIN attestations)
  BY DEF Discharged, DischargedIn, DispositionOf, HasLapsed, BeyondControl, FollowsSource

LEMMA DischargedMeansNext ==
  ASSUME NEW r PROVE Discharged({r})' <=> DischargedIn(r, today', erasedOn', DOMAIN attestations')
  BY DEF Discharged, DischargedIn, DispositionOf, HasLapsed, BeyondControl, FollowsSource

\* Days pass and attestations come in: neither opens a copy again.
LEMMA ClosedStaysClosed ==
  ASSUME NEW r \in Declarable, NEW day \in Nat, NEW later \in Nat, day <= later, NEW erased \in Nat,
         NEW attested, NEW more, attested \subseteq more,
         DischargedIn(r, day, erased, attested)
  PROVE  DischargedIn(r, later, erased, more)
  BY CopiesAssumption DEF CopiesAssumption, DischargedIn

LEMMA CopiesInvNext ==
  ASSUME CopiesInv, CopiesNext
  PROVE  CopiesInv'
  <1> DEFINE Grow == /\ CopiesTyped' /\ today <= today' /\ replicas \subseteq replicas'
                     /\ DOMAIN attestations \subseteq DOMAIN attestations'
  <1>1. Grow
    <2>1. ASSUME NEW r \in Declarable, DeclareCopy(r) PROVE Grow
      BY <2>1 DEF DeclareCopy, CopiesInv, CopiesTyped
    <2>2. ASSUME NEW l \in Locations, Attest(l) PROVE Grow
      BY <2>2 DEF Attest, CopiesInv, CopiesTyped
    <2>3. CASE EraseSource
      BY <2>3 DEF EraseSource, CopiesInv, CopiesTyped
    <2>4. CASE NextDay
      BY <2>4 DEF NextDay, CopiesInv, CopiesTyped
    <2> QED BY <2>1, <2>2, <2>3, <2>4 DEF CopiesNext
  <1>2. \/ erasedOn' = erasedOn /\ wasDischarged' = wasDischarged \cup Seen
        \/ erasedOn = -1 /\ erasedOn' # -1 /\ wasDischarged' = Seen
    BY DEF CopiesNext, DeclareCopy, Attest, EraseSource, NextDay, CopiesInv, CopiesTyped
  <1>3. /\ Seen \subseteq replicas' /\ (erasedOn' = -1 => Seen = {})
        /\ \A r \in Seen : erasedOn' # -1 => Discharged({r})'
    BY DEF Seen
  <1>4. ASSUME erasedOn' # -1, NEW r \in wasDischarged' PROVE Discharged({r})'
    <2>1. CASE r \in Seen
      BY <1>3, <1>4, <2>1
    <2>2. CASE r \notin Seen
      <3>1. erasedOn' = erasedOn /\ erasedOn # -1 /\ r \in wasDischarged /\ r \in Declarable
        BY <1>2, <1>4, <2>2 DEF CopiesInv, CopiesTyped
      <3>2. DischargedIn(r, today, erasedOn, DOMAIN attestations)
        BY <3>1, DischargedMeans DEF CopiesInv, ClosedCopies
      <3>3. today \in Nat /\ today' \in Nat /\ erasedOn \in Nat
        BY <1>1, <3>1 DEF CopiesInv, CopiesTyped
      <3>4. DischargedIn(r, today', erasedOn', DOMAIN attestations')
        BY <1>1, <3>1, <3>2, <3>3, ClosedStaysClosed
      <3> QED BY <3>4, DischargedMeansNext
    <2> QED BY <2>1, <2>2
  <1>5. (erasedOn' = -1 => wasDischarged' = {}) /\ wasDischarged' \subseteq replicas'
    BY <1>1, <1>2, <1>3 DEF CopiesInv
  <1> QED BY <1>1, <1>4, <1>5 DEF CopiesInv, ClosedCopies

LEMMA ClosedCopiesFromInv == CopiesInv => ClosedCopiesStayClosed
  <1> SUFFICES ASSUME CopiesInv, erasedOn # -1
               PROVE  ClosedCopiesStayClosed
    BY DEF ClosedCopiesStayClosed
  <1>1. \A r \in wasDischarged : Discharged({r})
    BY DEF CopiesInv, ClosedCopies
  <1>2. ASSUME NEW d \in Copied
        PROVE  /\ IsDischarged(ReplicaReport(d)) <=> Discharged(ForDataset(d))
               /\ \A e \in ProofEntries(ForDataset(d)) : e.disposition = ReplicaReport(d)[e.replica]
               /\ Discharged(ForDataset(d)) => Unreachable(ForDataset(d)) = {}
    <2>1. \A r : DispositionOf(r, DOMAIN attestations, today)
                   \in {"unreachable", "follows_source", "expired", "attested", "outstanding"}
      BY DEF DispositionOf
    <2>2. IsDischarged(ReplicaReport(d)) <=> Discharged(ForDataset(d))
      BY <2>1 DEF IsDischarged, ReplicaReport, Discharged, Range
    <2>3. \A e \in ProofEntries(ForDataset(d)) : e.disposition = ReplicaReport(d)[e.replica]
      BY DEF ProofEntries, ReplicaReport
    <2>4. Discharged(ForDataset(d)) => Unreachable(ForDataset(d)) = {}
      BY DEF Discharged, Unreachable, DispositionOf
    <2> QED BY <2>2, <2>3, <2>4
  <1>3. ASSUME NEW r \in replicas
        PROVE  /\ ~Discharged({r}) => r \in ObligationsFor(replicas)
               /\ Discharged({r}) /\ r.kind \notin FollowsSource =>
                    \/ r.retention # NoRetention /\ \E day \in erasedOn .. today : day - erasedOn = r.retention
                    \/ r \in Attested(replicas) /\ attestations[r.location] <= today
               /\ r \in ExpiredBy(replicas) => r \notin Outstanding(replicas) \cup Attested(replicas)
    <2>1. /\ r.retention \in Nat \cup {NoRetention}
          /\ erasedOn \in Nat /\ today \in Nat
          /\ \A l \in DOMAIN attestations : attestations[l] <= today
      BY CopiesAssumption DEF CopiesAssumption, CopiesInv, CopiesTyped
    <2>2. ~Discharged({r}) => r \in ObligationsFor(replicas)
      BY DEF Discharged, ObligationsFor, DispositionOf
    <2>3. ASSUME Discharged({r}), r.kind \notin FollowsSource
          PROVE  \/ r.retention # NoRetention /\ \E day \in erasedOn .. today : day - erasedOn = r.retention
                 \/ r \in Attested(replicas) /\ attestations[r.location] <= today
      <3>1. CASE HasLapsed(r, today)
        <4>1. r.retention \in Nat /\ r.retention # NoRetention /\ today - erasedOn >= r.retention
          BY <2>1, <3>1 DEF HasLapsed
        <4>2. erasedOn + r.retention \in erasedOn .. today
              /\ (erasedOn + r.retention) - erasedOn = r.retention
          BY <2>1, <4>1
        <4> QED BY <4>1, <4>2
      <3>2. CASE ~HasLapsed(r, today)
        <4>1. r.location \in DOMAIN attestations /\ DispositionOf(r, DOMAIN attestations, today) = "attested"
          BY <2>3, <3>2 DEF Discharged, DispositionOf
        <4> QED BY <2>1, <4>1 DEF Attested
      <3> QED BY <3>1, <3>2
    <2>4. r \in ExpiredBy(replicas) => r \notin Outstanding(replicas) \cup Attested(replicas)
      BY DEF ExpiredBy, Outstanding, Attested, DispositionOf
    <2> QED BY <2>2, <2>3, <2>4
  <1> QED BY <1>1, <1>2, <1>3 DEF ClosedCopiesStayClosed

LEMMA CopiesHold == GovernanceSpec => []CopiesInv
  <1>1. CopiesInit => CopiesInv
    BY CopiesAssumption DEF CopiesInit, CopiesInv, CopiesTyped, ClosedCopies
  <1>2. CopiesInv /\ UNCHANGED copiesVars => CopiesInv'
    BY DEF CopiesInv, copiesVars, CopiesTyped, ClosedCopies, Discharged, DispositionOf, HasLapsed
  <1>3. GovernanceInit => CopiesInv
    BY <1>1 DEF GovernanceInit
  <1>4. CopiesInv /\ [GovernanceNext]_governanceVars => CopiesInv'
    BY <1>2, CopiesInvNext DEF GovernanceNext, governanceVars
  <1> QED BY <1>3, <1>4, PTL DEF GovernanceSpec

-----------------------------------------------------------------------------
(***************************************************************************)
(* govern/approvals.py                                                     *)
(***************************************************************************)

Votes == [approver : People, roles : SUBSET {"data-owner"}, team : Teams \cup {NoTeam}, rejected : BOOLEAN]

ApprovalsInv ==
  /\ submission = [proposal |-> submission.proposal, votes |-> submission.votes]
  /\ submission.votes \in Seq(Votes)
  /\ \A i \in DOMAIN submission.votes :
       submission.votes[i].rejected \/ submission.votes[i].approver # submission.proposal.proposer

\* A vote is added at the end, and its own proposer's can only be a rejection.
LEMMA VoteIsAdded ==
  ASSUME ApprovalsInv, ApprovalsNext
  PROVE  \E v \in Votes : /\ v.rejected \/ v.approver # submission.proposal.proposer
                          /\ submission'.proposal = submission.proposal
                          /\ submission'.votes = Append(submission.votes, v)
                          /\ submission' = [proposal |-> submission'.proposal, votes |-> submission'.votes]
  <1>1. PICK who \in People :
               \/ \E held \in SUBSET {"data-owner"}, team \in Teams \cup {NoTeam} : Approve(who, held, team)
               \/ Reject(who)
    BY DEF ApprovalsNext
  <1>2. ASSUME NEW v, submission' = [submission EXCEPT !.votes = Append(@, v)]
        PROVE  /\ submission'.proposal = submission.proposal
               /\ submission'.votes = Append(submission.votes, v)
               /\ submission' = [proposal |-> submission'.proposal, votes |-> submission'.votes]
    BY <1>2 DEF ApprovalsInv
  <1>3. CASE Reject(who)
    <2> DEFINE v == [approver |-> who, roles |-> {}, team |-> NoTeam, rejected |-> TRUE]
    <2>1. v \in Votes /\ v.rejected
      BY DEF Votes
    <2>2. submission' = [submission EXCEPT !.votes = Append(@, v)]
      BY <1>3 DEF Reject
    <2> HIDE DEF v
    <2> QED BY <1>2, <2>1, <2>2
  <1>4. ASSUME NEW held \in SUBSET {"data-owner"}, NEW team \in Teams \cup {NoTeam}, Approve(who, held, team)
        PROVE  \E v \in Votes : /\ v.rejected \/ v.approver # submission.proposal.proposer
                                /\ submission' = [submission EXCEPT !.votes = Append(@, v)]
    <2> DEFINE v == [approver |-> who, roles |-> held, team |-> team, rejected |-> FALSE]
    <2>1. v \in Votes /\ v.approver # submission.proposal.proposer
      BY <1>4 DEF Votes, Approve
    <2>2. submission' = [submission EXCEPT !.votes = Append(@, v)]
      BY <1>4 DEF Approve
    <2> HIDE DEF v
    <2> QED BY <2>1, <2>2
  <1> QED BY <1>1, <1>2, <1>3, <1>4

LEMMA VotesStay ==
  ASSUME ApprovalsInv, NEW v, submission'.votes = Append(submission.votes, v)
  PROVE  LET n == Len(submission.votes)
         IN  /\ n \in Nat /\ DOMAIN submission.votes = 1 .. n /\ DOMAIN submission'.votes = 1 .. n + 1
             /\ \A i \in 1 .. n : submission'.votes[i] = submission.votes[i]
             /\ submission'.votes[n + 1] = v
  BY DEF ApprovalsInv

LEMMA ApprovalsInvNext ==
  ASSUME ApprovalsInv, ApprovalsNext
  PROVE  ApprovalsInv'
  <1>1. PICK v \in Votes : /\ v.rejected \/ v.approver # submission.proposal.proposer
                           /\ submission'.proposal = submission.proposal
                           /\ submission'.votes = Append(submission.votes, v)
                           /\ submission' = [proposal |-> submission'.proposal, votes |-> submission'.votes]
    BY VoteIsAdded
  <1>2. submission'.votes \in Seq(Votes)
    BY <1>1 DEF ApprovalsInv
  <1>3. \A i \in DOMAIN submission'.votes :
          submission'.votes[i].rejected \/ submission'.votes[i].approver # submission'.proposal.proposer
    BY <1>1, VotesStay DEF ApprovalsInv
  <1> QED BY <1>1, <1>2, <1>3 DEF ApprovalsInv

LEMMA VerdictStandsNext ==
  ASSUME ApprovalsInv, ApprovalsNext
  PROVE  VerdictStands
  <1>1. PICK v \in Votes : /\ submission'.proposal = submission.proposal
                           /\ submission'.votes = Append(submission.votes, v)
    BY VoteIsAdded
  <1> DEFINE n == Len(submission.votes)
  <1>2. /\ n \in Nat /\ DOMAIN submission.votes = 1 .. n /\ DOMAIN submission'.votes = 1 .. n + 1
        /\ \A i \in 1 .. n : submission'.votes[i] = submission.votes[i]
    BY <1>1, VotesStay
  <1>3. Rejected(submission) \subseteq Rejected(submission') /\ Granted(submission) \subseteq Granted(submission')
    BY <1>2 DEF Rejected, Granted
  <1>4. Cardinality(Granted(submission)) <= Cardinality(Granted(submission'))
        /\ Cardinality(Granted(submission)) \in Nat /\ Cardinality(Granted(submission')) \in Nat
    <2>1. 1 \in Int /\ n + 1 \in Int /\ Granted(submission') \in SUBSET (1 .. n + 1)
      BY <1>2 DEF Granted
    <2>2. IsFiniteSet(Granted(submission'))
      BY <2>1, FS_Interval, FS_Subset
    <2> QED BY <1>3, <2>2, FS_Subset, FS_CardinalityType
  <1>5. RequiredApprovals(submission'.proposal) = RequiredApprovals(submission.proposal)
        /\ RequiredApprovals(submission.proposal).approvals \in Nat
    BY <1>1 DEF RequiredApprovals
  <1>6. Rejected(submission) # {} => ~Decide(submission')
    BY <1>3 DEF Decide
  <1>7. ASSUME Decide(submission), Rejected(submission') = {} PROVE Decide(submission')
    <2>1. Enough(Granted(submission'), RequiredApprovals(submission'.proposal))
      BY <1>4, <1>5, <1>7 DEF Decide, Enough
    <2>2. \A i \in Granted(submission) : i \in Granted(submission') /\ submission'.votes[i] = submission.votes[i]
      BY <1>2, <1>3 DEF Granted
    <2> QED BY <1>1, <1>5, <1>7, <2>1, <2>2 DEF Decide
  <1> QED BY <1>6, <1>7 DEF VerdictStands

LEMMA TwoOf ==
  ASSUME NEW S, IsFiniteSet(S), Cardinality(S) >= 2
  PROVE  \E x, y \in S : x # y
  <1>1. S # {}
    BY FS_EmptySet
  <1>2. PICK x \in S : TRUE
    BY <1>1
  <1>3. IsFiniteSet({x}) /\ Cardinality({x}) = 1
    BY FS_Singleton
  <1>4. S # {x}
    BY <1>3
  <1> QED BY <1>2, <1>4

LEMMA PairHasTwo ==
  ASSUME NEW x, NEW y, x # y
  PROVE  IsFiniteSet({x, y}) /\ Cardinality({x, y}) = 2
  <1> DEFINE A == {x}
  <1>1. IsFiniteSet(A) /\ Cardinality(A) = 1 /\ y \notin A
    BY FS_Singleton
  <1>2. IsFiniteSet(A \cup {y}) /\ Cardinality(A \cup {y}) = Cardinality(A) + 1
    <2> HIDE DEF A
    <2> QED BY <1>1, FS_AddElement
  <1>3. A \cup {y} = {x, y}
    OBVIOUS
  <1> QED BY <1>1, <1>2, <1>3

LEMMA AgreedFromInv == ApprovalsInv => ApprovedMeansAgreed
  <1> DEFINE p == submission.proposal
             rule == RequiredApprovals(p)
             granted == Granted(submission)
             votes == submission.votes
             voters == {votes[i].approver : i \in DOMAIN votes}
  <1> SUFFICES ASSUME ApprovalsInv, Decide(submission)
               PROVE  /\ \A i \in DOMAIN votes : ~votes[i].rejected
                      /\ p.proposer \notin voters
                      /\ p.kind \notin {"add_dataset", "add_policy"} => voters # {}
                      /\ BaseRisk(p.kind) >= Breaking => \E i \in DOMAIN votes : "data-owner" \in votes[i].roles
                      /\ BaseRisk(p.kind) >= Breaking /\ p.consumers # {} =>
                           /\ \E i \in DOMAIN votes : votes[i].team \in p.consumers
                           /\ Cardinality(voters) >= 2
                                \/ \E i, j \in DOMAIN votes : i # j /\ votes[i].approver = votes[j].approver
    BY DEF ApprovedMeansAgreed
  <1>1. /\ \A i \in DOMAIN votes : ~votes[i].rejected
        /\ Enough(granted, rule)
        /\ rule.roles # {} => \E i \in granted : votes[i].roles \cap rule.roles # {}
        /\ rule.consumer /\ p.consumers # {} => \E i \in granted : votes[i].team \in p.consumers
    BY DEF Decide, Rejected
  <1>2. granted = DOMAIN votes
    BY <1>1 DEF Granted
  <1>3. p.proposer \notin voters
    BY <1>1 DEF ApprovalsInv
  <1>4. /\ IsFiniteSet(granted) /\ Cardinality(granted) \in Nat
        /\ IsFiniteSet(voters) /\ Cardinality(voters) \in Nat
    <2>1. Len(votes) \in Nat /\ DOMAIN votes = 1 .. Len(votes) /\ 1 \in Int /\ Len(votes) \in Int
      BY DEF ApprovalsInv
    <2>2. IsFiniteSet(DOMAIN votes)
      BY <2>1, FS_Interval
    <2> DEFINE f == [i \in DOMAIN votes |-> votes[i].approver]
    <2>3. f \in [DOMAIN votes -> voters] /\ \A v \in voters : \E i \in DOMAIN votes : f[i] = v
      OBVIOUS
    <2>4. IsFiniteSet(voters)
      <3> HIDE DEF f, voters
      <3>1. f \in Surjection(DOMAIN votes, voters)
        BY <2>3, Fun_IsSurj
      <3> QED BY <2>2, <3>1, FS_Surjection
    <2> QED BY <1>2, <2>2, <2>4, FS_CardinalityType
  <1>5. BaseRisk(p.kind) \in {0, 1, 2, 3} /\ (p.kind \notin {"add_dataset", "add_policy"} => BaseRisk(p.kind) # 0)
    BY DEF BaseRisk, Routine, Significant, Breaking, Governed
  <1>6. /\ BaseRisk(p.kind) # 0 => rule.approvals \in {1, 2}
        /\ BaseRisk(p.kind) >= 2 => rule.roles = {"data-owner"}
        /\ BaseRisk(p.kind) >= 2 /\ p.consumers # {} => rule.approvals = 2 /\ rule.consumer
    <2> DEFINE risk == Classify(p)  least == BaseRisk(p.kind)
    <2>1. risk = IF (p.contracted \/ p.consumers # {}) /\ least >= 2 THEN 3 ELSE least
      BY DEF Classify, Breaking, Governed
    <2>2. /\ rule.approvals = CASE risk = 0 -> 0 [] risk = 3 -> 2 [] OTHER -> 1
          /\ rule.roles = IF risk >= 2 THEN {"data-owner"} ELSE {}
          /\ risk = 3 => rule.consumer
      BY DEF RequiredApprovals, Routine, Breaking, Governed
    <2>3. least \in {0, 1, 2, 3}
      BY <1>5
    <2> HIDE DEF risk, least, rule, p
    <2>4. risk \in {0, 1, 2, 3} /\ (least # 0 => risk # 0) /\ (least >= 2 => risk >= 2)
          /\ (least >= 2 /\ p.consumers # {} => risk = 3)
      BY <2>1, <2>3
    <2>5. /\ risk # 0 => rule.approvals \in {1, 2}
          /\ risk = 3 => rule.approvals = 2
      BY <2>2, <2>4
    <2>6. /\ least # 0 => rule.approvals \in {1, 2}
          /\ least >= 2 => rule.roles = {"data-owner"}
          /\ least >= 2 /\ p.consumers # {} => rule.approvals = 2 /\ rule.consumer
      BY <2>2, <2>4, <2>5
    <2> QED BY <2>6 DEF least
  <1>7. p.kind \notin {"add_dataset", "add_policy"} => voters # {}
    <2>1. SUFFICES ASSUME BaseRisk(p.kind) # 0 PROVE granted # {}
      BY <1>2, <1>5
    <2>2. Cardinality(granted) >= 1
      BY <1>1, <1>4, <1>6, <2>1 DEF Enough
    <2> QED BY <1>4, <2>2, FS_EmptySet
  <1>8. BaseRisk(p.kind) >= Breaking => \E i \in DOMAIN votes : "data-owner" \in votes[i].roles
    BY <1>1, <1>2, <1>6 DEF Breaking
  <1>9. ASSUME BaseRisk(p.kind) >= Breaking, p.consumers # {}
        PROVE  /\ \E i \in DOMAIN votes : votes[i].team \in p.consumers
               /\ Cardinality(voters) >= 2
                    \/ \E i, j \in DOMAIN votes : i # j /\ votes[i].approver = votes[j].approver
    <2>1. rule.approvals = 2 /\ rule.consumer
      BY <1>6, <1>9 DEF Breaking
    <2>2. Cardinality(granted) >= 2
      BY <1>1, <2>1 DEF Enough
    <2>3. PICK i, j \in granted : i # j
      <3> HIDE DEF granted
      <3> QED BY <1>4, <2>2, TwoOf
    <2>4. ASSUME votes[i].approver # votes[j].approver PROVE Cardinality(voters) >= 2
      <3>1. {votes[i].approver, votes[j].approver} \in SUBSET voters
        BY <1>2
      <3>2. Cardinality({votes[i].approver, votes[j].approver}) = 2
        BY <2>4, PairHasTwo
      <3> HIDE DEF voters
      <3> QED BY <1>4, <3>1, <3>2, FS_Subset
    <2> QED BY <1>1, <1>2, <1>9, <2>1, <2>3, <2>4
  <1> QED BY <1>1, <1>3, <1>7, <1>8, <1>9

LEMMA ApprovalsHold == GovernanceSpec => []ApprovalsInv
  <1>1. ASSUME NEW q, submission = [proposal |-> q, votes |-> << >>] PROVE ApprovalsInv
    BY <1>1 DEF ApprovalsInv
  <1>2. GovernanceInit => ApprovalsInv
    BY <1>1 DEF GovernanceInit, ApprovalsInit
  <1>3. ApprovalsInv /\ UNCHANGED approvalVars => ApprovalsInv'
    BY DEF ApprovalsInv, approvalVars
  <1>4. ApprovalsInv /\ [GovernanceNext]_governanceVars => ApprovalsInv'
    BY <1>3, ApprovalsInvNext DEF GovernanceNext, governanceVars
  <1> QED BY <1>2, <1>4, PTL DEF GovernanceSpec

-----------------------------------------------------------------------------
(***************************************************************************)
(* govern/access/audit.py                                                  *)
(***************************************************************************)

Entry(n, actor, event, previous, digest) ==
  [sequence |-> n, actor |-> actor, event |-> event, previous |-> previous, digest |-> digest]
Faithful(e) == e = Entry(e.sequence, e.actor, e.event, e.previous, Body(e))

\* What storage can make of an entry: another actor, its digest emptied.
Variants(S) == {Entry(s.sequence, a, s.event, s.previous, IF u THEN Unsealed ELSE s.digest) :
                  s \in S, a \in Actors, u \in BOOLEAN}

Untouched ==
  \A i \in DOMAIN log : /\ log[i] \in sealedLog
                        /\ log[i].sequence = i - 1 /\ log[i].previous = ExpectedPrevious(log, i)

AuditInv ==
  /\ faults \in Nat
  /\ \A s \in sealedLog : Faithful(s) /\ s.actor \in Actors
  /\ log \in Seq(Variants(sealedLog))
  /\ faults = 0 => Untouched

LEMMA VerifyClean ==
  ASSUME NEW es
  PROVE  Verify(es) = {} <=>
           \A i \in DOMAIN es :
             /\ es[i].digest # Unsealed /\ ComputeDigest(es[i]) = es[i].digest
             /\ es[i].previous = ExpectedPrevious(es, i)
             /\ es[i].sequence = i - 1
  <1> DEFINE at(i) == (IF es[i].digest = Unsealed THEN {<<i, "unsealed">>}
                       ELSE IF ComputeDigest(es[i]) # es[i].digest THEN {<<i, "altered">>} ELSE {})
                      \cup (IF es[i].previous # ExpectedPrevious(es, i) THEN {<<i, "unlinked">>} ELSE {})
                      \cup (IF es[i].sequence # i - 1 THEN {<<i, "gap">>} ELSE {})
  <1>1. Verify(es) = UNION {at(i) : i \in DOMAIN es}
    BY DEF Verify
  <1>2. ASSUME NEW i \in DOMAIN es
        PROVE  at(i) = {} <=> /\ es[i].digest # Unsealed /\ ComputeDigest(es[i]) = es[i].digest
                              /\ es[i].previous = ExpectedPrevious(es, i)
                              /\ es[i].sequence = i - 1
    OBVIOUS
  <1>3. Verify(es) = {} <=> \A i \in DOMAIN es : at(i) = {}
    <2> HIDE DEF at
    <2> QED BY <1>1
  <1> HIDE DEF at
  <1> QED BY <1>2, <1>3

\* An entry with a digest of its own content is the entry that was sealed.
LEMMA SealedIsWritten ==
  ASSUME NEW S, \A s \in S : Faithful(s), NEW e \in Variants(S),
         e.digest # Unsealed, ComputeDigest(e) = e.digest
  PROVE  e \in S
  <1>1. PICK s \in S, a \in Actors, u \in BOOLEAN :
               e = Entry(s.sequence, a, s.event, s.previous, IF u THEN Unsealed ELSE s.digest)
    BY DEF Variants
  <1>2. e.digest = s.digest /\ s.digest = Body(s)
    BY <1>1 DEF Entry, Faithful
  <1>3. Body(e) = Body(s)
    BY <1>2 DEF ComputeDigest
  <1>4. e.actor = s.actor /\ e.actor = a
    BY <1>1, <1>3 DEF Body, Entry
  <1>5. e = Entry(s.sequence, s.actor, s.event, s.previous, s.digest)
    BY <1>1, <1>2, <1>4 DEF Entry
  <1>6. s = Entry(s.sequence, s.actor, s.event, s.previous, s.digest)
    BY <1>2 DEF Faithful
  <1> QED BY <1>5, <1>6

LEMMA CleanFromInv == AuditInv => CleanLogsWereWritten
  <1> SUFFICES ASSUME AuditInv PROVE CleanLogsWereWritten
    OBVIOUS
  <1>1. ASSUME Verify(log) = {}, NEW i \in DOMAIN log
        PROVE  log[i] \in sealedLog /\ log[i].previous = IF i = 1 THEN GENESIS ELSE Body(log[i - 1])
    <2>1. /\ log[i].digest # Unsealed /\ ComputeDigest(log[i]) = log[i].digest
          /\ log[i].previous = ExpectedPrevious(log, i)
      BY <1>1, VerifyClean
    <2>2. log[i] \in Variants(sealedLog)
      BY DEF AuditInv
    <2>3. log[i] \in sealedLog
      BY <2>1, <2>2, SealedIsWritten DEF AuditInv
    <2>4. ASSUME i # 1 PROVE log[i].previous = Body(log[i - 1])
      <3>1. i - 1 \in DOMAIN log
        BY <2>4 DEF AuditInv
      <3>2. ComputeDigest(log[i - 1]) = log[i - 1].digest
        BY <1>1, <3>1, VerifyClean
      <3> QED BY <2>1, <2>4, <3>2 DEF ExpectedPrevious, ComputeDigest
    <2>5. i = 1 => log[i].previous = GENESIS
      BY <2>1 DEF ExpectedPrevious
    <2> QED BY <2>3, <2>4, <2>5
  <1>2. ASSUME faults = 0 PROVE Verify(log) = {}
    <2>1. ASSUME NEW i \in DOMAIN log
          PROVE  /\ log[i].digest # Unsealed /\ ComputeDigest(log[i]) = log[i].digest
                 /\ log[i].previous = ExpectedPrevious(log, i) /\ log[i].sequence = i - 1
      <3>1. log[i] \in sealedLog /\ log[i].sequence = i - 1 /\ log[i].previous = ExpectedPrevious(log, i)
        BY <1>2 DEF AuditInv, Untouched
      <3>2. log[i].digest = Body(log[i])
        BY <3>1 DEF AuditInv, Faithful, Entry
      <3> QED BY <3>1, <3>2 DEF ComputeDigest, Body, Unsealed
    <2> QED BY <2>1, VerifyClean
  <1> QED BY <1>1, <1>2 DEF CleanLogsWereWritten

LEMMA VariantsAre ==
  ASSUME NEW S, NEW s \in S, NEW a \in Actors
  PROVE  /\ Entry(s.sequence, a, s.event, s.previous, s.digest) \in Variants(S)
         /\ Entry(s.sequence, a, s.event, s.previous, Unsealed) \in Variants(S)
  <1> DEFINE v(u) == Entry(s.sequence, a, s.event, s.previous, IF u THEN Unsealed ELSE s.digest)
  <1>1. \A u \in BOOLEAN : v(u) \in Variants(S)
    BY DEF Variants
  <1>2. v(TRUE) \in Variants(S) /\ v(FALSE) \in Variants(S)
    <2> HIDE DEF v
    <2> QED BY <1>1
  <1> QED BY <1>2

LEMMA AppendKeepsLog ==
  ASSUME AuditInv, NEW a \in Actors, NEW e \in Events, AppendEntry(a, e)
  PROVE  /\ Len(log) \in Nat /\ DOMAIN log = 1 .. Len(log) /\ DOMAIN log' = 1 .. Len(log) + 1
         /\ \A i \in 1 .. Len(log) : log'[i] = log[i]
         /\ log'[Len(log) + 1] = Sealed(log, a, e)
         /\ \A i \in DOMAIN log : ExpectedPrevious(log', i) = ExpectedPrevious(log, i)
         /\ ExpectedPrevious(log', Len(log) + 1) = HeadOf(log)
  <1>1. log' = Append(log, Sealed(log, a, e))
    BY DEF AppendEntry
  <1>2. /\ Len(log) \in Nat /\ DOMAIN log = 1 .. Len(log) /\ DOMAIN log' = 1 .. Len(log) + 1
        /\ \A i \in 1 .. Len(log) : log'[i] = log[i]
        /\ log'[Len(log) + 1] = Sealed(log, a, e)
    <2> HIDE DEF Sealed
    <2> QED BY <1>1 DEF AuditInv
  <1>3. \A i \in DOMAIN log : ExpectedPrevious(log', i) = ExpectedPrevious(log, i)
    BY <1>2 DEF ExpectedPrevious
  <1>4. ExpectedPrevious(log', Len(log) + 1) = HeadOf(log)
    BY <1>2 DEF ExpectedPrevious, HeadOf, Last, AuditInv
  <1> QED BY <1>2, <1>3, <1>4

LEMMA AuditInvAppend ==
  ASSUME AuditInv, NEW a \in Actors, NEW e \in Events, AppendEntry(a, e)
  PROVE  AuditInv'
  <1> DEFINE s == Sealed(log, a, e)  n == Len(log)
  <1>1. s = Entry(n, a, e, HeadOf(log), Body(s)) /\ s.actor = a /\ Faithful(s)
        /\ s.sequence = n /\ s.previous = HeadOf(log)
    BY DEF Sealed, Entry, Faithful, Body, ComputeDigest
  <1>2. log' = Append(log, s) /\ sealedLog' = sealedLog \cup {s} /\ faults' = faults
    BY DEF AppendEntry
  <1> HIDE DEF s
  <1>3. Variants(sealedLog) \subseteq Variants(sealedLog')
    BY <1>2 DEF Variants
  <1>4. s \in Variants(sealedLog')
    <2>1. s = Entry(s.sequence, a, s.event, s.previous, s.digest)
      BY <1>1 DEF Faithful, Entry
    <2> QED BY <1>2, <2>1, VariantsAre
  <1>5. log' \in Seq(Variants(sealedLog'))
    <2>1. log \in Seq(Variants(sealedLog'))
      BY <1>3, SeqMonotonic DEF AuditInv
    <2> QED BY <1>2, <1>4, <2>1, AppendProperties
  <1>6. ASSUME faults' = 0, NEW i \in DOMAIN log'
        PROVE  log'[i] \in sealedLog' /\ log'[i].sequence = i - 1 /\ log'[i].previous = ExpectedPrevious(log', i)
    <2>1. CASE i \in DOMAIN log
      BY <1>2, <1>6, <2>1, AppendKeepsLog DEF AuditInv, Untouched
    <2>2. CASE i = n + 1
      BY <1>1, <1>2, <2>2, AppendKeepsLog DEF s
    <2> QED BY <2>1, <2>2, AppendKeepsLog
  <1> QED BY <1>1, <1>2, <1>5, <1>6 DEF AuditInv, Untouched

LEMMA AuditInvReplay ==
  ASSUME AuditInv, Replay
  PROVE  AuditInv'
  <1> DEFINE V == Variants(sealedLog)
  <1>1. faults' = faults + 1 /\ sealedLog' = sealedLog
    BY DEF Replay
  <1>2. PICK i \in DOMAIN log : Lose(i) \/ Swap(i) \/ (\E a \in Actors : Alter(i, a)) \/ Unseal(i)
    BY DEF Replay
  <1>3. /\ log \in Seq(V) /\ Len(log) \in Nat /\ DOMAIN log = 1 .. Len(log) /\ i \in 1 .. Len(log)
        /\ \A j \in 1 .. Len(log) : log[j] \in V
    <2> HIDE DEF V
    <2>1. log \in Seq(V)
      BY DEF AuditInv, V
    <2> QED BY <2>1, LenProperties, ElementOfSeq
  <1>4. PICK s \in sealedLog, b \in Actors, u \in BOOLEAN :
               log[i] = Entry(s.sequence, b, s.event, s.previous, IF u THEN Unsealed ELSE s.digest)
    BY <1>3 DEF Variants
  <1>5. ASSUME Lose(i) PROVE log' \in Seq(V)
    <2> HIDE DEF V
    <2>1. SubSeq(log, 1, i - 1) \in Seq(V) /\ SubSeq(log, i + 1, Len(log)) \in Seq(V)
      BY <1>3, SubSeqProperties
    <2> QED BY <1>5, <2>1, ConcatProperties DEF Lose
  <1>6. ASSUME Swap(i) PROVE log' \in Seq(V)
    <2> HIDE DEF V
    <2>1. i + 1 \in 1 .. Len(log)
      BY <1>3, <1>6 DEF Swap
    <2>2. [log EXCEPT ![i] = log[i + 1]] \in Seq(V) /\ Len([log EXCEPT ![i] = log[i + 1]]) = Len(log)
      BY <1>3, <2>1, ExceptSeq
    <2>3. log' = [[log EXCEPT ![i] = log[i + 1]] EXCEPT ![i + 1] = log[i]]
      BY <1>6 DEF Swap
    <2> QED BY <1>3, <2>1, <2>2, <2>3, ExceptSeq
  <1>7. ASSUME NEW a \in Actors, Alter(i, a) PROVE log' \in Seq(V)
    <2>1. [log[i] EXCEPT !.actor = a] = Entry(s.sequence, a, s.event, s.previous, IF u THEN Unsealed ELSE s.digest)
      BY <1>4 DEF Entry
    <2>2. [log[i] EXCEPT !.actor = a] \in V
      BY <2>1 DEF Variants
    <2>3. log' = [log EXCEPT ![i] = [log[i] EXCEPT !.actor = a]]
      BY <1>7 DEF Alter
    <2> HIDE DEF V
    <2> QED BY <1>3, <2>2, <2>3, ExceptSeq
  <1>8. ASSUME Unseal(i) PROVE log' \in Seq(V)
    <2>1. [log[i] EXCEPT !.digest = Unsealed] = Entry(s.sequence, b, s.event, s.previous, Unsealed)
      BY <1>4 DEF Entry
    <2>2. [log[i] EXCEPT !.digest = Unsealed] \in V
      BY <2>1, VariantsAre
    <2>3. log' = [log EXCEPT ![i] = [log[i] EXCEPT !.digest = Unsealed]]
      BY <1>8 DEF Unseal
    <2> HIDE DEF V
    <2> QED BY <1>3, <2>2, <2>3, ExceptSeq
  <1>9. log' \in Seq(V)
    BY <1>2, <1>5, <1>6, <1>7, <1>8
  <1> QED BY <1>1, <1>9 DEF AuditInv

LEMMA BreaksStayNext ==
  ASSUME AuditInv, AuditNext
  PROVE  BreaksStay
  <1> SUFFICES ASSUME faults' = faults PROVE Verify(log) \subseteq Verify(log')
    BY DEF BreaksStay
  <1>1. ~Replay
    BY DEF AuditInv, Replay
  <1>2. PICK a \in Actors, e \in Events : AppendEntry(a, e)
    BY <1>1 DEF AuditNext
  <1>3. /\ DOMAIN log \subseteq DOMAIN log'
        /\ \A i \in DOMAIN log : log'[i] = log[i] /\ ExpectedPrevious(log', i) = ExpectedPrevious(log, i)
    BY <1>2, AppendKeepsLog
  <1> QED BY <1>3 DEF Verify

LEMMA AuditHolds == GovernanceSpec => []AuditInv
  <1>1. AuditInit => AuditInv
    BY EmptySeq DEF AuditInit, AuditInv, Untouched
  <1>2. AuditInv /\ AuditNext => AuditInv'
    BY AuditInvAppend, AuditInvReplay DEF AuditNext
  <1>3. AuditInv /\ UNCHANGED auditVars => AuditInv'
    BY DEF AuditInv, auditVars, Untouched, ExpectedPrevious
  <1>4. GovernanceInit => AuditInv
    BY <1>1 DEF GovernanceInit
  <1>5. AuditInv /\ [GovernanceNext]_governanceVars => AuditInv'
    BY <1>2, <1>3 DEF GovernanceNext, governanceVars
  <1> QED BY <1>4, <1>5, PTL DEF GovernanceSpec

-----------------------------------------------------------------------------
(***************************************************************************)
(* govern/access/tenancy.py                                                *)
(***************************************************************************)

TenancyInv == sharing \subseteq (Tenants \cup {NoTenant}) \X Assets \X Tenants /\ \A d \in DOMAIN ownership : ownership[d] \in Tenants

LEMMA SharedMeans ==
  ASSUME TenancyInv, NEW d, NEW t
  PROVE  IsSharedWith(d, t) <=> <<OwnerOf(d), d, t>> \in sharing
  BY DEF TenancyInv, IsSharedWith, SharedWith

LEMMA SharedMeansNext ==
  ASSUME TenancyInv', NEW d, NEW t
  PROVE  IsSharedWith(d, t)' <=> <<OwnerOf(d)', d, t>> \in sharing'
  BY DEF TenancyInv, IsSharedWith, SharedWith

LEMMA TenancyInvNext ==
  ASSUME TenancyInv, TenancyNext
  PROVE  TenancyInv'
  BY DEF TenancyInv, TenancyNext, Own, Share, OwnerOf

LEMMA BoundariesFromInv == BoundariesAgree
  <1> DEFINE Cross(e) == NoTenant \notin {OwnerOf(e[1]), OwnerOf(e[2])} /\ OwnerOf(e[1]) # OwnerOf(e[2])
             Of(e) == [edge |-> e, kind |-> IF IsSharedWith(e[1], OwnerOf(e[2])) THEN "shared" ELSE "violation"]
  <1>1. Crossings = {Of(e) : e \in {x \in Dependencies : Cross(x)}}
    BY DEF Crossings
  <1>2. \A c \in Crossings : /\ c.edge \in Dependencies /\ Cross(c.edge) /\ c = Of(c.edge)
                             /\ c.kind \in {"shared", "violation"}
    BY <1>1
  <1>3. \A e : Of(e).edge = e /\ (Of(e).kind = "violation" <=> ~IsSharedWith(e[1], OwnerOf(e[2])))
    OBVIOUS
  <1>4. \A e \in Dependencies : Cross(e) => Of(e) \in Crossings
    BY <1>1
  <1> HIDE DEF Of
  <1>5. ASSUME NEW e \in Dependencies, NoTenant \notin {OwnerOf(e[1]), OwnerOf(e[2])}
        PROVE  e[1] \notin ScopeGraph(OwnerOf(e[2])) <=> e \in {c.edge : c \in Leaks}
    <2>1. e[1] \in Assets
      BY TenancyAssumption DEF TenancyAssumption
    <2>2. e[1] \notin ScopeGraph(OwnerOf(e[2])) <=> Cross(e) /\ ~IsSharedWith(e[1], OwnerOf(e[2]))
      BY <1>5, <2>1 DEF ScopeGraph
    <2>3. Cross(e) /\ ~IsSharedWith(e[1], OwnerOf(e[2])) => Of(e) \in Leaks /\ Of(e).edge = e
      BY <1>3, <1>4 DEF Leaks
    <2>4. \A c \in Leaks : Cross(c.edge) /\ ~IsSharedWith(c.edge[1], OwnerOf(c.edge[2]))
      BY <1>2, <1>3 DEF Leaks
    <2> QED BY <2>2, <2>3, <2>4
  <1> DEFINE Told(c) == IF c.kind = "violation" /\ c.edge \in DeclaredDependencies THEN [c EXCEPT !.kind = "undeclared"] ELSE c
  <1>6. \A c \in Crossings : /\ Told(c).edge = c.edge /\ Told(c).kind \in {"shared", "violation", "undeclared"}
                             /\ Told(c).kind = "violation" => Told(c) = c /\ c.edge \notin DeclaredDependencies
                             /\ c.kind = "violation" /\ c.edge \notin DeclaredDependencies => Told(c) = c
    <2> SUFFICES ASSUME NEW c \in Crossings
                 PROVE  /\ Told(c).edge = c.edge /\ Told(c).kind \in {"shared", "violation", "undeclared"}
                        /\ Told(c).kind = "violation" => Told(c) = c /\ c.edge \notin DeclaredDependencies
                        /\ c.kind = "violation" /\ c.edge \notin DeclaredDependencies => Told(c) = c
      OBVIOUS
    <2>1. c = [edge |-> c.edge, kind |-> c.kind] /\ c.kind \in {"shared", "violation"}
      BY <1>2 DEF Of
    <2>2. CASE c.kind = "violation" /\ c.edge \in DeclaredDependencies
      BY <2>1, <2>2
    <2>3. CASE ~(c.kind = "violation" /\ c.edge \in DeclaredDependencies)
      BY <2>1, <2>3
    <2> QED BY <2>2, <2>3
  <1>7. ClassifyCrossings = {Told(c) : c \in Crossings}
    BY DEF ClassifyCrossings
  <1> HIDE DEF Told
  <1>8. {c.edge : c \in Crossings} =
          {c.edge : c \in TenantSummary.violations \cup TenantSummary.undeclared \cup TenantSummary.shared}
    <2>1. TenantSummary.violations \cup TenantSummary.undeclared \cup TenantSummary.shared = ClassifyCrossings
      BY <1>6, <1>7 DEF TenantSummary
    <2> QED BY <1>6, <1>7, <2>1
  <1>9. TenantSummary.violations \subseteq Leaks
    BY <1>6, <1>7 DEF TenantSummary, Leaks
  <1>10. ASSUME IsolationOk, NEW c \in Leaks PROVE c.edge \in DeclaredDependencies
    <2>1. c \in Crossings /\ c.kind = "violation"
      BY DEF Leaks
    <2>2. Told(c) \in ClassifyCrossings
      BY <1>7, <2>1
    <2> QED BY <1>6, <1>10, <2>1, <2>2 DEF IsolationOk, TenantSummary
  <1> QED BY <1>5, <1>8, <1>9, <1>10 DEF BoundariesAgree

LEMMA NobodySeesMore == ASSUME TenancyInv, TenancyInv' PROVE NobodySeesMoreUnnamed
  <1> SUFFICES ASSUME NEW d \in Assets, NEW t \in Tenants, d \in ScopeGraph(t)',
                      d \notin ScopeGraph(t) \/ OwnerOf(d)' # OwnerOf(d)
               PROVE  \/ OwnerOf(d)' = t
                      \/ <<OwnerOf(d)', d, t>> \in sharing' /\ (OwnerOf(d)' = OwnerOf(d) => <<OwnerOf(d), d, t>> \notin sharing)
    BY DEF NobodySeesMoreUnnamed
  <1>1. OwnerOf(d)' = t \/ <<OwnerOf(d)', d, t>> \in sharing'
    BY SharedMeansNext DEF ScopeGraph
  <1>2. d \notin ScopeGraph(t) => <<OwnerOf(d), d, t>> \notin sharing
    BY SharedMeans DEF ScopeGraph
  <1> QED BY <1>1, <1>2

LEMMA TenancyHolds == GovernanceSpec => []TenancyInv
  <1>1. GovernanceInit => TenancyInv
    BY DEF GovernanceInit, TenancyInit, TenancyInv
  <1>2. TenancyInv /\ UNCHANGED tenancyVars => TenancyInv'
    BY DEF TenancyInv, tenancyVars
  <1>3. TenancyInv /\ [GovernanceNext]_governanceVars => TenancyInv'
    BY <1>2, TenancyInvNext DEF GovernanceNext, governanceVars
  <1> QED BY <1>1, <1>3, PTL DEF GovernanceSpec

-----------------------------------------------------------------------------
(***************************************************************************)
(* govern/access/rbac.py                                                   *)
(***************************************************************************)

RbacInv ==
  /\ DOMAIN roles \subseteq RoleNames /\ \A r \in DOMAIN roles : roles[r] \in RoleShapes
  /\ holder \subseteq RoleNames
  /\ \A d \in DOMAIN level : level[d] \in Nat

\* The walk through the parents, cyclic or not, reaches what is inherited.
LEMMA ReachedIsInherited == RbacInv => RolesReached = Inherited
  <1> SUFFICES ASSUME RbacInv PROVE RolesReached = Inherited
    OBVIOUS
  <1> DEFINE N == Cardinality(RoleNames)
             walk == [seen \in SUBSET RoleNames |-> WalkParents(seen)]
             reach[n \in 0 .. Cardinality(RoleNames)] == IF n = 0 THEN holder ELSE walk[reach[n - 1]]
  <1>1. \A r \in DOMAIN roles : roles[r].inherits \subseteq RoleNames
    BY RbacAssumption DEF RbacAssumption, RbacInv
  <1>2. \A S \in SUBSET RoleNames : /\ WalkParents(S) \in SUBSET RoleNames /\ S \subseteq WalkParents(S)
                                    /\ walk[S] = WalkParents(S)
    BY <1>1 DEF WalkParents
  <1>3. HasSize(RoleNames, N) /\ holder \in SUBSET RoleNames /\ IsWidening(walk, RoleNames)
    BY <1>2, RbacAssumption DEF RbacAssumption, RbacInv, HasSize, IsWidening
  <1>4. IsIteration(reach, N, holder, walk)
    BY DEF IsIteration
  <1> HIDE DEF N, walk, reach
  <1>5. /\ reach[N] \in SUBSET RoleNames /\ holder \subseteq reach[N] /\ walk[reach[N]] = reach[N]
        /\ \A C \in SUBSET RoleNames :
             holder \subseteq C /\ (\A S \in SUBSET C : walk[S] \subseteq C) => reach[N] \subseteq C
    BY <1>3, <1>4, RoundsClose
  <1>6. RolesReached = reach[N] \cap DOMAIN roles
    BY DEF RolesReached, N, walk, reach
  <1>7. ASSUME NEW S \in SUBSET DOMAIN roles, holder \cap DOMAIN roles \subseteq S, HasItsParents(S)
        PROVE  reach[N] \cap DOMAIN roles \subseteq S
    <2> DEFINE C == S \cup (RoleNames \ DOMAIN roles)
    <2>1. C \in SUBSET RoleNames /\ holder \subseteq C
      BY <1>7 DEF RbacInv
    <2>2. ASSUME NEW T \in SUBSET C PROVE walk[T] \subseteq C
      <3>1. T \in SUBSET RoleNames /\ walk[T] = T \cup UNION {roles[r].inherits : r \in T \cap DOMAIN roles}
        BY <2>1, <1>2 DEF WalkParents
      <3>2. \A r \in T \cap DOMAIN roles : roles[r].inherits \subseteq C
        BY <1>1, <1>7 DEF HasItsParents
      <3> QED BY <3>1, <3>2
    <2>3. reach[N] \subseteq C
      <3> HIDE DEF C
      <3> QED BY <1>5, <2>1, <2>2
    <2> QED BY <2>3
  <1>8. holder \cap DOMAIN roles \subseteq reach[N] \cap DOMAIN roles /\ HasItsParents(reach[N] \cap DOMAIN roles)
    BY <1>2, <1>5 DEF HasItsParents, WalkParents
  <1> QED BY <1>6, <1>7, <1>8 DEF Inherited

LEMMA ReachedIsInheritedNext == RbacInv' => (RolesReached = Inherited)'
  BY ReachedIsInherited, PTL

\* What a role grants has a grant's fields.
LEMMA GrantsAreGrants ==
  ASSUME NEW given \in RoleShapes, NEW g \in given.grants
  PROVE  /\ g.actions \subseteq STRING /\ g.selector \subseteq Things /\ g.deny \in BOOLEAN
         /\ g.cap \in Nat \cup {NoCap} /\ g.columns \subseteq Fields
  <1>1. g \in Grants
    BY RbacAssumption DEF RbacAssumption
  <1> QED BY <1>1 DEF Grants

\* Who is allowed has a grant that matches, and none that denies or caps it lower.
LEMMA AllowedMeans ==
  RbacInv => \A d \in Things, a \in {"read:profile", "erase"} :
               Can(a, d) <=> /\ Matching(a, d) # {}
                             /\ \A g \in Matching(a, d) : ~g.deny /\ (g.cap = NoCap \/ SensitivityOf(d) <= g.cap)
  <1> SUFFICES ASSUME RbacInv, NEW d \in Things, NEW a \in {"read:profile", "erase"}
               PROVE  Can(a, d) <=> /\ Matching(a, d) # {}
                                    /\ \A g \in Matching(a, d) :
                                         ~g.deny /\ (g.cap = NoCap \/ SensitivityOf(d) <= g.cap)
    OBVIOUS
  <1>1. SensitivityOf(d) \in Nat
    BY RbacAssumption DEF RbacAssumption, RbacInv, SensitivityOf
  <1>2. \A g \in Matching(a, d) : g.deny \in BOOLEAN /\ g.cap \in Nat \cup {NoCap}
    BY GrantsAreGrants DEF Matching, GrantsFor, RolesReached, RbacInv
  <1> QED BY <1>1, <1>2 DEF Can, Explain

LEMMA AllowedMeansNext ==
  RbacInv' => (\A d \in Things, a \in {"read:profile", "erase"} :
                 Can(a, d) <=> /\ Matching(a, d) # {}
                               /\ \A g \in Matching(a, d) :
                                    ~g.deny /\ (g.cap = NoCap \/ SensitivityOf(d) <= g.cap))'
  BY AllowedMeans, PTL

LEMMA DecisionsFromInv == RbacInv => InheritedDenialsDecide
  <1> SUFFICES ASSUME RbacInv PROVE InheritedDenialsDecide
    OBVIOUS
  <1>1. ASSUME NEW d \in Things, NEW a \in {"read:profile", "erase"}
        PROVE  Matching(a, d) = UNION {{g \in roles[r].grants : a \in g.actions /\ d \in g.selector} : r \in Inherited}
    <2>1. GrantsFor = UNION {roles[r].grants : r \in Inherited}
      <3>1. RolesReached = Inherited
        BY ReachedIsInherited
      <3> QED BY <3>1 DEF GrantsFor
    <2>2. Matching(a, d) = {g \in UNION {roles[r].grants : r \in Inherited} : a \in g.actions /\ d \in g.selector}
      BY <2>1 DEF Matching
    <2> QED BY <2>2
  <1>2. ASSUME NEW d \in Things, Can("read:profile", d) PROVE ColumnsVisibleTo(d) # {}
    <2>1. PICK g \in Matching("read:profile", d) : ~g.deny
      BY <1>2, AllowedMeans
    <2>2. g.columns \subseteq Fields /\ Fields # {}
      BY <2>1, GrantsAreGrants, RbacAssumption DEF Matching, GrantsFor, RolesReached, RbacInv, RbacAssumption
    <2> QED BY <2>1, <2>2 DEF ColumnsVisibleTo
  <1> QED BY <1>1, <1>2, AllowedMeans DEF InheritedDenialsDecide

\* A role more: the principal keeps every role it had, and has more only if it reaches the new one.
LEMMA RolesOnlyAdd ==
  ASSUME RbacInv, RbacInv', NEW r \in RoleNames \ DOMAIN roles, NEW given \in RoleShapes, AddRole(r, given)
  PROVE  /\ DOMAIN roles' = DOMAIN roles \cup {r}
         /\ Inherited \subseteq Inherited' /\ \A x \in Inherited : x # r /\ roles'[x] = roles[x]
         /\ r \notin Inherited' => Inherited' = Inherited
  <1>1. /\ DOMAIN roles' = DOMAIN roles \cup {r} /\ holder' = holder
        /\ \A x \in DOMAIN roles : roles'[x] = roles[x]
    BY DEF AddRole
  <1>2. Inherited \subseteq Inherited'
    <2> SUFFICES ASSUME NEW x \in Inherited, NEW S \in SUBSET DOMAIN roles',
                        holder' \cap DOMAIN roles' \subseteq S, HasItsParents(S)'
                 PROVE  x \in S
      BY <1>1 DEF Inherited
    <2> DEFINE T == S \cap DOMAIN roles
    <2>1. T \in SUBSET DOMAIN roles /\ holder \cap DOMAIN roles \subseteq T /\ HasItsParents(T)
      BY <1>1 DEF HasItsParents
    <2> QED BY <2>1 DEF Inherited
  <1>3. \A x \in Inherited : x \in DOMAIN roles
    BY DEF Inherited
  <1>4. ASSUME r \notin Inherited' PROVE Inherited' \subseteq Inherited
    <2>1. PICK S0 \in SUBSET DOMAIN roles' : holder' \cap DOMAIN roles' \subseteq S0 /\ HasItsParents(S0)' /\ r \notin S0
      BY <1>1, <1>4 DEF Inherited
    <2> SUFFICES ASSUME NEW x \in Inherited', NEW S \in SUBSET DOMAIN roles,
                        holder \cap DOMAIN roles \subseteq S, HasItsParents(S)
                 PROVE  x \in S
      BY <1>1, <1>4 DEF Inherited
    <2> DEFINE T == S0 \cap S
    <2>2. T \in SUBSET DOMAIN roles' /\ holder' \cap DOMAIN roles' \subseteq T
      BY <1>1, <2>1
    <2>3. HasItsParents(T)'
      <3>1. \A y \in T : /\ y \in S0 /\ y \in S /\ y \in DOMAIN roles
                         /\ roles'[y].inherits \cap DOMAIN roles' \subseteq S0
        BY <2>1 DEF HasItsParents
      <3>2. \A y \in T : roles[y].inherits \cap DOMAIN roles \subseteq S
        BY <3>1 DEF HasItsParents
      <3>3. \A y \in T : roles'[y].inherits \cap DOMAIN roles' \subseteq S0 \cap S
        BY <1>1, <2>1, <3>1, <3>2
      <3> QED BY <3>3 DEF HasItsParents
    <2>4. x \in T
      <3> HIDE DEF T
      <3> QED BY <2>2, <2>3 DEF Inherited
    <2> QED BY <2>4
  <1> QED BY <1>1, <1>2, <1>3, <1>4

LEMMA GrantsAreInherited == RbacInv => GrantsFor = UNION {roles[x].grants : x \in Inherited}
  BY ReachedIsInherited DEF GrantsFor

LEMMA GrantsAreInheritedNext == RbacInv' => (GrantsFor = UNION {roles[x].grants : x \in Inherited})'
  BY GrantsAreInherited, PTL

LEMMA TighteningNext ==
  ASSUME RbacInv, RbacInv', RbacNext
  PROVE  TighteningCloses
  <1> SUFFICES ASSUME NEW d \in Things, NEW a \in {"read:profile", "erase"}
               PROVE
                 /\ roles' = roles /\ SensitivityOf(d)' >= SensitivityOf(d) /\ Can(a, d)' => Can(a, d)
                 /\ \A r \in DOMAIN roles' \ DOMAIN roles :
                      LET brought == IF r \in Inherited' THEN {r} \cup (Inherited' \ Inherited) ELSE {}
                          terms == UNION {{g \in roles'[x].grants : a \in g.actions /\ d \in g.selector} : x \in brought}
                      IN  /\ (\E g \in terms : g.deny) => ~Can(a, d)'
                          /\ (\A g \in terms : g.deny) /\ Can(a, d)' => Can(a, d)
                          /\ Can(a, d) /\ ~Can(a, d)' =>
                               \E g \in terms : g.deny \/ (g.cap # NoCap /\ SensitivityOf(d) > g.cap)
    BY DEF TighteningCloses
  <1>1. /\ Can(a, d) <=> /\ Matching(a, d) # {}
                         /\ \A g \in Matching(a, d) : ~g.deny /\ (g.cap = NoCap \/ SensitivityOf(d) <= g.cap)
        /\ Can(a, d)' <=> /\ Matching(a, d)' # {}
                          /\ \A g \in Matching(a, d)' : ~g.deny /\ (g.cap = NoCap \/ SensitivityOf(d)' <= g.cap)
    BY AllowedMeans, AllowedMeansNext
  <1>2. /\ SensitivityOf(d) \in Nat /\ SensitivityOf(d)' \in Nat
        /\ \A g \in Matching(a, d) : g.cap \in Nat \cup {NoCap}
    <2>1. SensitivityOf(d) \in Nat /\ SensitivityOf(d)' \in Nat
      BY RbacAssumption DEF RbacAssumption, RbacInv, SensitivityOf
    <2> QED BY <2>1, GrantsAreGrants DEF Matching, GrantsFor, RolesReached, RbacInv
  <1>3. CASE \E r \in RoleNames \ DOMAIN roles, given \in RoleShapes : AddRole(r, given)
    <2>1. PICK r \in RoleNames \ DOMAIN roles, given \in RoleShapes : AddRole(r, given)
      BY <1>3
    <2>2. /\ DOMAIN roles' = DOMAIN roles \cup {r}
          /\ Inherited \subseteq Inherited' /\ \A x \in Inherited : x # r /\ roles'[x] = roles[x]
          /\ r \notin Inherited' => Inherited' = Inherited
      BY <2>1, RolesOnlyAdd
    <2>3. DOMAIN roles' \ DOMAIN roles = {r} /\ roles' # roles /\ SensitivityOf(d)' = SensitivityOf(d)
      BY <2>1, <2>2 DEF AddRole, SensitivityOf
    <2>b. PICK B : B = IF r \in Inherited' THEN {r} \cup (Inherited' \ Inherited) ELSE {}
      OBVIOUS
    <2>4. Inherited' = Inherited \cup B
      BY <2>2, <2>b
    <2> DEFINE OfRole(x) == {g \in roles'[x].grants : a \in g.actions /\ d \in g.selector}
    <2>t. PICK terms : terms = UNION {OfRole(x) : x \in B}
      OBVIOUS
    <2>5. Matching(a, d) = {g \in UNION {roles[x].grants : x \in Inherited} : a \in g.actions /\ d \in g.selector}
      BY GrantsAreInherited DEF Matching
    <2>6. Matching(a, d)' = {g \in UNION {roles'[x].grants : x \in Inherited'} : a \in g.actions /\ d \in g.selector}
      BY GrantsAreInheritedNext DEF Matching
    <2>7. Matching(a, d)' = Matching(a, d) \cup terms
      <3>1. ASSUME NEW g \in Matching(a, d)' PROVE g \in Matching(a, d) \cup terms
        <4>1. PICK x \in Inherited' : g \in roles'[x].grants /\ a \in g.actions /\ d \in g.selector
          BY <2>6, <3>1
        <4>2. CASE x \in Inherited
          <5>1. g \in roles[x].grants
            BY <2>2, <4>1, <4>2
          <5> QED BY <2>5, <4>1, <4>2, <5>1
        <4>3. CASE x \in B
          <5>1. g \in OfRole(x)
            BY <4>1
          <5> HIDE DEF OfRole
          <5> QED BY <2>t, <4>3, <5>1
        <4> QED BY <2>4, <4>2, <4>3
      <3>2. ASSUME NEW g \in Matching(a, d) PROVE g \in Matching(a, d)'
        <4>1. PICK x \in Inherited : g \in roles[x].grants /\ a \in g.actions /\ d \in g.selector
          BY <2>5, <3>2
        <4>2. x \in Inherited' /\ g \in roles'[x].grants
          BY <2>2, <4>1
        <4> QED BY <2>6, <4>1, <4>2
      <3>3. ASSUME NEW g \in terms PROVE g \in Matching(a, d)'
        <4>1. PICK x \in B : g \in OfRole(x)
          BY <2>t, <3>3
        <4>2. x \in Inherited' /\ g \in roles'[x].grants /\ a \in g.actions /\ d \in g.selector
          BY <2>4, <4>1
        <4> QED BY <2>6, <4>2
      <3> QED BY <3>1, <3>2, <3>3
    <2>8. \A g \in Matching(a, d)' : g.deny \in BOOLEAN /\ g.cap \in Nat \cup {NoCap}
      <3> TAKE g \in Matching(a, d)'
      <3>1. PICK x \in Inherited' : g \in roles'[x].grants
        BY <2>6
      <3>2. x \in DOMAIN roles' /\ roles'[x] \in RoleShapes
        BY <3>1 DEF Inherited, RbacInv
      <3> QED BY <3>1, <3>2, GrantsAreGrants
    <2>9. /\ (\E g \in terms : g.deny) => ~Can(a, d)'
          /\ (\A g \in terms : g.deny) /\ Can(a, d)' => Can(a, d)
          /\ Can(a, d) /\ ~Can(a, d)' => \E g \in terms : g.deny \/ (g.cap # NoCap /\ SensitivityOf(d) > g.cap)
      <3>1. (\E g \in terms : g.deny) => ~Can(a, d)'
        BY <1>1, <2>7
      <3>2. ASSUME \A g \in terms : g.deny, Can(a, d)' PROVE Can(a, d)
        BY <1>1, <2>3, <2>7, <3>2
      <3>3. ASSUME Can(a, d), ~Can(a, d)' PROVE \E g \in terms : g.deny \/ (g.cap # NoCap /\ SensitivityOf(d) > g.cap)
        <4>1. PICK g \in Matching(a, d)' : ~(~g.deny /\ (g.cap = NoCap \/ SensitivityOf(d) <= g.cap))
          BY <1>1, <2>3, <2>7, <3>3
        <4>2. g \in terms
          BY <1>1, <2>7, <3>3, <4>1
        <4>3. g.cap \in Nat \cup {NoCap}
          BY <2>8
        <4> QED BY <1>2, <4>1, <4>2, <4>3
      <3> QED BY <3>1, <3>2, <3>3
    <2> QED BY <2>3, <2>9, <2>b, <2>t
  <1>4. CASE \E x \in Things, rank \in Levels4 : ClassifyThing(x, rank)
    <2>1. roles' = roles /\ holder' = holder
      BY <1>4 DEF ClassifyThing
    <2>2. GrantsFor' = GrantsFor
      BY <2>1 DEF GrantsFor, RolesReached, WalkParents
    <2>3. Matching(a, d)' = Matching(a, d)
      BY <2>2 DEF Matching
    <2>4. ASSUME SensitivityOf(d)' >= SensitivityOf(d), Can(a, d)' PROVE Can(a, d)
      BY <1>1, <1>2, <2>3, <2>4
    <2>5. ASSUME level' = level PROVE Can(a, d)' = Can(a, d)
      <3>1. SensitivityOf(d)' = SensitivityOf(d)
        BY <2>5 DEF SensitivityOf
      <3> QED BY <2>2, <3>1 DEF Can, Explain, Matching
    <2> QED BY <2>1, <2>4, <2>5
  <1> QED BY <1>3, <1>4 DEF RbacNext

LEMMA RbacInvNext ==
  ASSUME RbacInv, RbacNext
  PROVE  RbacInv'
  <1>1. ASSUME NEW r \in RoleNames \ DOMAIN roles, NEW given \in RoleShapes, AddRole(r, given) PROVE RbacInv'
    BY <1>1 DEF RbacInv, AddRole
  <1>2. ASSUME NEW d \in Things, NEW rank \in Levels4, ClassifyThing(d, rank) PROVE RbacInv'
    BY <1>2, RbacAssumption DEF RbacInv, ClassifyThing, RbacAssumption
  <1> QED BY <1>1, <1>2 DEF RbacNext

LEMMA RbacHolds == GovernanceSpec => []RbacInv
  <1>1. GovernanceInit => RbacInv
    <2>1. RbacInit => RbacInv
      BY RbacAssumption DEF RbacInit, RbacInv, RbacAssumption
    <2>2. roles = << >> /\ holder = {} /\ level = << >> => RbacInv
      BY DEF RbacInv
    <2> QED BY <2>1, <2>2 DEF GovernanceInit
  <1>2. RbacInv /\ UNCHANGED rbacVars => RbacInv'
    BY DEF RbacInv, rbacVars
  <1>3. RbacInv /\ [GovernanceNext]_governanceVars => RbacInv'
    BY <1>2, RbacInvNext DEF GovernanceNext, governanceVars
  <1> QED BY <1>1, <1>3, PTL DEF GovernanceSpec

-----------------------------------------------------------------------------
(***************************************************************************)
(* govern/policy.py, store/sqlite.py set_label                             *)
(***************************************************************************)

LEMMA SetLabelKeeps ==
  ASSUME NEW at, NEW l, tags' = SetLabel(at, l)
  PROVE  LabelDecisionsStand
  BY DEF SetLabel, LabelDecisionsStand

LEMMA LabelDecisionsNext ==
  ASSUME TagsNext
  PROVE  LabelDecisionsStand
  <1>1. ASSUME NEW p \in Labellers, SaveLabel(p) PROVE LabelDecisionsStand
    BY <1>1, SetLabelKeeps DEF SaveLabel
  <1>2. ASSUME NEW k \in DOMAIN tags, ConfirmLabel(k) PROVE LabelDecisionsStand
    BY <1>2, SetLabelKeeps DEF ConfirmLabel
  <1>3. ASSUME tags' = tags PROVE LabelDecisionsStand
    BY <1>3 DEF LabelDecisionsStand
  <1>4. ASSUME NEW p \in Labellers,
               StartLabelling(p) \/ InferOne(p) \/ PropagateSeeds(p) \/ EndLabelling(p) \/ StopLabelling(p)
        PROVE  tags' = tags
    BY <1>4 DEF StartLabelling, InferOne, PropagateSeeds, EndLabelling, StopLabelling
  <1>5. ASSUME NEW d \in DOMAIN Readings, Reprofile(d) PROVE tags' = tags
    BY <1>5 DEF Reprofile
  <1> QED BY <1>1, <1>2, <1>3, <1>4, <1>5 DEF TagsNext

-----------------------------------------------------------------------------
\* What an edge does.

IsLabelling(ls) == ls \in [DOMAIN ls -> [confidence : Nat, confirmed : BOOLEAN]]

LEMMA CarriedIs ==
  ASSUME NEW ls, NEW e, NEW m \in Carried(ls, e)
  PROVE  \E k \in DOMAIN ls : /\ k[1] = e.src
                              /\ \E c \in FedColumns(e, k[2]) : m = [at |-> <<e.dst, c, k[3]>>, label |-> Damped(ls[k])]
  BY DEF Carried

LEMMA IsCarried ==
  ASSUME NEW ls, NEW e, NEW k \in DOMAIN ls, k[1] = e.src, NEW c \in FedColumns(e, k[2])
  PROVE  [at |-> <<e.dst, c, k[3]>>, label |-> Damped(ls[k])] \in Carried(ls, e)
  <1> DEFINE Of(x) == {[at |-> <<e.dst, d, x[3]>>, label |-> Damped(ls[x])] : d \in FedColumns(e, x[2])}
  <1>1. Carried(ls, e) = UNION {Of(x) : x \in {y \in DOMAIN ls : y[1] = e.src}}
    BY DEF Carried
  <1>2. [at |-> <<e.dst, c, k[3]>>, label |-> Damped(ls[k])] \in Of(k)
    OBVIOUS
  <1> HIDE DEF Of
  <1> QED BY <1>1, <1>2

\* What is carried is not confirmed, and a place takes it or keeps what it has.
LEMMA AlongEdgeTakes ==
  ASSUME NEW ls, NEW e, NEW k \in DOMAIN AlongEdge(ls, e)
  PROVE  \/ k \in DOMAIN ls /\ AlongEdge(ls, e)[k] = ls[k]
         \/ \E m \in Strongest(Carried(ls, e)) :
              m.at = k /\ AlongEdge(ls, e)[k] = m.label /\ (k \in DOMAIN ls => Replaces(ls[k], m.label))
  <1> DEFINE taken == {m \in Strongest(Carried(ls, e)) : m.at \in DOMAIN ls => Replaces(ls[m.at], m.label)}
  <1>1. AlongEdge(ls, e) = [x \in DOMAIN ls \cup {m.at : m \in taken} |->
                             IF \E m \in taken : m.at = x THEN (CHOOSE m \in taken : m.at = x).label ELSE ls[x]]
    BY DEF AlongEdge
  <1>2. CASE \E m \in taken : m.at = k
    <2>1. PICK m \in taken : m.at = k /\ m = CHOOSE n \in taken : n.at = k
      <3> HIDE DEF taken
      <3> QED BY <1>2
    <2>2. AlongEdge(ls, e)[k] = m.label
      <3> HIDE DEF taken
      <3> QED BY <1>1, <1>2, <2>1
    <2> QED BY <2>1, <2>2
  <1>3. CASE ~\E m \in taken : m.at = k
    <2> HIDE DEF taken
    <2> QED BY <1>1, <1>3
  <1> QED BY <1>2, <1>3

\* An edge brings label l to place k.
Brings(ls, e, k, l) ==
  /\ l.confirmed = FALSE
  /\ k \in DOMAIN ls => Replaces(ls[k], l)
  /\ \E x \in DOMAIN ls : /\ x[1] = e.src /\ l = Damped(ls[x])
                         /\ \E c \in FedColumns(e, x[2]) : k = <<e.dst, c, x[3]>>

LEMMA AlongEdgeBrings ==
  ASSUME NEW ls, NEW e, NEW k \in DOMAIN AlongEdge(ls, e)
  PROVE  \/ k \in DOMAIN ls /\ AlongEdge(ls, e)[k] = ls[k]
         \/ Brings(ls, e, k, AlongEdge(ls, e)[k])
  <1>1. CASE k \in DOMAIN ls /\ AlongEdge(ls, e)[k] = ls[k]
    BY <1>1
  <1>2. CASE \E m \in Strongest(Carried(ls, e)) :
               m.at = k /\ AlongEdge(ls, e)[k] = m.label /\ (k \in DOMAIN ls => Replaces(ls[k], m.label))
    <2>1. PICK m \in Carried(ls, e) :
            m.at = k /\ AlongEdge(ls, e)[k] = m.label /\ (k \in DOMAIN ls => Replaces(ls[k], m.label))
      BY <1>2 DEF Strongest
    <2>2. PICK x \in DOMAIN ls : /\ x[1] = e.src
                                 /\ \E c \in FedColumns(e, x[2]) : m = [at |-> <<e.dst, c, x[3]>>, label |-> Damped(ls[x])]
      BY CarriedIs
    <2>3. PICK c \in FedColumns(e, x[2]) : m = [at |-> <<e.dst, c, x[3]>>, label |-> Damped(ls[x])]
      BY <2>2
    <2>4. AlongEdge(ls, e)[k] = Damped(ls[x]) /\ k = <<e.dst, c, x[3]>>
      BY <2>1, <2>3
    <2>5. Damped(ls[x]).confirmed = FALSE
      BY DEF Damped
    <2>6. k \in DOMAIN ls => Replaces(ls[k], AlongEdge(ls, e)[k])
      BY <2>1
    <2> QED BY <2>2, <2>4, <2>5, <2>6 DEF Brings
  <1> QED BY <1>1, <1>2, AlongEdgeTakes

LEMMA AlongEdgeKeeps ==
  ASSUME NEW ls, NEW e
  PROVE  DOMAIN ls \subseteq DOMAIN AlongEdge(ls, e)
  BY DEF AlongEdge

LEMMA AlongEdgeLabels ==
  ASSUME NEW ls, NEW e, IsLabelling(ls)
  PROVE  /\ IsLabelling(AlongEdge(ls, e))
         /\ \A m \in Carried(ls, e) : m.label \in [confidence : Nat, confirmed : {FALSE}]
  <1>1. \A m \in Carried(ls, e) : m.label \in [confidence : Nat, confirmed : {FALSE}]
    <2>1. ASSUME NEW m \in Carried(ls, e) PROVE m.label \in [confidence : Nat, confirmed : {FALSE}]
      <3>1. PICK k \in DOMAIN ls : m.label = Damped(ls[k])
        BY CarriedIs
      <3>2. ls[k].confidence \in Nat
        BY DEF IsLabelling
      <3> QED BY <3>1, <3>2 DEF Damped
    <2> QED BY <2>1
  <1>2. \A k \in DOMAIN AlongEdge(ls, e) : AlongEdge(ls, e)[k] \in [confidence : Nat, confirmed : BOOLEAN]
    <2>1. ASSUME NEW k \in DOMAIN AlongEdge(ls, e)
          PROVE  AlongEdge(ls, e)[k] \in [confidence : Nat, confirmed : BOOLEAN]
      <3>1. CASE k \in DOMAIN ls /\ AlongEdge(ls, e)[k] = ls[k]
        BY <3>1 DEF IsLabelling
      <3>2. CASE \E m \in Carried(ls, e) : AlongEdge(ls, e)[k] = m.label
        BY <1>1, <3>2
      <3> QED BY <3>1, <3>2, AlongEdgeTakes DEF Strongest
    <2> QED BY <2>1
  <1>3. AlongEdge(ls, e) = [k \in DOMAIN AlongEdge(ls, e) |-> AlongEdge(ls, e)[k]]
    BY DEF AlongEdge
  <1> QED BY <1>1, <1>2, <1>3 DEF IsLabelling

\* An edge that changes nothing has nothing to bring.
LEMMA StableMeans ==
  ASSUME NEW ls, NEW e, IsLabelling(ls), NEW top \in Nat, \A k \in DOMAIN ls : ls[k].confidence <= top,
         AlongEdge(ls, e) = ls, NEW m \in Carried(ls, e)
  PROVE  m.at \in DOMAIN ls /\ (ls[m.at].confirmed \/ m.label.confidence <= ls[m.at].confidence)
  <1> DEFINE taken == {n \in Strongest(Carried(ls, e)) : n.at \in DOMAIN ls => Replaces(ls[n.at], n.label)}
             rivals == {n \in Carried(ls, e) : n.at = m.at}
             S == {n.label.confidence : n \in rivals}
  <1>1. \A n \in Carried(ls, e) : n.label.confidence \in 0 .. top /\ n.label.confirmed = FALSE
    <2>1. ASSUME NEW n \in Carried(ls, e) PROVE n.label.confidence \in 0 .. top /\ n.label.confirmed = FALSE
      <3>1. PICK k \in DOMAIN ls : n.label = Damped(ls[k])
        BY CarriedIs
      <3>2. ls[k].confidence \in Nat /\ ls[k].confidence <= top
        BY DEF IsLabelling
      <3> QED BY <3>1, <3>2 DEF Damped
    <2> QED BY <2>1
  <1>2. PICK best \in rivals : \A n \in rivals : n.label.confidence <= best.label.confidence
    <2>1. S \in SUBSET (0 .. top) /\ S # {} /\ S \in SUBSET Nat
      BY <1>1
    <2>2. IsFiniteSet(S)
      <3>1. IsFiniteSet(0 .. top)
        BY FS_Interval
      <3> HIDE DEF S
      <3> QED BY <2>1, <3>1, FS_Subset
    <2>3. PICK b \in S : \A n \in S : n <= b
      <3> HIDE DEF S
      <3> QED BY <2>1, <2>2, FiniteHasGreatest
    <2> QED BY <2>3
  <1>3. best \in Strongest(Carried(ls, e)) /\ best.at = m.at /\ m.label.confidence <= best.label.confidence
    BY <1>2 DEF Strongest
  <1>4. best.label.confidence \in Nat /\ best.label.confirmed = FALSE /\ m.label.confidence \in Nat
    BY <1>1, <1>2
  <1>5. m.at \in DOMAIN ls
    <2>1. SUFFICES ASSUME m.at \notin DOMAIN ls PROVE FALSE
      OBVIOUS
    <2>2. best \in taken
      BY <1>3, <2>1
    <2>3. m.at \in DOMAIN AlongEdge(ls, e)
      BY <1>3, <2>2 DEF AlongEdge
    <2> QED BY <2>1, <2>3
  <1>6. ASSUME ~ls[m.at].confirmed, ~(m.label.confidence <= ls[m.at].confidence) PROVE FALSE
    <2>1. ls[m.at].confidence \in Nat
      BY <1>5 DEF IsLabelling
    <2>2. best.label.confidence > ls[m.at].confidence
      BY <1>3, <1>4, <1>6, <2>1
    <2>3. best \in taken
      BY <1>3, <1>6, <2>2 DEF Replaces
    <2>4. ls[m.at] = (CHOOSE n \in taken : n.at = m.at).label
      <3>1. AlongEdge(ls, e)[m.at] = (CHOOSE n \in taken : n.at = m.at).label
        <4>1. AlongEdge(ls, e) = [x \in DOMAIN ls \cup {n.at : n \in taken} |->
                             IF \E n \in taken : n.at = x THEN (CHOOSE n \in taken : n.at = x).label ELSE ls[x]]
          BY DEF AlongEdge
        <4> HIDE DEF taken
        <4> QED BY <1>3, <1>5, <2>3, <4>1
      <3> QED BY <3>1
    <2>5. PICK n \in taken : n.at = m.at /\ n.label = ls[m.at]
      <3> HIDE DEF taken
      <3> QED BY <1>3, <2>3, <2>4
    <2>6. Replaces(ls[m.at], n.label) /\ n.label.confirmed = FALSE
      BY <1>1, <1>5, <2>5 DEF Strongest
    <2> QED BY <2>1, <2>5, <2>6 DEF Replaces
  <1> QED BY <1>5, <1>6

-----------------------------------------------------------------------------
\* What flows at the desk: a graph and the labels to start from.

FlowTyped ==
  /\ flow \in Seq(FlowEdges) /\ \A e \in FlowEdges : IsFiniteSet(e.columns)
  /\ IsLabelling(seeds) /\ IsFiniteSet(DOMAIN seeds) /\ \A k \in DOMAIN seeds : k = <<k[1], k[2], k[3]>>

Start == {[at |-> k, confidence |-> seeds[k].confidence] : k \in DOMAIN seeds}
Top   == Max({0} \cup {seeds[k].confidence : k \in DOMAIN seeds})

LEMMA FlowIs ==
  ASSUME FlowTyped
  PROVE  /\ flow \in Seq(FlowEdges) /\ Len(flow) \in Nat /\ DOMAIN flow = 1 .. Len(flow)
         /\ FlowEdges = {flow[i] : i \in 1 .. Len(flow)}
         /\ IsLabelling(seeds) /\ IsFiniteSet(DOMAIN seeds) /\ \A k \in DOMAIN seeds : k = <<k[1], k[2], k[3]>>
         /\ IsFiniteSet(FlowEdges) /\ \A e \in FlowEdges : IsFiniteSet(e.columns)
  <1>2. Len(flow) \in Nat /\ DOMAIN flow = 1 .. Len(flow) /\ FlowEdges = {flow[i] : i \in 1 .. Len(flow)}
    BY LenProperties DEF FlowTyped, FlowEdges, Range
  <1>3. IsFiniteSet(1 .. Len(flow))
    BY <1>2, FS_Interval
  <1>4. IsFiniteSet(FlowEdges)
    BY <1>2, <1>3, ImageIsFinite
  <1> QED BY <1>2, <1>4 DEF FlowTyped

LEMMA TopIs ==
  ASSUME FlowTyped
  PROVE  Top \in Nat /\ \A k \in DOMAIN seeds : seeds[k].confidence \in 0 .. Top
  <1> DEFINE conf == [k \in DOMAIN seeds |-> seeds[k].confidence]
             S == {0} \cup {conf[k] : k \in DOMAIN seeds}
  <1>1. \A k \in DOMAIN seeds : seeds[k].confidence \in Nat
    BY FlowIs DEF IsLabelling
  <1>2. S \in SUBSET Nat /\ S # {}
    BY <1>1
  <1>3. IsFiniteSet(S)
    <2>1. IsFiniteSet({conf[k] : k \in DOMAIN seeds})
      <3> HIDE DEF conf
      <3>1. DOMAIN seeds = DOMAIN conf
        BY DEF conf
      <3> QED BY <3>1, FlowIs, ImageIsFinite
    <2> HIDE DEF conf
    <2> QED BY <2>1, FS_Singleton, FS_Union
  <1>4. \E m \in S : \A n \in S : n <= m
    <2> HIDE DEF S
    <2> QED BY <1>2, <1>3, FiniteHasGreatest
  <1>5. Max(S) \in S /\ \A n \in S : n <= Max(S)
    <2> HIDE DEF S
    <2>1. \E m \in S : \A n \in S : m >= n
      BY <1>2, <1>4
    <2>2. Max(S) \in S /\ \A n \in S : Max(S) >= n
      BY <2>1 DEF Max
    <2> QED BY <1>2, <2>2
  <1>6. S = {0} \cup {seeds[k].confidence : k \in DOMAIN seeds}
    OBVIOUS
  <1>7. Max(S) = Top
    BY <1>6 DEF Top
  <1>8. \A k \in DOMAIN seeds : seeds[k].confidence \in S
    OBVIOUS
  <1>9. Top \in Nat /\ \A k \in DOMAIN seeds : seeds[k].confidence <= Top
    <2> HIDE DEF S
    <2> QED BY <1>2, <1>5, <1>7, <1>8
  <1> HIDE DEF S
  <1> QED BY <1>1, <1>9

LEMMA PossibleIsFinite ==
  ASSUME FlowTyped
  PROVE  IsFiniteSet(Possible)
  <1> DEFINE K == DOMAIN seeds
             part(n) == [k \in K |-> k[n]]
             ends == [e \in FlowEdges |-> e.dst]
             D == {part(1)[k] : k \in K} \cup {ends[e] : e \in FlowEdges}
             into(e) == [c \in e.columns |-> c[2]]
             InTo == [e \in FlowEdges |-> {into(e)[c] : c \in e.columns}]
             C == {part(2)[k] : k \in K} \cup {Unattributed} \cup UNION {InTo[e] : e \in FlowEdges}
             L == {part(3)[k] : k \in K}
             W == ((D \X C) \X L) \X (0 .. Top)
  <1>1. ASSUME NEW f, NEW S, IsFiniteSet(S), S = DOMAIN f PROVE IsFiniteSet({f[x] : x \in S})
    BY <1>1, ImageIsFinite
  <1>2. \A n : IsFiniteSet({part(n)[k] : k \in K})
    <2>1. SUFFICES ASSUME NEW n PROVE IsFiniteSet({part(n)[k] : k \in K})
      OBVIOUS
    <2>2. K = DOMAIN part(n) /\ IsFiniteSet(K)
      BY FlowIs
    <2> HIDE DEF part, K
    <2> QED BY <1>1, <2>2
  <1>3. IsFiniteSet({ends[e] : e \in FlowEdges})
    <2>1. FlowEdges = DOMAIN ends /\ IsFiniteSet(FlowEdges)
      BY FlowIs
    <2> HIDE DEF ends
    <2> QED BY <1>1, <2>1
  <1>4. IsFiniteSet(UNION {InTo[e] : e \in FlowEdges})
    <2>1. FlowEdges = DOMAIN InTo /\ IsFiniteSet(FlowEdges)
      BY FlowIs
    <2>2. ASSUME NEW e \in FlowEdges PROVE IsFiniteSet(InTo[e])
      <3>1. e.columns = DOMAIN into(e) /\ IsFiniteSet(e.columns)
        BY FlowIs
      <3>2. IsFiniteSet({into(e)[c] : c \in e.columns})
        <4> HIDE DEF into
        <4> QED BY <1>1, <3>1
      <3> QED BY <3>2
    <2> HIDE DEF InTo
    <2>3. IsFiniteSet({InTo[e] : e \in FlowEdges})
      BY <1>1, <2>1
    <2> QED BY <2>2, <2>3, FS_UNION
  <1>5. IsFiniteSet(D) /\ IsFiniteSet(L)
    <2> HIDE DEF part, K, ends
    <2> QED BY <1>2, <1>3, FS_Union
  <1>6. IsFiniteSet(C)
    <2>1. IsFiniteSet({Unattributed}) /\ IsFiniteSet({part(2)[k] : k \in K})
      <3> HIDE DEF part, K
      <3>1. IsFiniteSet({part(2)[k] : k \in K})
        BY <1>2
      <3> QED BY <3>1, FS_Singleton
    <2> HIDE DEF part, K, InTo
    <2> QED BY <1>4, <2>1, FS_Union
  <1>7. IsFiniteSet(W)
    <2>1. IsFiniteSet(0 .. Top)
      BY TopIs, FS_Interval
    <2> HIDE DEF D, C, L
    <2>2. IsFiniteSet(D \X C)
      BY <1>5, <1>6, FS_Product
    <2>3. IsFiniteSet((D \X C) \X L)
      BY <1>5, <2>2, FS_Product
    <2> QED BY <2>1, <2>3, FS_Product
  <1>8. Sites = D \X C \X L
    <2>1. D = {k[1] : k \in DOMAIN seeds} \cup {e.dst : e \in FlowEdges}
      OBVIOUS
    <2>2. C = {k[2] : k \in DOMAIN seeds} \cup {Unattributed} \cup UNION {{c[2] : c \in e.columns} : e \in FlowEdges}
      <3>1. \A e \in FlowEdges : InTo[e] = {c[2] : c \in e.columns}
        OBVIOUS
      <3>2. {InTo[e] : e \in FlowEdges} = {{c[2] : c \in e.columns} : e \in FlowEdges}
        <4> HIDE DEF InTo
        <4> QED BY <3>1
      <3>3. {part(2)[k] : k \in K} = {k[2] : k \in DOMAIN seeds}
        OBVIOUS
      <3> HIDE DEF InTo, part
      <3> QED BY <3>2, <3>3
    <2>3. L = {k[3] : k \in DOMAIN seeds}
      OBVIOUS
    <2> HIDE DEF D, C, L
    <2> QED BY <2>1, <2>2, <2>3 DEF Sites
  <1> HIDE DEF D, C, L
  <1>9. Possible = [at : Sites, confidence : 0 .. Top]
    BY DEF Possible, Top
  <1> DEFINE f == [w \in W |-> [at |-> <<w[1][1][1], w[1][1][2], w[1][2]>>, confidence |-> w[2]]]
  <1>10. f \in Surjection(W, Possible)
    <2>1. \A w \in W : f[w] \in Possible
      BY <1>8, <1>9
    <2>2. ASSUME NEW a \in Possible PROVE \E w \in W : f[w] = a
      <3>1. PICK d \in D, c \in C, l \in L, n \in 0 .. Top : a = [at |-> <<d, c, l>>, confidence |-> n]
        BY <1>8, <1>9
      <3>2. <<<<<<d, c>>, l>>, n>> \in W
        OBVIOUS
      <3> QED BY <3>1, <3>2
    <2> QED BY <2>1, <2>2 DEF Surjection
  <1> QED BY <1>7, <1>10, FS_Surjection

LEMMA OnwardIsPossible ==
  ASSUME FlowTyped, NEW a \in Possible, NEW e \in FlowEdges
  PROVE  Onward(a, e) \subseteq Possible
  <1>1. Possible = [at : Sites, confidence : 0 .. Top] /\ Top \in Nat
    BY TopIs DEF Possible, Top
  <1>2. ASSUME NEW c \in FedColumns(e, a.at[2]), a.at[1] = e.src
        PROVE  [at |-> <<e.dst, c, a.at[3]>>, confidence |-> Damped(a).confidence] \in Possible
    <2>1. a.at \in Sites /\ a.confidence \in 0 .. Top
      BY <1>1
    <2>2. Damped(a).confidence \in 0 .. Top
      BY <1>1, <2>1 DEF Damped
    <2>3. c = Unattributed \/ c \in {x[2] : x \in e.columns}
      BY <1>2 DEF FedColumns
    <2>4. <<e.dst, c, a.at[3]>> \in Sites
      BY <2>1, <2>3 DEF Sites
    <2> QED BY <1>1, <2>2, <2>4
  <1> QED BY <1>2 DEF Onward

\* The reference has the seeds, goes on along every edge, and is the least that does.
LEMMA ArrivalsAre ==
  ASSUME FlowTyped
  PROVE  /\ Arrivals \subseteq Possible /\ Start \subseteq Arrivals
         /\ \A a \in Arrivals, e \in FlowEdges : Onward(a, e) \subseteq Arrivals
         /\ \A C \in SUBSET Possible :
              Start \subseteq C /\ (\A a \in C, e \in FlowEdges : Onward(a, e) \subseteq C) => Arrivals \subseteq C
  <1> DEFINE beyond(S) == UNION {UNION {Onward(a, e) : e \in FlowEdges} : a \in S}
             step == [S \in SUBSET Possible |-> S \cup UNION {UNION {Onward(a, e) : e \in FlowEdges} : a \in S}]
             N == Cardinality(Possible)
             reach[n \in 0 .. Cardinality(Possible)] ==
               IF n = 0 THEN {[at |-> k, confidence |-> seeds[k].confidence] : k \in DOMAIN seeds}
               ELSE step[reach[n - 1]]
  <1>1. Possible = [at : Sites, confidence : 0 .. Top] /\ Top \in Nat
    BY TopIs DEF Possible, Top
  <1>2. Start \in SUBSET Possible
    <2>1. ASSUME NEW k \in DOMAIN seeds PROVE k \in Sites /\ seeds[k].confidence \in 0 .. Top
      <3>1. k = <<k[1], k[2], k[3]>> /\ seeds[k].confidence \in 0 .. Top
        BY FlowIs, TopIs
      <3> QED BY <3>1 DEF Sites
    <2> QED BY <1>1, <2>1 DEF Start
  <1>3. \A a \in Possible, e \in FlowEdges : Onward(a, e) \subseteq Possible
    BY OnwardIsPossible
  <1>4. \A S \in SUBSET Possible : step[S] = S \cup beyond(S) /\ step[S] \in SUBSET Possible
    BY <1>3
  <1>5. HasSize(Possible, N) /\ Start \in SUBSET Possible /\ IsWidening(step, Possible)
    <2>1. step \in [SUBSET Possible -> SUBSET Possible] /\ \A S \in SUBSET Possible : S \subseteq step[S]
      <3>1. step = [S \in SUBSET Possible |-> step[S]]
        OBVIOUS
      <3> HIDE DEF step, beyond
      <3> QED BY <1>4, <3>1
    <2> HIDE DEF step
    <2> QED BY <1>2, <2>1, PossibleIsFinite DEF HasSize, IsWidening
  <1>6. IsIteration(reach, N, Start, step)
    BY DEF IsIteration, Start
  <1>7. Arrivals = reach[N]
    BY DEF Arrivals
  <1> HIDE DEF N, step, reach
  <1>8. /\ reach[N] \in SUBSET Possible /\ Start \subseteq reach[N] /\ step[reach[N]] = reach[N]
        /\ \A C \in SUBSET Possible :
             Start \subseteq C /\ (\A S \in SUBSET C : step[S] \subseteq C) => reach[N] \subseteq C
    BY <1>5, <1>6, RoundsClose
  <1>9. beyond(Arrivals) \subseteq Arrivals
    <2> HIDE DEF beyond
    <2> QED BY <1>4, <1>7, <1>8
  <1>10. \A a \in Arrivals, e \in FlowEdges : Onward(a, e) \subseteq Arrivals
    BY <1>9
  <1>11. ASSUME NEW C \in SUBSET Possible, Start \subseteq C,
                \A a \in C, e \in FlowEdges : Onward(a, e) \subseteq C
         PROVE  Arrivals \subseteq C
    <2>1. ASSUME NEW S \in SUBSET C PROVE step[S] \subseteq C
      <3>1. beyond(S) \subseteq C
        BY <1>11
      <3>2. step[S] = S \cup beyond(S)
        <4> HIDE DEF beyond
        <4> QED BY <1>4
      <3> HIDE DEF beyond
      <3> QED BY <3>1, <3>2
    <2> QED BY <1>7, <1>8, <1>11, <2>1
  <1> QED BY <1>7, <1>8, <1>10, <1>11

-----------------------------------------------------------------------------
\* The desk's invariant: what a place carries arrived there, nothing a seed says is lost,
\* and in a round that has changed nothing so far the edges walked have nothing to bring.

Walked ==
  \E i \in 0 .. Len(flow) :
    /\ pending \in Seq(FlowEdges) /\ Len(pending) = Len(flow) - i
    /\ \A j \in 1 .. Len(pending) : pending[j] = flow[i + j]
    /\ ~changed => \A j \in 1 .. i : AlongEdge(labels, flow[j]) = labels
SeedsKept ==
  /\ \A k \in DOMAIN seeds : /\ k \in DOMAIN labels
                             /\ seeds[k].confidence <= labels[k].confidence
                             /\ seeds[k].confirmed => labels[k] = seeds[k]
  /\ \A k \in DOMAIN labels : labels[k].confirmed => k \in DOMAIN seeds /\ seeds[k].confirmed
HasArrived == \A k \in DOMAIN labels : [at |-> k, confidence |-> labels[k].confidence] \in Arrivals
FlowInv == FlowTyped /\ IsLabelling(labels) /\ HasArrived /\ SeedsKept /\ Walked

LEMMA FlowInvInit ==
  ASSUME LabelsInit \/ (flow = << >> /\ labels = << >> /\ pending = << >> /\ seeds = << >>)
  PROVE  FlowInv
  <1>1. FlowTyped
    <2>1. CASE LabelsInit
      BY <2>1, LabelsAssumption DEF LabelsInit, LabelsAssumption, FlowTyped, FlowEdges, IsLabelling
    <2>2. CASE flow = << >> /\ seeds = << >>
      <3>1. DOMAIN flow = {} /\ DOMAIN seeds = {} /\ FlowEdges = {}
        BY <2>2 DEF FlowEdges, Range
      <3>2. flow \in Seq(FlowEdges)
        BY <2>2, EmptySeq
      <3>3. IsLabelling(seeds)
        BY <2>2 DEF IsLabelling
      <3> QED BY <3>1, <3>2, <3>3, FS_EmptySet DEF FlowTyped
    <2> QED BY <2>1, <2>2
  <1>2. labels = seeds /\ IsLabelling(labels) /\ SeedsKept
    BY <1>1, FlowIs DEF LabelsInit, IsLabelling, SeedsKept
  <1>3. HasArrived
    BY <1>1, <1>2, ArrivalsAre DEF HasArrived, Start
  <1>4. Walked
    <2>1. 0 \in 0 .. Len(flow) /\ pending = flow /\ flow \in Seq(FlowEdges) /\ Len(flow) \in Nat
      BY <1>1, FlowIs DEF LabelsInit
    <2> QED BY <2>1 DEF Walked
  <1> QED BY <1>1, <1>2, <1>3, <1>4 DEF FlowInv

LEMMA ArrivalsStay ==
  ASSUME UNCHANGED <<flow, seeds>>
  PROVE  Arrivals' = Arrivals /\ FlowEdges' = FlowEdges
  BY DEF Arrivals, Possible, Sites, FlowEdges

LEMMA CarryEdgeKeeps ==
  ASSUME FlowInv, CarryEdge
  PROVE  FlowInv'
  <1>1. /\ FlowTyped /\ IsLabelling(labels) /\ HasArrived /\ SeedsKept
        /\ pending # << >> /\ labels' = AlongEdge(labels, Head(pending))
        /\ changed' = (changed \/ labels' # labels) /\ pending' = Tail(pending)
        /\ UNCHANGED <<flow, seeds>> /\ Arrivals' = Arrivals /\ FlowEdges' = FlowEdges
    BY ArrivalsStay DEF FlowInv, CarryEdge
  <1>2. PICK i \in 0 .. Len(flow) :
          /\ pending \in Seq(FlowEdges) /\ Len(pending) = Len(flow) - i
          /\ \A j \in 1 .. Len(pending) : pending[j] = flow[i + j]
          /\ ~changed => \A j \in 1 .. i : AlongEdge(labels, flow[j]) = labels
    BY DEF FlowInv, Walked
  <1>3. /\ Len(flow) \in Nat /\ Tail(pending) \in Seq(FlowEdges) /\ Len(Tail(pending)) = Len(pending) - 1
        /\ \A j \in 1 .. Len(Tail(pending)) : Tail(pending)[j] = pending[j + 1]
        /\ Len(pending) \in Nat \ {0} /\ Head(pending) = pending[1] /\ Head(pending) \in FlowEdges
    <2>1. Len(flow) \in Nat /\ Len(pending) \in Nat
      BY <1>1, <1>2, FlowIs
    <2>2. /\ Tail(pending) \in Seq(FlowEdges) /\ Len(Tail(pending)) = Len(pending) - 1 /\ Head(pending) \in FlowEdges
          /\ \A j \in 1 .. Len(Tail(pending)) : Tail(pending)[j] = pending[j + 1]
      BY <1>1, <1>2, HeadTailProperties
    <2>3. Len(pending) # 0
      BY <1>1, <1>2, EmptySeq
    <2>4. Head(pending) = pending[1]
      BY <1>1, <1>2
    <2> QED BY <2>1, <2>2, <2>3, <2>4
  <1>4. PICK e \in FlowEdges : e = Head(pending) /\ e = flow[i + 1]
    BY <1>2, <1>3
  <1>5. Walked'
    <2>1. i + 1 \in 0 .. Len(flow) /\ Len(Tail(pending)) = Len(flow) - (i + 1)
      BY <1>2, <1>3
    <2>2. \A j \in 1 .. Len(Tail(pending)) : Tail(pending)[j] = flow[(i + 1) + j]
      BY <1>2, <1>3
    <2>3. ASSUME ~changed', NEW j \in 1 .. i + 1 PROVE AlongEdge(labels', flow[j]) = labels'
      <3>1. labels' = labels /\ ~changed
        BY <1>1, <2>3
      <3>2. CASE j = i + 1
        BY <1>1, <1>4, <3>1, <3>2
      <3>3. CASE j # i + 1
        <4>1. j \in 1 .. i
          BY <3>3
        <4> QED BY <1>2, <3>1, <4>1
      <3> QED BY <3>2, <3>3
    <2> QED BY <1>1, <1>3, <2>1, <2>2, <2>3 DEF Walked
  <1>6. labels' = AlongEdge(labels, e)
    BY <1>1, <1>4
  <1>7. IsLabelling(labels')
    BY <1>1, <1>6, AlongEdgeLabels
  <1>8. ASSUME NEW k \in DOMAIN labels'
        PROVE  (k \in DOMAIN labels /\ labels'[k] = labels[k]) \/ Brings(labels, e, k, labels'[k])
    BY <1>6, <1>8, AlongEdgeBrings
  <1>9. ASSUME NEW k \in DOMAIN labels' PROVE [at |-> k, confidence |-> labels'[k].confidence] \in Arrivals
    <2>1. CASE k \in DOMAIN labels /\ labels'[k] = labels[k]
      BY <1>1, <2>1 DEF HasArrived
    <2>2. CASE Brings(labels, e, k, labels'[k])
      <3>1. PICK x \in DOMAIN labels : /\ x[1] = e.src /\ labels'[k] = Damped(labels[x])
                                       /\ \E c \in FedColumns(e, x[2]) : k = <<e.dst, c, x[3]>>
        BY <2>2 DEF Brings
      <3> DEFINE a == [at |-> x, confidence |-> labels[x].confidence]
      <3>2. a \in Arrivals
        BY <1>1 DEF HasArrived
      <3>3. Damped(a).confidence = labels'[k].confidence
        BY <3>1 DEF Damped
      <3>4. [at |-> k, confidence |-> Damped(a).confidence] \in Onward(a, e)
        BY <3>1 DEF Onward
      <3> HIDE DEF a
      <3> QED BY <1>1, <3>2, <3>3, <3>4, ArrivalsAre
    <2> QED BY <1>8, <1>9, <2>1, <2>2
  <1>10. DOMAIN labels \subseteq DOMAIN labels'
    BY <1>6, AlongEdgeKeeps
  <1>11. ASSUME NEW k \in DOMAIN seeds
         PROVE  k \in DOMAIN labels' /\ seeds[k].confidence <= labels'[k].confidence /\ (seeds[k].confirmed => labels'[k] = seeds[k])
    <2>1. k \in DOMAIN labels /\ k \in DOMAIN labels' /\ seeds[k].confidence <= labels[k].confidence
          /\ (seeds[k].confirmed => labels[k] = seeds[k])
      BY <1>1, <1>10 DEF SeedsKept
    <2>2. CASE labels'[k] = labels[k]
      BY <2>1, <2>2
    <2>3. CASE Brings(labels, e, k, labels'[k])
      <3>1. /\ seeds[k].confidence \in Nat /\ labels[k].confidence \in Nat /\ labels'[k].confidence \in Nat
        BY <1>1, <1>7, <2>1, FlowIs DEF IsLabelling
      <3>2. ~labels[k].confirmed /\ labels'[k].confidence > labels[k].confidence
        BY <2>1, <2>3 DEF Brings, Replaces
      <3> QED BY <2>1, <3>1, <3>2
    <2> QED BY <1>8, <2>1, <2>2, <2>3
  <1>12. ASSUME NEW k \in DOMAIN labels', labels'[k].confirmed PROVE k \in DOMAIN seeds /\ seeds[k].confirmed
    BY <1>1, <1>8, <1>12 DEF SeedsKept, Brings
  <1>13. HasArrived' /\ SeedsKept'
    BY <1>1, <1>9, <1>11, <1>12 DEF HasArrived, SeedsKept
  <1>14. FlowTyped'
    BY <1>1 DEF FlowTyped
  <1> QED BY <1>5, <1>7, <1>13, <1>14 DEF FlowInv

LEMMA NextRoundKeeps ==
  ASSUME FlowInv, NextRound
  PROVE  FlowInv'
  <1>1. /\ pending' = flow /\ UNCHANGED <<flow, labels, seeds>>
        /\ Arrivals' = Arrivals /\ FlowEdges' = FlowEdges
    BY ArrivalsStay DEF NextRound
  <1>2. flow \in Seq(FlowEdges) /\ Len(flow) \in Nat
    BY FlowIs DEF FlowInv
  <1>3. Walked'
    <2>1. 0 \in 0 .. Len(flow) /\ Len(flow) = Len(flow) - 0
      BY <1>2
    <2>2. \A j \in 1 .. Len(flow) : flow[j] = flow[0 + j]
      BY <1>2
    <2>3. \A j \in 1 .. 0 : AlongEdge(labels', flow[j]) = labels'
      OBVIOUS
    <2> QED BY <1>1, <1>2, <2>1, <2>2, <2>3 DEF Walked
  <1>4. FlowTyped' /\ IsLabelling(labels)' /\ HasArrived' /\ SeedsKept'
    BY <1>1 DEF FlowInv, FlowTyped, IsLabelling, HasArrived, SeedsKept
  <1> QED BY <1>3, <1>4 DEF FlowInv

LEMMA FlowInvNext ==
  ASSUME FlowInv, [LabelsNext]_labelVars
  PROVE  FlowInv'
  <1>1. CASE UNCHANGED labelVars
    BY <1>1, ArrivalsStay DEF FlowInv, labelVars, FlowTyped, IsLabelling, HasArrived, SeedsKept, Walked
  <1> QED BY <1>1, CarryEdgeKeeps, NextRoundKeeps DEF LabelsNext

\* A round that changed nothing leaves every edge with nothing to bring, so the labels are
\* closed under the ways of the reference.
LEMMA ArrivalsFromInv == FlowInv => ArrivalsAreLabelled
  <1> SUFFICES ASSUME FlowInv, Propagated, ~changed
               PROVE  /\ \A a \in Arrivals : a.at \in DOMAIN labels
                      /\ (\A k \in DOMAIN seeds : ~seeds[k].confirmed) =>
                           \A k \in DOMAIN labels :
                             /\ labels[k].confidence = Max({a.confidence : a \in {b \in Arrivals : b.at = k}})
                             /\ (\E a \in Arrivals : a.at = k /\ a.confidence > 0) <=> k \in Forbidden(labels, k[1], {k[3]})
                      /\ \A k \in DOMAIN seeds : seeds[k].confirmed => labels[k] = seeds[k]
    BY DEF ArrivalsAreLabelled
  <1>1. FlowTyped /\ IsLabelling(labels) /\ HasArrived /\ SeedsKept
    BY DEF FlowInv
  <1>2. \A e \in FlowEdges : AlongEdge(labels, e) = labels
    <2>1. PICK i \in 0 .. Len(flow) : Len(pending) = Len(flow) - i /\ \A j \in 1 .. i : AlongEdge(labels, flow[j]) = labels
      BY DEF FlowInv, Walked
    <2>2. Len(pending) = 0 /\ Len(flow) \in Nat /\ FlowEdges = {flow[j] : j \in 1 .. Len(flow)}
      BY <1>1, FlowIs DEF Propagated
    <2>3. i = Len(flow)
      BY <2>1, <2>2
    <2> QED BY <2>1, <2>2, <2>3
  <1>3. Top \in Nat /\ Possible = [at : Sites, confidence : 0 .. Top] /\ Arrivals \subseteq Possible
    BY <1>1, TopIs, ArrivalsAre DEF Possible, Top
  <1>4. \A k \in DOMAIN labels : labels[k].confidence \in 0 .. Top
    BY <1>1, <1>3 DEF HasArrived
  \* What goes on from a labelled place finds the next one labelled.
  <1>5. ASSUME NEW a \in Possible, NEW e \in FlowEdges, NEW o \in Onward(a, e), a.at \in DOMAIN labels
        PROVE  /\ o.at \in DOMAIN labels /\ o.confidence = Damped(a).confidence
               /\ labels[o.at].confirmed \/ Damped(labels[a.at]).confidence <= labels[o.at].confidence
    <2>1. a.at[1] = e.src
      BY <1>5 DEF Onward
    <2>2. PICK c \in FedColumns(e, a.at[2]) : o = [at |-> <<e.dst, c, a.at[3]>>, confidence |-> Damped(a).confidence]
      BY <1>5, <2>1 DEF Onward
    <2> DEFINE m == [at |-> <<e.dst, c, a.at[3]>>, label |-> Damped(labels[a.at])]
    <2>3. m \in Carried(labels, e)
      BY <1>5, <2>1, IsCarried
    <2>4. m.at = o.at /\ m.label = Damped(labels[a.at])
      BY <2>2
    <2>5. \A k \in DOMAIN labels : labels[k].confidence <= Top
      BY <1>3, <1>4
    <2>6. m.at \in DOMAIN labels /\ (labels[m.at].confirmed \/ m.label.confidence <= labels[m.at].confidence)
      <3> HIDE DEF m
      <3> QED BY <1>1, <1>2, <1>3, <2>3, <2>5, StableMeans
    <2> HIDE DEF m
    <2> QED BY <2>2, <2>4, <2>6
  <1>6. \A a \in Arrivals : a.at \in DOMAIN labels
    <2> DEFINE C == {a \in Possible : a.at \in DOMAIN labels}
    <2>1. Start \subseteq C
      BY <1>1, <1>3, ArrivalsAre DEF SeedsKept, Start
    <2>2. ASSUME NEW a \in C, NEW e \in FlowEdges PROVE Onward(a, e) \subseteq C
      <3>1. Onward(a, e) \subseteq Possible
        BY <1>1, OnwardIsPossible
      <3> QED BY <1>5, <3>1
    <2>3. Arrivals \subseteq C
      <3>1. C \in SUBSET Possible
        OBVIOUS
      <3> HIDE DEF C
      <3> QED BY <1>1, <2>1, <2>2, <3>1, ArrivalsAre
    <2> QED BY <2>3
  <1>7. ASSUME \A k \in DOMAIN seeds : ~seeds[k].confirmed, NEW k \in DOMAIN labels
        PROVE  /\ labels[k].confidence = Max({a.confidence : a \in {b \in Arrivals : b.at = k}})
               /\ (\E a \in Arrivals : a.at = k /\ a.confidence > 0) <=> k \in Forbidden(labels, k[1], {k[3]})
    <2>1. \A x \in DOMAIN labels : ~labels[x].confirmed
      BY <1>1, <1>7 DEF SeedsKept
    <2> DEFINE C == {a \in Possible : a.at \in DOMAIN labels /\ a.confidence <= labels[a.at].confidence}
    <2>2. Start \subseteq C
      <3>1. ASSUME NEW x \in DOMAIN seeds
            PROVE  [at |-> x, confidence |-> seeds[x].confidence] \in C
        <4>1. [at |-> x, confidence |-> seeds[x].confidence] \in Possible
          BY <1>1, <1>3, ArrivalsAre DEF Start
        <4>2. x \in DOMAIN labels /\ seeds[x].confidence <= labels[x].confidence
          BY <1>1 DEF SeedsKept
        <4> QED BY <4>1, <4>2
      <3> QED BY <3>1 DEF Start
    <2>3. ASSUME NEW a \in C, NEW e \in FlowEdges PROVE Onward(a, e) \subseteq C
      <3>1. Onward(a, e) \subseteq Possible
        BY <1>1, OnwardIsPossible
      <3>2. ASSUME NEW o \in Onward(a, e) PROVE o \in C
        <4>1. o.at \in DOMAIN labels /\ o.confidence = Damped(a).confidence
              /\ Damped(labels[a.at]).confidence <= labels[o.at].confidence
          BY <1>5, <2>1, <3>2
        <4>2. a.confidence \in Nat /\ labels[a.at].confidence \in Nat /\ labels[o.at].confidence \in Nat
              /\ a.confidence <= labels[a.at].confidence
          BY <1>3, <1>4, <4>1
        <4>3. Damped(a).confidence <= Damped(labels[a.at]).confidence
          BY <4>2 DEF Damped
        <4>4. Damped(a).confidence \in Nat /\ Damped(labels[a.at]).confidence \in Nat
          BY <4>2 DEF Damped
        <4>5. o.confidence <= labels[o.at].confidence
          BY <4>1, <4>2, <4>3, <4>4
        <4> QED BY <3>1, <3>2, <4>1, <4>5
      <3> QED BY <3>2
    <2>4. \A a \in Arrivals : a.confidence <= labels[a.at].confidence
      <3>1. C \in SUBSET Possible
        OBVIOUS
      <3>2. Arrivals \subseteq C
        <4> HIDE DEF C
        <4> QED BY <1>1, <2>2, <2>3, <3>1, ArrivalsAre
      <3> QED BY <3>2
    <2> DEFINE S == {a.confidence : a \in {b \in Arrivals : b.at = k}}
    <2>5. labels[k].confidence \in S /\ labels[k].confidence \in Nat
      <3>1. [at |-> k, confidence |-> labels[k].confidence] \in Arrivals
        BY <1>1 DEF HasArrived
      <3> QED BY <1>3, <1>4, <3>1
    <2>6. \A n \in S : n \in Nat /\ n <= labels[k].confidence
      BY <1>3, <2>4
    <2>7. labels[k].confidence = Max(S)
      <3> HIDE DEF S
      <3>1. Max(S) \in S /\ \A n \in S : Max(S) >= n
        <4>1. \A n \in S : labels[k].confidence >= n
          BY <2>5, <2>6
        <4> QED BY <2>5, <4>1 DEF Max
      <3> QED BY <2>5, <2>6, <3>1
    <2>8. (\E a \in Arrivals : a.at = k /\ a.confidence > 0) <=> labels[k].confidence > 0
      <3>1. (\E a \in Arrivals : a.at = k /\ a.confidence > 0) <=> \E n \in S : n > 0
        OBVIOUS
      <3> HIDE DEF S
      <3> QED BY <2>5, <2>6, <3>1
    <2>9. k \in Forbidden(labels, k[1], {k[3]}) <=> labels[k].confidence > 0
      BY <1>7, <2>1 DEF Forbidden, Counts
    <2> HIDE DEF C, S
    <2>10. S = {a.confidence : a \in {b \in Arrivals : b.at = k}}
      BY DEF S
    <2> QED BY <2>7, <2>8, <2>9, <2>10
  <1>8. \A k \in DOMAIN seeds : seeds[k].confirmed => labels[k] = seeds[k]
    BY <1>1 DEF SeedsKept
  <1> QED BY <1>6, <1>7, <1>8

-----------------------------------------------------------------------------
\* fathom label over the store.

Unconfirmed(ls) == \A k \in DOMAIN ls : ls[k].confirmed = FALSE

\* What the profiles say of ds, together.
SeedsIn(now, ds) ==
  [k \in UNION {DOMAIN Infer(d, now[d]) : d \in ds \cap DOMAIN now} |-> Infer(k[1], now[k[1]])[k]]
Wanted == Propagate(LabelGraph, SeedsIn(reading, DOMAIN Readings))

Inferred(d, ls) ==
  ls = [k \in DOMAIN ls |-> ls[k]] /\ \A k \in DOMAIN ls : k[1] = d /\ ls[k].confirmed = FALSE

LEMMA InferIs ==
  ASSUME NEW d, NEW profile
  PROVE  Inferred(d, Infer(d, profile))
  <1> DEFINE of(col) == Found(profile[col]) \cup Implied(Found(profile[col]))
             at == UNION {{<<d, col, t.name>> : t \in of(col)} : col \in DOMAIN profile}
  <1>1. Infer(d, profile) = [k \in at |-> [confidence |-> (CHOOSE t \in of(k[2]) : t.name = k[3]).confidence,
                                           confirmed |-> FALSE]]
    BY DEF Infer
  <1>2. \A k \in at : k[1] = d
    <2> HIDE DEF of
    <2> QED OBVIOUS
  <1> HIDE DEF at, of
  <1> QED BY <1>1, <1>2 DEF Inferred

LEMMA AlongEdgeUnconfirmed ==
  ASSUME NEW ls, NEW e, Unconfirmed(ls)
  PROVE  Unconfirmed(AlongEdge(ls, e))
  <1>1. ASSUME NEW k \in DOMAIN AlongEdge(ls, e) PROVE AlongEdge(ls, e)[k].confirmed = FALSE
    <2>1. CASE k \in DOMAIN ls /\ AlongEdge(ls, e)[k] = ls[k]
      BY <2>1 DEF Unconfirmed
    <2>2. CASE Brings(ls, e, k, AlongEdge(ls, e)[k])
      BY <2>2 DEF Brings
    <2> QED BY <2>1, <2>2, AlongEdgeBrings
  <1> QED BY <1>1 DEF Unconfirmed

LEMMA PropagateUnconfirmed ==
  ASSUME NEW ls, Unconfirmed(ls)
  PROVE  Unconfirmed(Propagate(LabelGraph, ls))
  <1> DEFINE N == MaxRounds * Len(LabelGraph)
             edge(n) == LabelGraph[((n - 1) % Len(LabelGraph)) + 1]
             Good(g, k) == g = [n \in 0 .. k |-> IF n = 0 THEN ls ELSE AlongEdge(g[n - 1], edge(n))]
             after[n \in 0 .. MaxRounds * Len(LabelGraph)] ==
               IF n = 0 THEN ls
               ELSE AlongEdge(after[n - 1], LabelGraph[((n - 1) % Len(LabelGraph)) + 1])
             P == {k \in 0 .. N : \E g : Good(g, k)}
  <1>1. N \in Nat
    <2>1. MaxRounds \in Nat /\ Len(LabelGraph) \in Nat
      BY LabelsAssumption, LenProperties DEF LabelsAssumption
    <2> QED BY <2>1
  <1>2. Propagate(LabelGraph, ls) = after[N]
    BY DEF Propagate
  <1>3. after = CHOOSE g : Good(g, N)
    OBVIOUS
  <1> HIDE DEF N, after, edge
  <1>4. 0 \in P
    <2>1. Good([n \in 0 .. 0 |-> ls], 0)
      OBVIOUS
    <2>2. 0 \in 0 .. N
      BY <1>1
    <2> HIDE DEF Good
    <2> QED BY <2>1, <2>2
  <1>5. ASSUME NEW k \in 0 .. N, k + 1 \in 0 .. N, k \in P
        PROVE  k + 1 \in P
    <2>1. PICK g : Good(g, k)
      BY <1>5
    <2> DEFINE h == [n \in 0 .. k + 1 |-> IF n = k + 1 THEN AlongEdge(g[k], edge(k + 1)) ELSE g[n]]
               next == [n \in 0 .. k + 1 |-> IF n = 0 THEN ls ELSE AlongEdge(h[n - 1], edge(n))]
    <2>2. ASSUME NEW n \in 0 .. k + 1 PROVE h[n] = next[n]
      <3>1. CASE n = k + 1
        <4>1. n # 0 /\ n - 1 = k /\ k \in 0 .. k + 1 /\ k # k + 1
          BY <3>1
        <4> QED BY <3>1, <4>1
      <3>2. CASE n # k + 1 /\ n # 0
        <4>1. n \in 0 .. k /\ n - 1 \in 0 .. k + 1 /\ n - 1 # k + 1
          BY <3>2
        <4>2. h[n] = g[n] /\ h[n - 1] = g[n - 1] /\ g[n] = AlongEdge(g[n - 1], edge(n))
          BY <2>1, <3>2, <4>1
        <4> QED BY <3>2, <4>2
      <3>3. CASE n = 0
        <4>1. 0 \in 0 .. k /\ 0 # k + 1
          OBVIOUS
        <4>2. g[0] = ls
          BY <2>1, <4>1
        <4> QED BY <3>3, <4>1, <4>2
      <3> QED BY <3>1, <3>2, <3>3
    <2>3. h = next
      <3>1. h = [n \in 0 .. k + 1 |-> h[n]] /\ next = [n \in 0 .. k + 1 |-> next[n]]
        OBVIOUS
      <3> HIDE DEF h, next
      <3> QED BY <2>2, <3>1
    <2>4. Good(h, k + 1)
      <3>1. Good(h, k + 1) <=> h = next
        OBVIOUS
      <3> QED BY <2>3, <3>1
    <2> HIDE DEF Good, h
    <2> QED BY <1>5, <2>4
  <1>6. N \in P
    <2>1. N \in 0 .. N
      BY <1>1
    <2> HIDE DEF P
    <2> QED BY <1>1, <1>4, <1>5, <2>1, UpTo
  <1>7. Good(after, N)
    <2> HIDE DEF Good
    <2> QED BY <1>3, <1>6
  <1> DEFINE Q == {n \in 0 .. N : Unconfirmed(after[n])}
  <1>8. 0 \in Q
    BY <1>1, <1>7
  <1>9. ASSUME NEW n \in 0 .. N, n + 1 \in 0 .. N, n \in Q
        PROVE  n + 1 \in Q
    <2>1. after[n + 1] = AlongEdge(after[n], edge(n + 1))
      <3>1. n + 1 # 0 /\ (n + 1) - 1 = n
        OBVIOUS
      <3> QED BY <1>7, <1>9, <3>1
    <2> QED BY <1>9, <2>1, AlongEdgeUnconfirmed
  <1>10. N \in Q
    <2>1. N \in 0 .. N
      BY <1>1
    <2> HIDE DEF Q
    <2> QED BY <1>1, <1>8, <1>9, <2>1, UpTo
  <1> QED BY <1>2, <1>10

\* A run's record, and what it owes the store while nobody else writes.
RunTyped(p) ==
  LET r == labelling[p]
  IN  /\ r = [pc |-> r.pc, unread |-> r.unread, seeds |-> r.seeds, left |-> r.left]
      /\ r.pc \in {"idle", "infer", "save"} /\ r.unread \subseteq DOMAIN Readings
      /\ Unconfirmed(r.seeds) /\ r.left \subseteq DOMAIN r.seeds
RunOwes(p) ==
  LET r == labelling[p]
  IN  lone[p] =>
        /\ r.pc = "infer" => r.seeds = SeedsIn(reading, DOMAIN Readings \ r.unread)
        /\ r.pc = "save" => /\ r.seeds = Wanted
                            /\ \A k \in DOMAIN r.seeds \ r.left :
                                 k \in DOMAIN tags /\ tags[k].confidence = r.seeds[k].confidence
TagsInv ==
  /\ labelling = [p \in Labellers |-> labelling[p]] /\ lone \in [Labellers -> BOOLEAN]
  /\ DOMAIN reading \subseteq DOMAIN Readings
  /\ decided \subseteq DOMAIN tags
  /\ \A k \in DOMAIN tags : tags[k].confirmed \in BOOLEAN /\ (tags[k].confirmed <=> k \in decided)
  /\ \A p \in Labellers : RunTyped(p) /\ RunOwes(p)

LEMMA TagsFromInv == TagsInv => StoredLabelsAreTrue
  <1> SUFFICES ASSUME TagsInv PROVE StoredLabelsAreTrue
    OBVIOUS
  <1> DEFINE seen == UNION {{<<d, k>> : k \in DOMAIN Infer(d, reading[d])} : d \in DOMAIN reading}
             all == [k \in {x[2] : x \in seen} |-> Infer(k[1], reading[k[1]])[k]]
             ls == Propagate(LabelGraph, all)
  <1>1. all = SeedsIn(reading, DOMAIN Readings)
    <2>1. {x[2] : x \in seen} = UNION {DOMAIN Infer(d, reading[d]) : d \in DOMAIN Readings \cap DOMAIN reading}
      <3>1. DOMAIN Readings \cap DOMAIN reading = DOMAIN reading
        BY DEF TagsInv
      <3>2. \A d \in DOMAIN reading : \A k \in DOMAIN Infer(d, reading[d]) : <<d, k>> \in seen /\ <<d, k>>[2] = k
        OBVIOUS
      <3>3. \A x \in seen : \E d \in DOMAIN reading : x[2] \in DOMAIN Infer(d, reading[d])
        OBVIOUS
      <3> DEFINE A == {x[2] : x \in seen}
                 B == UNION {DOMAIN Infer(d, reading[d]) : d \in DOMAIN reading}
      <3>4. A \subseteq B
        <4> HIDE DEF seen
        <4> QED BY <3>3
      <3>5. ASSUME NEW k \in B PROVE k \in A
        <4> HIDE DEF seen
        <4>1. PICK d \in DOMAIN reading : k \in DOMAIN Infer(d, reading[d])
          OBVIOUS
        <4>2. <<d, k>> \in seen /\ <<d, k>>[2] = k
          BY <3>2, <4>1
        <4> QED BY <4>2
      <3>6. A = B
        <4> HIDE DEF A, B
        <4> QED BY <3>4, <3>5
      <3> QED BY <3>1, <3>6
    <2> HIDE DEF seen
    <2> QED BY <2>1 DEF SeedsIn
  <1>2. ASSUME NEW p \in Labellers, lone[p], labelling[p].pc = "save", labelling[p].left = {},
               NEW k \in DOMAIN Wanted
        PROVE  k \in LabelsFor(k[1]) /\ tags[k].confidence = Wanted[k].confidence
    BY <1>2 DEF TagsInv, RunOwes, LabelsFor
  <1>3. ls = Wanted
    BY <1>1 DEF Wanted
  <1>4. {k \in DOMAIN tags : tags[k].confirmed} = decided
    BY DEF TagsInv
  <1> HIDE DEF all
  <1> QED BY <1>2, <1>3, <1>4 DEF StoredLabelsAreTrue, all

LEMMA TagsInvInit == TagsInit => TagsInv
  BY DEF TagsInit, TagsInv, RunTyped, RunOwes, NoLabelling, Unconfirmed

\* A set_label keeps who confirmed what.
Written(at, l) ==
  /\ DOMAIN tags' = DOMAIN tags \cup {at}
  /\ \A k \in DOMAIN tags' : tags'[k].confirmed \in BOOLEAN
                             /\ (tags'[k].confirmed <=> k \in decided \/ (k = at /\ l.confirmed))
  /\ \A k \in DOMAIN tags : k # at => tags'[k] = tags[k]
  /\ tags'[at].confidence = l.confidence

LEMMA SetLabelIs ==
  ASSUME TagsInv, NEW at, NEW l, l.confirmed \in BOOLEAN, tags' = SetLabel(at, l)
  PROVE  Written(at, l)
  <1>1. DOMAIN tags' = DOMAIN tags \cup {at}
    BY DEF SetLabel
  <1>2. \A k \in DOMAIN tags : k # at => tags'[k] = tags[k]
    BY DEF SetLabel
  <1>3. tags'[at] = [confidence |-> l.confidence, confirmed |-> l.confirmed \/ (at \in DOMAIN tags /\ tags[at].confirmed)]
    BY DEF SetLabel
  <1>4. \A k \in DOMAIN tags : tags[k].confirmed \in BOOLEAN /\ (k \in decided <=> tags[k].confirmed)
    BY DEF TagsInv
  <1>5. decided \subseteq DOMAIN tags
    BY DEF TagsInv
  <1>6. tags'[at].confirmed \in BOOLEAN /\ (tags'[at].confirmed <=> l.confirmed \/ at \in decided)
    BY <1>3, <1>4, <1>5
  <1>7. ASSUME NEW k \in DOMAIN tags'
        PROVE  tags'[k].confirmed \in BOOLEAN /\ (tags'[k].confirmed <=> k \in decided \/ (k = at /\ l.confirmed))
    BY <1>1, <1>2, <1>4, <1>6
  <1>8. tags'[at].confidence = l.confidence
    BY <1>3
  <1> QED BY <1>1, <1>2, <1>7, <1>8 DEF Written

\* Runs that a step leaves alone, and the store with them.
LEMMA RunStays ==
  ASSUME NEW p \in Labellers, RunTyped(p), RunOwes(p), labelling'[p] = labelling[p],
         lone'[p] => /\ lone[p] /\ reading' = reading /\ tags' = tags
  PROVE  RunTyped(p)' /\ RunOwes(p)'
  <1>1. RunTyped(p)'
    BY DEF RunTyped
  <1>2. RunOwes(p)'
    BY DEF RunOwes, Wanted, SeedsIn
  <1> QED BY <1>1, <1>2

LEMMA TagsInvNext ==
  ASSUME TagsInv, TagsNext
  PROVE  TagsInv'
  <1>1. ASSUME NEW d \in DOMAIN Readings, Reprofile(d) PROVE TagsInv'
    <2>1. /\ DOMAIN reading' \subseteq DOMAIN Readings
          /\ lone' = [p \in Labellers |-> FALSE] /\ UNCHANGED <<tags, labelling, decided>>
      BY <1>1 DEF Reprofile, TagsInv
    <2>2. ASSUME NEW p \in Labellers PROVE RunTyped(p)' /\ RunOwes(p)'
      BY <2>1, RunStays DEF TagsInv
    <2> QED BY <2>1, <2>2 DEF TagsInv
  <1>2. ASSUME NEW p \in Labellers,
               StartLabelling(p) \/ InferOne(p) \/ PropagateSeeds(p) \/ EndLabelling(p) \/ StopLabelling(p)
        PROVE  TagsInv'
    <2>1. UNCHANGED <<reading, tags, decided>>
      BY <1>2 DEF StartLabelling, InferOne, PropagateSeeds, EndLabelling, StopLabelling
    <2>2. /\ labelling' = [q \in Labellers |-> labelling'[q]] /\ lone' \in [Labellers -> BOOLEAN]
          /\ \A q \in Labellers \ {p} : labelling'[q] = labelling[q] /\ lone'[q] = lone[q]
      BY <1>2 DEF StartLabelling, InferOne, PropagateSeeds, EndLabelling, StopLabelling, TagsInv
    <2>3. ASSUME NEW q \in Labellers \ {p} PROVE RunTyped(q)' /\ RunOwes(q)'
      BY <2>1, <2>2, RunStays DEF TagsInv
    <2>4. RunTyped(p) /\ RunOwes(p)
      BY DEF TagsInv
    <2>5. RunTyped(p)' /\ RunOwes(p)'
      <3>1. CASE StartLabelling(p)
        <4>1. labelling'[p] = [pc |-> "infer", unread |-> DOMAIN Readings, seeds |-> << >>, left |-> {}]
          BY <3>1 DEF StartLabelling, NoLabelling, TagsInv
        <4>2. SeedsIn(reading', DOMAIN Readings \ labelling'[p].unread) = << >>
          <5>1. DOMAIN Readings \ labelling'[p].unread = {}
            BY <4>1
          <5> QED BY <5>1 DEF SeedsIn
        <4> QED BY <4>1, <4>2 DEF RunTyped, RunOwes, Unconfirmed
      <3>2. CASE InferOne(p)
        <4> DEFINE d == Min(labelling[p].unread)
                   seen == IF d \in DOMAIN reading THEN Infer(d, reading[d]) ELSE << >>
                   r == labelling[p]
                   both == [k \in DOMAIN r.seeds \cup DOMAIN seen |-> IF k \in DOMAIN seen THEN seen[k] ELSE r.seeds[k]]
        <4>1. /\ labelling'[p] = [pc |-> "infer", unread |-> r.unread \ {d}, seeds |-> both, left |-> r.left]
              /\ lone' = lone /\ r.pc = "infer" /\ r.unread # {}
          BY <2>4, <3>2 DEF InferOne, RunTyped, TagsInv
        <4>2. d \in r.unread /\ d \in DOMAIN Readings
          <5>1. r.unread \in SUBSET Nat /\ r.unread # {}
            BY <2>4, <4>1, LabelsAssumption DEF RunTyped, LabelsAssumption
          <5>2. PICK n \in r.unread : \A m \in r.unread : n <= m
            <6> HIDE DEF r
            <6> QED BY <5>1, LeastNumber
          <5>3. d \in r.unread
            BY <5>2 DEF Min
          <5> QED BY <2>4, <5>3 DEF RunTyped
        <4>3. seen = [k \in DOMAIN seen |-> seen[k]] /\ \A k \in DOMAIN seen : k[1] = d /\ seen[k].confirmed = FALSE
          <5>1. CASE d \in DOMAIN reading
            <6>1. seen = Infer(d, reading[d])
              BY <5>1
            <6> HIDE DEF d, seen
            <6>2. Inferred(d, seen)
              BY <6>1, InferIs
            <6> QED BY <6>2 DEF Inferred
          <5>2. CASE d \notin DOMAIN reading
            <6>1. seen = << >>
              BY <5>2
            <6> HIDE DEF seen, d
            <6> QED BY <6>1
          <5> QED BY <5>1, <5>2
        <4>4. Unconfirmed(both)
          BY <2>4, <4>3 DEF RunTyped, Unconfirmed
        <4>5. r.left \subseteq DOMAIN both
          BY <2>4 DEF RunTyped
        <4>6. RunTyped(p)'
          <5> HIDE DEF both, d, seen
          <5>1. r.unread \ {d} \subseteq DOMAIN Readings
            BY <2>4 DEF RunTyped
          <5> HIDE DEF r
          <5> QED BY <4>1, <4>4, <4>5, <5>1 DEF RunTyped
        <4>7. ASSUME lone[p] PROVE both = SeedsIn(reading, DOMAIN Readings \ (r.unread \ {d}))
          <5> DEFINE before == DOMAIN Readings \ r.unread
                     next == DOMAIN Readings \ (r.unread \ {d})
                     Dom(ds) == UNION {DOMAIN Infer(x, reading[x]) : x \in ds \cap DOMAIN reading}
          <5>1. r.seeds = SeedsIn(reading, before)
            BY <2>4, <4>1, <4>7 DEF RunOwes
          <5>2. next = before \cup {d}
            BY <4>2
          <5>3. Dom(next) = Dom(before) \cup DOMAIN seen
            <6>1. CASE d \in DOMAIN reading
              <7>1. next \cap DOMAIN reading = (before \cap DOMAIN reading) \cup {d} /\ seen = Infer(d, reading[d])
                BY <5>2, <6>1
              <7> HIDE DEF next, before, seen
              <7> QED BY <7>1
            <6>2. CASE d \notin DOMAIN reading
              <7>1. next \cap DOMAIN reading = before \cap DOMAIN reading /\ DOMAIN seen = {}
                BY <5>2, <6>2
              <7> HIDE DEF next, before, seen
              <7> QED BY <7>1
            <6> QED BY <6>1, <6>2
          <5>4. SeedsIn(reading, next) = [k \in Dom(next) |-> Infer(k[1], reading[k[1]])[k]]
            BY DEF SeedsIn
          <5>5. r.seeds = [k \in Dom(before) |-> Infer(k[1], reading[k[1]])[k]]
            BY <5>1 DEF SeedsIn
          <5>6. ASSUME NEW k \in Dom(next) PROVE both[k] = Infer(k[1], reading[k[1]])[k]
            <6>1. CASE k \in DOMAIN seen
              <7>1. d \in DOMAIN reading /\ seen = Infer(d, reading[d])
                BY <6>1
              <7>2. both[k] = seen[k] /\ k[1] = d
                <8> HIDE DEF seen
                <8> QED BY <4>3, <6>1
              <7> HIDE DEF d, both
              <7> QED BY <7>1, <7>2
            <6>2. CASE k \notin DOMAIN seen
              <7> HIDE DEF seen, Dom, r
              <7>1. k \in Dom(before) /\ DOMAIN r.seeds = Dom(before)
                BY <5>3, <5>5, <5>6, <6>2
              <7> QED BY <5>5, <6>2, <7>1
            <6> QED BY <6>1, <6>2
          <5>7. DOMAIN both = Dom(next)
            <6> HIDE DEF seen, Dom, r, before, next
            <6>1. DOMAIN r.seeds = Dom(before)
              BY <5>5
            <6> QED BY <5>3, <6>1
          <5>8. both = [k \in DOMAIN both |-> both[k]]
            OBVIOUS
          <5> HIDE DEF both, next, Dom, before, r, seen, d
          <5>9. both = SeedsIn(reading, next)
            BY <5>4, <5>6, <5>7, <5>8
          <5> QED BY <5>9 DEF next
        <4>8. RunOwes(p)'
          <5> HIDE DEF both, d, seen
          <5>1. SeedsIn(reading', DOMAIN Readings \ labelling'[p].unread) = SeedsIn(reading, DOMAIN Readings \ (r.unread \ {d}))
            BY <2>1, <4>1 DEF SeedsIn
          <5> HIDE DEF r
          <5> QED BY <4>1, <4>7, <5>1 DEF RunOwes
        <4> QED BY <4>6, <4>8
      <3>3. CASE PropagateSeeds(p)
        <4> DEFINE r == labelling[p]
                   ls == Propagate(LabelGraph, labelling[p].seeds)
        <4>1. /\ labelling'[p] = [pc |-> "save", unread |-> r.unread, seeds |-> ls, left |-> DOMAIN ls]
              /\ lone' = lone /\ r.pc = "infer" /\ r.unread = {}
          BY <2>4, <3>3 DEF PropagateSeeds, RunTyped, TagsInv
        <4>2. Unconfirmed(ls)
          BY <2>4, PropagateUnconfirmed DEF RunTyped
        <4>3. RunTyped(p)'
          <5> HIDE DEF ls
          <5> QED BY <2>4, <4>1, <4>2 DEF RunTyped
        <4>4. lone[p] => ls = Wanted
          <5>1. DOMAIN Readings \ r.unread = DOMAIN Readings
            BY <4>1
          <5> QED BY <2>4, <4>1, <5>1 DEF RunOwes, Wanted
        <4>5. Wanted' = Wanted
          BY <2>1 DEF Wanted, SeedsIn
        <4>6. RunOwes(p)'
          <5> HIDE DEF ls, r
          <5> QED BY <4>1, <4>4, <4>5 DEF RunOwes
        <4> QED BY <4>3, <4>6
      <3>4. CASE EndLabelling(p) \/ StopLabelling(p)
        <4>1. labelling'[p] = NoLabelling
          BY <3>4 DEF EndLabelling, StopLabelling, TagsInv
        <4> QED BY <4>1 DEF RunTyped, RunOwes, NoLabelling, Unconfirmed
      <3> QED BY <1>2, <3>1, <3>2, <3>3, <3>4
    <2>6. \A q \in Labellers : RunTyped(q)' /\ RunOwes(q)'
      BY <2>3, <2>5
    <2> QED BY <2>1, <2>2, <2>6 DEF TagsInv
  <1>3. ASSUME NEW p \in Labellers, SaveLabel(p) PROVE TagsInv'
    <2> DEFINE r == labelling[p]
    <2>1. PICK k \in r.left : /\ r.pc = "save" /\ tags' = SetLabel(k, r.seeds[k])
                              /\ labelling' = [labelling EXCEPT ![p].left = @ \ {k}]
                              /\ lone' = [q \in Labellers |-> q = p /\ lone[p]]
                              /\ UNCHANGED <<reading, decided>>
      BY <1>3 DEF SaveLabel
    <2>2. RunTyped(p) /\ RunOwes(p)
      BY DEF TagsInv
    <2>3. k \in DOMAIN r.seeds /\ r.seeds[k].confirmed = FALSE
      BY <2>1, <2>2 DEF RunTyped, Unconfirmed
    <2> DEFINE l == r.seeds[k]
    <2>4. /\ DOMAIN tags' = DOMAIN tags \cup {k}
          /\ \A x \in DOMAIN tags' : tags'[x].confirmed \in BOOLEAN /\ (tags'[x].confirmed <=> x \in decided)
          /\ \A x \in DOMAIN tags : x # k => tags'[x] = tags[x]
          /\ tags'[k].confidence = r.seeds[k].confidence
      <3>1. l.confirmed = FALSE /\ l.confirmed \in BOOLEAN /\ tags' = SetLabel(k, l)
        BY <2>1, <2>3
      <3> HIDE DEF l
      <3>2. Written(k, l)
        BY <3>1, SetLabelIs
      <3> QED BY <3>1, <3>2 DEF l, Written
    <2>5. labelling'[p] = [pc |-> "save", unread |-> r.unread, seeds |-> r.seeds, left |-> r.left \ {k}]
      BY <2>1, <2>2 DEF RunTyped, TagsInv
    <2>6. RunTyped(p)'
      BY <2>2, <2>5 DEF RunTyped
    <2>7. RunOwes(p)'
      <3>1. Wanted' = Wanted
        BY <2>1 DEF Wanted, SeedsIn
      <3>2. lone'[p] = lone[p]
        BY <2>1 DEF TagsInv
      <3>3. ASSUME lone[p], NEW x \in DOMAIN r.seeds \ (r.left \ {k})
            PROVE  x \in DOMAIN tags' /\ tags'[x].confidence = r.seeds[x].confidence
        <4>1. CASE x = k
          BY <2>4, <4>1
        <4>2. CASE x # k
          <5>1. x \in DOMAIN r.seeds \ r.left
            BY <3>3, <4>2
          <5>2. x \in DOMAIN tags /\ tags[x].confidence = r.seeds[x].confidence
            BY <2>1, <2>2, <3>3, <5>1 DEF RunOwes
          <5> QED BY <2>4, <4>2, <5>2
        <4> QED BY <4>1, <4>2
      <3>4. lone[p] => r.seeds = Wanted
        BY <2>1, <2>2 DEF RunOwes
      <3> HIDE DEF r
      <3> QED BY <2>5, <3>1, <3>2, <3>3, <3>4 DEF RunOwes
    <2>8. ASSUME NEW q \in Labellers \ {p} PROVE RunTyped(q)' /\ RunOwes(q)'
      <3>1. labelling'[q] = labelling[q] /\ ~lone'[q]
        BY <2>1 DEF TagsInv
      <3> QED BY <3>1, RunStays DEF TagsInv
    <2>9. labelling' = [q \in Labellers |-> labelling'[q]] /\ lone' \in [Labellers -> BOOLEAN]
      BY <2>1 DEF TagsInv
    <2>10. \A q \in Labellers : RunTyped(q)' /\ RunOwes(q)'
      BY <2>6, <2>7, <2>8
    <2> QED BY <2>1, <2>4, <2>9, <2>10 DEF TagsInv
  <1>4. ASSUME NEW k \in DOMAIN tags, ConfirmLabel(k) PROVE TagsInv'
    <2> DEFINE l == [confidence |-> TopConfidence, confirmed |-> TRUE]
    <2>1. /\ tags' = SetLabel(k, l) /\ decided' = decided \cup {k}
          /\ lone' = [p \in Labellers |-> FALSE] /\ UNCHANGED <<reading, labelling>>
      BY <1>4 DEF ConfirmLabel
    <2>2. l.confirmed = TRUE /\ l.confirmed \in BOOLEAN
      OBVIOUS
    <2>3. /\ DOMAIN tags' = DOMAIN tags \cup {k}
          /\ \A x \in DOMAIN tags' : tags'[x].confirmed \in BOOLEAN /\ (tags'[x].confirmed <=> x \in decided')
      <3> HIDE DEF l
      <3>1. Written(k, l)
        BY <2>1, <2>2, SetLabelIs
      <3> QED BY <2>1, <2>2, <3>1 DEF Written
    <2>4. ASSUME NEW p \in Labellers PROVE RunTyped(p)' /\ RunOwes(p)'
      BY <2>1, RunStays DEF TagsInv
    <2> QED BY <2>1, <2>3, <2>4 DEF TagsInv
  <1> QED BY <1>1, <1>2, <1>3, <1>4 DEF TagsNext

LEMMA TagsInvStutter == TagsInv /\ UNCHANGED tagVars => TagsInv'
  <1> SUFFICES ASSUME TagsInv, UNCHANGED tagVars PROVE TagsInv'
    OBVIOUS
  <1>1. ASSUME NEW p \in Labellers PROVE RunTyped(p)' /\ RunOwes(p)'
    BY RunStays DEF TagsInv, tagVars
  <1> QED BY <1>1 DEF TagsInv, tagVars

LabelsInv == FlowInv /\ TagsInv

LEMMA LabelsHold == GovernanceSpec => []LabelsInv
  <1>1. GovernanceInit => LabelsInv
    BY FlowInvInit, TagsInvInit DEF GovernanceInit, LabelsInv
  <1>2. LabelsInv /\ [GovernanceNext]_governanceVars => LabelsInv'
    <2> SUFFICES ASSUME LabelsInv, [GovernanceNext]_governanceVars PROVE LabelsInv'
      OBVIOUS
    <2>1. [LabelsNext]_labelVars /\ (TagsNext \/ UNCHANGED tagVars)
      BY DEF GovernanceNext, governanceVars
    <2> QED BY <2>1, FlowInvNext, TagsInvNext, TagsInvStutter DEF LabelsInv
  <1> QED BY <1>1, <1>2, PTL DEF GovernanceSpec

-----------------------------------------------------------------------------
(* The run's properties. *)

\* govern/erasure, beside the registries: what its proofs rest on holds at its desk.
ErasureInv == desk = "erasure" => Typed /\ SafeIfOrdered /\ CleanIfOrdered

LEMMA ErasureHolds == GovernanceSpec => []ErasureInv
  <1>1. GovernanceInit => ErasureInv
    BY TypedInit, SafeInit, CleanInit DEF GovernanceInit, ErasureInv
  <1>2. ErasureInv /\ [GovernanceNext]_governanceVars => ErasureInv'
    <2>1. ASSUME ErasureInv, [GovernanceNext]_governanceVars, desk' = "erasure"
          PROVE  desk = "erasure" /\ [Next]_vars
      BY <2>1 DEF GovernanceNext, governanceVars
    <2> QED BY <2>1, TypedNext, SafeNext, CleanNext DEF ErasureInv
  <1> QED BY <1>1, <1>2, PTL DEF GovernanceSpec

-----------------------------------------------------------------------------
(***************************************************************************)
(* Profiles, observe/ and govern/contracts.py.                             *)
(***************************************************************************)
\* Every column is kept, with its type.
ShapeKept(old, new) ==
  \A c \in ColumnNames(old) : c \in ColumnNames(new) /\ old.columns[c].dtype = new.columns[c].dtype

LEMMA BreaksMean ==
  ASSUME NEW old, NEW new
  PROVE  SchemaBreaks(old, new) # {} <=> ~ShapeKept(old, new)
  <1> DEFINE kind(c) == IF c \notin ColumnNames(old) THEN "added"
                        ELSE IF c \notin ColumnNames(new) THEN "removed" ELSE "retyped"
             differs(c) == \/ c \notin ColumnNames(old) \cap ColumnNames(new)
                           \/ old.columns[c].dtype # new.columns[c].dtype
             all == ColumnNames(old) \cup ColumnNames(new)
  <1>1. SchemaBreaks(old, new) = {f \in {[column |-> c, kind |-> kind(c)] : c \in {x \in all : differs(x)}} :
                                    f.kind \in {"removed", "retyped"}}
    BY DEF SchemaBreaks, ColumnChanges
  <1>2. ASSUME NEW f \in SchemaBreaks(old, new) PROVE ~ShapeKept(old, new)
    <2>1. PICK c \in {x \in all : differs(x)} : f = [column |-> c, kind |-> kind(c)]
      BY <1>1, <1>2
    <2>2. kind(c) \in {"removed", "retyped"}
      BY <1>1, <1>2, <2>1
    <2> QED BY <2>1, <2>2 DEF ShapeKept
  <1>3. ASSUME NEW c \in ColumnNames(old), ~(c \in ColumnNames(new) /\ old.columns[c].dtype = new.columns[c].dtype)
        PROVE  SchemaBreaks(old, new) # {}
    <2>1. c \in {x \in all : differs(x)} /\ kind(c) \in {"removed", "retyped"}
      BY <1>3
    <2>2. [column |-> c, kind |-> kind(c)] \in SchemaBreaks(old, new)
      BY <1>1, <2>1
    <2> QED BY <2>2
  <1> QED BY <1>2, <1>3 DEF ShapeKept

\* Of what drift finds only a removed or retyped column is an error.
LEMMA BrokenMeans ==
  ASSUME NEW old, NEW new
  PROVE  IsBroken(Drift(old, new)) <=> ~ShapeKept(old, new)
  <1> DEFINE sev(s) == IF Min({old.rows, new.rows}) < MinRows THEN "info" ELSE s
             found(c, k, s) == [column |-> c, kind |-> k, severity |-> s]
             kept == ColumnNames(old) \cap ColumnNames(new)
  <1>1. sev("warn") # "error" /\ sev("info") # "error"
    OBVIOUS
  <1>2. ASSUME NEW f \in Drift(old, new), f.severity = "error" PROVE ~ShapeKept(old, new)
    <2>1. \/ f \in {found(c, "column_removed", "error") : c \in ColumnNames(old) \ ColumnNames(new)}
          \/ f \in {found(c, "type_change", "error") : c \in {x \in kept : old.columns[x].dtype # new.columns[x].dtype}}
          \/ \E c, k : f = found(c, k, "info") \/ f = found(c, k, sev("warn")) \/ f = found(c, k, sev("info"))
      <3> HIDE DEF sev
      <3> QED BY <1>2 DEF Drift, sev
    <2>2. ~ \E c, k : f = found(c, k, "info") \/ f = found(c, k, sev("warn")) \/ f = found(c, k, sev("info"))
      <3> HIDE DEF sev
      <3> QED BY <1>1, <1>2
    <2>3. \E c \in ColumnNames(old) : c \notin ColumnNames(new) \/ old.columns[c].dtype # new.columns[c].dtype
      BY <2>1, <2>2
    <2> QED BY <2>3 DEF ShapeKept
  <1>3. ASSUME NEW c \in ColumnNames(old), ~(c \in ColumnNames(new) /\ old.columns[c].dtype = new.columns[c].dtype)
        PROVE  IsBroken(Drift(old, new))
    <2>1. found(c, "column_removed", "error") \in Drift(old, new) \/ found(c, "type_change", "error") \in Drift(old, new)
      <3>1. CASE c \notin ColumnNames(new)
        BY <3>1 DEF Drift
      <3>2. CASE c \in ColumnNames(new)
        BY <1>3, <3>2 DEF Drift
      <3> QED BY <3>1, <3>2
    <2> QED BY <2>1 DEF IsBroken
  <1> QED BY <1>2, <1>3 DEF IsBroken, ShapeKept

-----------------------------------------------------------------------------
SameColumns(p) == Expect("schema_matches", "*", Unknown, Unknown, ColumnNames(p), "error", TRUE)
SameType(p, c) == Expect("dtype_is", c, Unknown, Unknown, {p.columns[c].dtype}, "error", TRUE)
ManyRows(p) == LET span == Max({1, (p.rows * Margin) \div 100})
               IN  Expect("row_count_between", "*", Max({0, p.rows - span * 5}), p.rows + span * 5, {}, "warn", TRUE)
FewNulls(p, c) == Expect("null_rate_below", c, Unknown, Min({100, p.columns[c].nulls + Max({Margin, 2})}), {}, "warn", TRUE)
WithinBand(p, c) == LET pad == Padded(p.columns[c].low, p.columns[c].high)
               IN  Expect("in_range", c, p.columns[c].low - pad, p.columns[c].high + pad, {}, "warn", TRUE)

LEMMA LearnedIs ==
  ASSUME NEW p, NEW e \in Learn(p)
  PROVE  \/ e = SameColumns(p)
         \/ e = ManyRows(p)
         \/ \E c \in ColumnNames(p) : e = SameType(p, c)
         \/ \E c \in ColumnNames(p) : p.columns[c].nulls # Unknown /\ e = FewNulls(p, c)
         \/ \E c \in ColumnNames(p) : /\ p.columns[c].high >= p.columns[c].low
                                      /\ Both(p.columns[c].low, p.columns[c].high) /\ e = WithinBand(p, c)
  BY DEF Learn, SameColumns, ManyRows, SameType, FewNulls, WithinBand

LEMMA IsLearned ==
  ASSUME NEW p
  PROVE  SameColumns(p) \in Learn(p) /\ \A c \in ColumnNames(p) : SameType(p, c) \in Learn(p)
  BY DEF Learn, SameColumns, SameType

LEMMA ShapesEvaluate ==
  ASSUME NEW p, NEW s
  PROVE  /\ Evaluate(SameColumns(p), s) = IF ColumnNames(p) \subseteq ColumnNames(s) THEN "met" ELSE "broken"
         /\ \A c \in ColumnNames(p) :
              Evaluate(SameType(p, c), s) = IF c \in ColumnNames(s) /\ p.columns[c].dtype = s.columns[c].dtype
                                            THEN "met" ELSE "broken"
  <1>1. Evaluate(SameColumns(p), s) = IF ColumnNames(p) \subseteq ColumnNames(s) THEN "met" ELSE "broken"
    BY DEF Evaluate, SameColumns, Expect
  <1>2. ASSUME NEW c \in ColumnNames(p)
        PROVE  Evaluate(SameType(p, c), s) = IF c \in ColumnNames(s) /\ p.columns[c].dtype = s.columns[c].dtype
                                             THEN "met" ELSE "broken"
    <2>1. CASE c \notin ColumnNames(s)
      BY <2>1 DEF Evaluate, SameType, Expect
    <2>2. CASE c \in ColumnNames(s)
      BY <2>2 DEF Evaluate, SameType, Expect
    <2> QED BY <2>1, <2>2
  <1> QED BY <1>1, <1>2

\* A suite that was learned finds an error exactly when a column is gone or retyped.
LEMMA LearnedErrors ==
  ASSUME NEW p, NEW s
  PROVE  /\ Passed(RunSuite(Learn(p), s)) <=> ShapeKept(p, s)
         /\ \A e \in ErrorsOf(RunSuite(Learn(p), s)) :
              /\ e \in Learn(p) /\ Evaluate(e, s) = "broken" /\ e.severity = "error" /\ e.learned = TRUE
              /\ e = SameColumns(p) \/ \E c \in ColumnNames(p) : e = SameType(p, c)
  <1>1. ASSUME NEW e \in ErrorsOf(RunSuite(Learn(p), s))
        PROVE  /\ e \in Learn(p) /\ Evaluate(e, s) = "broken" /\ e.severity = "error"
               /\ e = SameColumns(p) \/ \E c \in ColumnNames(p) : e = SameType(p, c)
    <2>1. e \in Learn(p) /\ Evaluate(e, s) = "broken" /\ e.severity = "error"
      BY <1>1 DEF ErrorsOf, RunSuite
    <2>2. /\ ManyRows(p).severity = "warn"
          /\ \A c : FewNulls(p, c).severity = "warn" /\ WithinBand(p, c).severity = "warn"
      BY DEF ManyRows, FewNulls, WithinBand, Expect
    <2>3. e # ManyRows(p) /\ \A c : e # FewNulls(p, c) /\ e # WithinBand(p, c)
      BY <2>1, <2>2
    <2> QED BY <2>1, <2>3, LearnedIs
  <1>2. \A e \in ErrorsOf(RunSuite(Learn(p), s)) : e.learned = TRUE
    BY <1>1 DEF SameColumns, SameType, Expect
  <1>3. ASSUME ShapeKept(p, s) PROVE ErrorsOf(RunSuite(Learn(p), s)) = {}
    <2>1. ASSUME NEW e \in ErrorsOf(RunSuite(Learn(p), s)) PROVE FALSE
      BY <1>1, <1>3, <2>1, ShapesEvaluate DEF ShapeKept
    <2> QED BY <2>1
  <1>4. ASSUME NEW c \in ColumnNames(p), ~(c \in ColumnNames(s) /\ p.columns[c].dtype = s.columns[c].dtype)
        PROVE  ErrorsOf(RunSuite(Learn(p), s)) # {}
    <2>1. SameType(p, c) \in Learn(p) /\ Evaluate(SameType(p, c), s) = "broken" /\ SameType(p, c).severity = "error"
      <3>1. SameType(p, c).severity = "error"
        BY DEF SameType, Expect
      <3>2. Evaluate(SameType(p, c), s) = "broken"
        BY <1>4, ShapesEvaluate
      <3> QED BY <3>1, <3>2, IsLearned
    <2> QED BY <2>1 DEF ErrorsOf, RunSuite
  <1> QED BY <1>1, <1>2, <1>3, <1>4 DEF Passed, ShapeKept

-----------------------------------------------------------------------------
(***************************************************************************)
(* Baselines.                                                              *)
(***************************************************************************)
\* A comparison that found nothing broken was with the profile it names; a baseline that is
\* clean kept what the one before it had.
Checks == [pc : {"idle", "measured", "compared"}, current : {<< >>} \cup {<<p>> : p \in ProfileShapes},
           against : Nat, broken : BOOLEAN]

MonitorTypeOK ==
  /\ shape \in ProfileShapes /\ saved \in Seq(ProfileShapes) /\ clean \in Seq(BOOLEAN)
  /\ Len(clean) = Len(saved) /\ work \in [Checkers -> Checks]
  /\ dated \in Seq([bucket : Buckets, profile : ProfileShapes])

Compared(c) ==
  /\ work[c].pc \in {"measured", "compared"} => work[c].current[1] \in ProfileShapes
  /\ work[c].pc = "compared" =>
       /\ work[c].against \in 0 .. Len(saved)
       /\ work[c].against > 0 /\ ~work[c].broken => ShapeKept(saved[work[c].against], work[c].current[1])

MonitorInv ==
  /\ MonitorTypeOK
  /\ \A c \in Checkers : Compared(c)
  /\ \A k \in 2 .. Len(saved) : clean[k] => ShapeKept(saved[k - 1], saved[k])

LEMMA MonitorInvInit == MonitorInit => MonitorInv
  <1> SUFFICES ASSUME MonitorInit PROVE MonitorInv
    OBVIOUS
  <1>1. Len(saved) = 0 /\ Len(clean) = 0
    BY DEF MonitorInit
  <1>2. MonitorTypeOK
    BY <1>1 DEF MonitorInit, MonitorTypeOK, Resting, Checks
  <1>3. \A c \in Checkers : Compared(c)
    BY DEF MonitorInit, Compared, Resting
  <1> QED BY <1>1, <1>2, <1>3 DEF MonitorInv

\* A profile is saved at the end.
LEMMA SavedAtEnd ==
  ASSUME MonitorInv, NEW p \in ProfileShapes, NEW ok \in BOOLEAN, SaveProfile(p, ok),
         ok /\ Len(saved) > 0 => ShapeKept(saved[Len(saved)], p)
  PROVE  /\ saved' \in Seq(ProfileShapes) /\ clean' \in Seq(BOOLEAN) /\ Len(clean') = Len(saved')
         /\ Len(saved') = Len(saved) + 1 /\ \A k \in 1 .. Len(saved) : saved'[k] = saved[k]
         /\ \A k \in 2 .. Len(saved') : clean'[k] => ShapeKept(saved'[k - 1], saved'[k])
  <1>1. saved \in Seq(ProfileShapes) /\ clean \in Seq(BOOLEAN) /\ Len(clean) = Len(saved)
    BY DEF MonitorInv, MonitorTypeOK
  <1>2. saved' = Append(saved, p) /\ clean' = Append(clean, ok)
    BY DEF SaveProfile
  <1>3. /\ Len(saved) \in Nat /\ saved' \in Seq(ProfileShapes) /\ Len(saved') = Len(saved) + 1
        /\ \A k \in 1 .. Len(saved) : saved'[k] = saved[k]
        /\ saved'[Len(saved) + 1] = p
    BY <1>1, <1>2, AppendProperties, LenProperties
  <1>4. /\ clean' \in Seq(BOOLEAN) /\ Len(clean') = Len(saved) + 1
        /\ \A k \in 1 .. Len(saved) : clean'[k] = clean[k]
        /\ clean'[Len(saved) + 1] = ok
    BY <1>1, <1>2, AppendProperties, LenProperties
  <1>5. ASSUME NEW k \in 2 .. Len(saved'), clean'[k] PROVE ShapeKept(saved'[k - 1], saved'[k])
    <2>1. CASE k \in 2 .. Len(saved)
      <3>1. clean[k] /\ saved'[k] = saved[k] /\ saved'[k - 1] = saved[k - 1]
        BY <1>3, <1>4, <1>5, <2>1
      <3> QED BY <2>1, <3>1 DEF MonitorInv
    <2>2. CASE k = Len(saved) + 1
      <3>1. ok /\ Len(saved) > 0 /\ saved'[k] = p /\ saved'[k - 1] = saved[Len(saved)]
        BY <1>3, <1>4, <1>5, <2>2
      <3> QED BY <3>1
    <2> QED BY <1>3, <2>1, <2>2
  <1> QED BY <1>3, <1>4, <1>5

LEMMA LastIs == saved # << >> /\ saved \in Seq(ProfileShapes) =>
                  /\ LastProfile = <<saved[Len(saved)]>> /\ LastProfile[1] = saved[Len(saved)]
                  /\ Len(saved) > 0 /\ saved[Len(saved)] \in ProfileShapes
  <1>1. ASSUME saved # << >>, saved \in Seq(ProfileShapes) PROVE Len(saved) > 0 /\ saved[Len(saved)] \in ProfileShapes
    <2>1. Len(saved) \in Nat /\ Len(saved) # 0
      BY <1>1, EmptySeq, LenProperties
    <2> QED BY <1>1, <2>1, ElementOfSeq
  <1> QED BY <1>1 DEF LastProfile, Last

LEMMA MonitorInvNext == ASSUME MonitorInv, MonitorNext \/ SeasonsNext \/ UNCHANGED monitorVars PROVE MonitorInv'
  <1> USE DEF MonitorInv
  <1>0. /\ shape \in ProfileShapes /\ saved \in Seq(ProfileShapes) /\ clean \in Seq(BOOLEAN)
        /\ Len(clean) = Len(saved) /\ work \in [Checkers -> Checks] /\ Len(saved) \in Nat
        /\ dated \in Seq([bucket : Buckets, profile : ProfileShapes])
    BY LenProperties DEF MonitorTypeOK
  <1>1. ASSUME UNCHANGED <<saved, clean, work, dated>>, shape' \in ProfileShapes PROVE MonitorInv'
    BY <1>0, <1>1 DEF MonitorTypeOK, Compared
  <1>2. ASSUME NEW c \in Checkers, Examine(c) PROVE MonitorInv'
    <2>1. work' = [work EXCEPT ![c] = [Resting EXCEPT !.pc = "measured", !.current = <<shape>>]]
      BY <1>2 DEF Examine
    <2>2. UNCHANGED <<shape, saved, clean, dated>>
      BY <1>2 DEF Examine
    <2>3. work' \in [Checkers -> Checks] /\ work'[c].pc = "measured" /\ work'[c].current[1] = shape
      <3>1. [Resting EXCEPT !.pc = "measured", !.current = <<shape>>] \in Checks
        BY <1>0 DEF Resting, Checks
      <3> QED BY <1>0, <2>1, <3>1 DEF Resting
    <2>4. \A d \in Checkers : Compared(d)'
      <3> SUFFICES ASSUME NEW d \in Checkers PROVE Compared(d)'
        OBVIOUS
      <3>1. CASE d = c
        BY <1>0, <2>3, <3>1 DEF Compared
      <3>2. CASE d # c
        <4>1. work'[d] = work[d]
          BY <1>0, <2>1, <3>2
        <4> QED BY <2>2, <4>1 DEF Compared
      <3> QED BY <3>1, <3>2
    <2> QED BY <1>0, <2>2, <2>3, <2>4 DEF MonitorTypeOK
  <1>3. ASSUME NEW c \in Checkers, CompareWithLatest(c) PROVE MonitorInv'
    <2> DEFINE bad == LastProfile # << >> /\ IsBroken(Drift(LastProfile[1], work[c].current[1]))
    <2>1. /\ work' = [work EXCEPT ![c] = [@ EXCEPT !.pc = "compared", !.against = Len(saved), !.broken = bad]]
          /\ work[c].pc = "measured" /\ UNCHANGED <<shape, saved, clean, dated>>
      <3> HIDE DEF bad
      <3> QED BY <1>3 DEF CompareWithLatest, bad
    <2>2. bad \in BOOLEAN
      OBVIOUS
    <2>3. /\ work' \in [Checkers -> Checks] /\ work'[c].pc = "compared" /\ work'[c].current = work[c].current
          /\ work'[c].against = Len(saved) /\ work'[c].broken = bad
      <3> HIDE DEF bad
      <3>1. [work[c] EXCEPT !.pc = "compared", !.against = Len(saved), !.broken = bad] \in Checks
        BY <1>0, <2>2 DEF Checks
      <3>2. work[c] \in Checks
        BY <1>0
      <3> QED BY <1>0, <2>1, <3>1, <3>2 DEF Checks
    <2>4. work[c].current[1] \in ProfileShapes
      BY <2>1 DEF Compared
    <2>5. Len(saved) > 0 /\ ~bad => ShapeKept(saved[Len(saved)], work[c].current[1])
      <3> SUFFICES ASSUME Len(saved) > 0, ~bad PROVE ShapeKept(saved[Len(saved)], work[c].current[1])
        OBVIOUS
      <3>1. saved # << >> /\ LastProfile = <<saved[Len(saved)]>> /\ LastProfile[1] = saved[Len(saved)]
        BY <1>0, LastIs
      <3>2. ~IsBroken(Drift(saved[Len(saved)], work[c].current[1]))
        BY <3>1
      <3> QED BY <3>2, BrokenMeans
    <2>6. \A d \in Checkers : Compared(d)'
      <3> SUFFICES ASSUME NEW d \in Checkers PROVE Compared(d)'
        OBVIOUS
      <3>1. CASE d = c
        <4> HIDE DEF bad
        <4> QED BY <1>0, <2>1, <2>2, <2>3, <2>4, <2>5, <3>1 DEF Compared
      <3>2. CASE d # c
        <4>1. work'[d] = work[d]
          BY <1>0, <2>1, <3>2
        <4> QED BY <2>1, <4>1 DEF Compared
      <3> QED BY <3>1, <3>2
    <2> QED BY <1>0, <2>1, <2>3, <2>6 DEF MonitorTypeOK
  <1>4. ASSUME NEW c \in Checkers, NEW r \in BOOLEAN, Settle(c, r) PROVE MonitorInv'
    <2>1. work[c].pc = "compared" /\ work' = [work EXCEPT ![c] = Resting] /\ UNCHANGED <<shape, dated>>
      BY <1>4 DEF Settle
    <2>2. work' \in [Checkers -> Checks] /\ work'[c].pc = "idle" /\ \A d \in Checkers \ {c} : work'[d] = work[d]
      <3>1. Resting \in Checks
        BY DEF Resting, Checks
      <3> QED BY <1>0, <2>1, <3>1 DEF Resting
    <2>3. work[c].current[1] \in ProfileShapes /\ work[c].broken \in BOOLEAN
      BY <1>0, <2>1 DEF Compared, Checks
    <2>4. CASE UNCHANGED <<saved, clean>>
      <3>1. \A d \in Checkers : Compared(d)'
        BY <2>2, <2>4 DEF Compared
      <3> QED BY <1>0, <2>1, <2>2, <2>4, <3>1 DEF MonitorTypeOK
    <2>5. CASE SaveProfile(work[c].current[1], ~work[c].broken /\ work[c].against = Len(saved))
      <3> DEFINE ok == ~work[c].broken /\ work[c].against = Len(saved)
      <3>1. ok \in BOOLEAN /\ SaveProfile(work[c].current[1], ok)
        BY <2>5
      <3>2. ok /\ Len(saved) > 0 => ShapeKept(saved[Len(saved)], work[c].current[1])
        BY <2>1 DEF Compared
      <3> HIDE DEF ok
      <3>3. /\ saved' \in Seq(ProfileShapes) /\ clean' \in Seq(BOOLEAN) /\ Len(clean') = Len(saved')
            /\ Len(saved') = Len(saved) + 1 /\ \A k \in 1 .. Len(saved) : saved'[k] = saved[k]
            /\ \A k \in 2 .. Len(saved') : clean'[k] => ShapeKept(saved'[k - 1], saved'[k])
        BY <2>3, <3>1, <3>2, SavedAtEnd
      <3>4. \A d \in Checkers : Compared(d)'
        BY <1>0, <2>2, <3>3 DEF Compared
      <3> QED BY <1>0, <2>1, <2>2, <3>3, <3>4 DEF MonitorTypeOK
    <2> QED BY <1>4, <2>4, <2>5 DEF Settle
  <1>5. ASSUME ProfileCommand PROVE MonitorInv'
    <2>1. SaveProfile(shape, FALSE) /\ UNCHANGED <<shape, work, dated>>
      BY <1>5 DEF ProfileCommand
    <2>2. /\ saved' \in Seq(ProfileShapes) /\ clean' \in Seq(BOOLEAN) /\ Len(clean') = Len(saved')
          /\ Len(saved') = Len(saved) + 1 /\ \A k \in 1 .. Len(saved) : saved'[k] = saved[k]
          /\ \A k \in 2 .. Len(saved') : clean'[k] => ShapeKept(saved'[k - 1], saved'[k])
      BY <1>0, <2>1, SavedAtEnd
    <2>3. \A d \in Checkers : Compared(d)'
      BY <1>0, <2>1, <2>2 DEF Compared
    <2> QED BY <1>0, <2>1, <2>2, <2>3 DEF MonitorTypeOK
  <1>6. ASSUME SeasonsNext PROVE MonitorInv'
    <2>1. PICK b \in Buckets, q \in ProfileShapes : SavePartitionProfile(b, q)
      BY <1>6 DEF SeasonsNext
    <2>2. dated' = Append(dated, [bucket |-> b, profile |-> q]) /\ UNCHANGED <<shape, saved, clean, work>>
      BY <2>1 DEF SavePartitionProfile
    <2>3. dated' \in Seq([bucket : Buckets, profile : ProfileShapes])
      BY <1>0, <2>2, AppendProperties
    <2> QED BY <1>0, <2>2, <2>3 DEF MonitorTypeOK, Compared
  <1>7. ASSUME NEW s \in ProfileShapes, DataChanges(s) PROVE MonitorInv'
    BY <1>1, <1>7 DEF DataChanges
  <1>8. ASSUME UNCHANGED monitorVars PROVE MonitorInv'
    BY <1>0, <1>1, <1>8 DEF monitorVars
  <1>9. CASE MonitorNext
    BY <1>2, <1>3, <1>4, <1>5, <1>7, <1>9 DEF MonitorNext
  <1> QED BY <1>6, <1>8, <1>9

\* Between two profiles each accepted for the one before it nothing is lost.
LEMMA ShapesStay ==
  ASSUME MonitorInv, NEW i \in DOMAIN saved, NEW j \in DOMAIN saved, i < j, \A k \in i + 1 .. j : clean[k]
  PROVE  ShapeKept(saved[i], saved[j])
  <1>1. Len(saved) \in Nat /\ DOMAIN saved = 1 .. Len(saved)
    BY LenProperties DEF MonitorInv, MonitorTypeOK
  <1> DEFINE Lost == {k \in i .. j : ~ShapeKept(saved[i], saved[k])}
  <1>2. SUFFICES ASSUME Lost # {} PROVE FALSE
    BY <1>1
  <1>3. Lost \in SUBSET Nat
    BY <1>1
  <1>4. PICK k \in Lost : \A m \in Lost : k <= m
    <2> HIDE DEF Lost
    <2> QED BY <1>2, <1>3, LeastNumber
  <1>5. k # i
    BY <1>4 DEF ShapeKept
  <1>6. k - 1 \in i .. j /\ k - 1 \notin Lost /\ k \in 2 .. Len(saved) /\ clean[k]
    BY <1>1, <1>4, <1>5
  <1>7. ShapeKept(saved[i], saved[k - 1]) /\ ShapeKept(saved[k - 1], saved[k])
    BY <1>6 DEF MonitorInv
  <1>8. ShapeKept(saved[i], saved[k])
    BY <1>7 DEF ShapeKept
  <1> QED BY <1>4, <1>8

LEMMA ShapesFromInv == MonitorInv => AcceptedShapesNeverBreak
  <1> SUFFICES ASSUME MonitorInv, NEW i \in DOMAIN saved, NEW j \in DOMAIN saved, i < j, \A k \in i + 1 .. j : clean[k]
               PROVE  /\ Passed(RunSuite(Learn(saved[i]), saved[j]))
                      /\ IsMet(VerifyContract([columns |-> ColumnNames(saved[i]), consumers |-> {}, staleness |-> Unknown,
                                               suite |-> {}], <<saved[j]>>, <<saved[i]>>, Unknown))
    BY DEF AcceptedShapesNeverBreak
  <1>1. ShapeKept(saved[i], saved[j])
    BY ShapesStay
  <1>2. ColumnNames(saved[i]) \ ColumnNames(saved[j]) = {} /\ SchemaBreaks(saved[i], saved[j]) = {}
    BY <1>1, BreaksMean DEF ShapeKept
  <1>3. ErrorsOf(RunSuite({}, saved[j])) = {}
    BY DEF ErrorsOf, RunSuite
  <1> QED BY <1>1, <1>2, <1>3, LearnedErrors DEF IsMet, VerifyContract

-----------------------------------------------------------------------------
(***************************************************************************)
(* What two shapes are told apart by.                                      *)
(***************************************************************************)
LEMMA Extremes ==
  ASSUME NEW S \in SUBSET Int, S # {}, IsFiniteSet(S)
  PROVE  /\ Max(S) \in S /\ \A n \in S : n <= Max(S)
         /\ Min(S) \in S /\ \A n \in S : Min(S) <= n
  <1>1. \E m \in S : \A n \in S : m >= n
    BY FiniteHasGreatest
  <1>2. \E m \in S : \A n \in S : m <= n
    BY FiniteHasLeast
  <1>3. Max(S) \in S /\ \A n \in S : Max(S) >= n
    BY <1>1 DEF Max
  <1>4. Min(S) \in S /\ \A n \in S : Min(S) <= n
    BY <1>2 DEF Min
  <1> QED BY <1>3, <1>4

LEMMA ExtremesOfFew ==
  ASSUME NEW a \in Int, NEW b \in Int, NEW c \in Int
  PROVE  /\ Max({a, b}) \in {a, b} /\ Max({a, b}) >= a /\ Max({a, b}) >= b
         /\ Min({a, b}) \in {a, b} /\ Min({a, b}) <= a /\ Min({a, b}) <= b
         /\ Max({a, b, c}) \in {a, b, c} /\ Max({a, b, c}) >= a /\ Max({a, b, c}) >= b /\ Max({a, b, c}) >= c
  <1>1. IsFiniteSet({a, b}) /\ IsFiniteSet({a, b, c})
    <2>1. IsFiniteSet({a}) /\ {a, b} = {a} \cup {b} /\ {a, b, c} = {a, b} \cup {c}
      BY FS_Singleton
    <2>2. IsFiniteSet({a, b})
      BY <2>1, FS_AddElement
    <2> QED BY <2>1, <2>2, FS_AddElement
  <1>2. {a, b} \in SUBSET Int /\ {a, b} # {} /\ {a, b, c} \in SUBSET Int /\ {a, b, c} # {}
    OBVIOUS
  <1>3. /\ Max({a, b}) \in {a, b} /\ \A n \in {a, b} : n <= Max({a, b})
        /\ Min({a, b}) \in {a, b} /\ \A n \in {a, b} : Min({a, b}) <= n
    BY <1>1, <1>2, Extremes
  <1>4. Max({a, b, c}) \in {a, b, c} /\ \A n \in {a, b, c} : n <= Max({a, b, c})
    BY <1>1, <1>2, Extremes
  <1>5. Max({a, b}) \in Int /\ Min({a, b}) \in Int /\ Max({a, b, c}) \in Int
    BY <1>3, <1>4
  <1> HIDE DEF Max, Min
  <1> QED BY <1>3, <1>4, <1>5

LEMMA PaddedIs ==
  ASSUME NEW low \in Int, NEW high \in Int
  PROVE  Padded(low, high) \in Int /\ Padded(low, high) >= 0
  <1>1. Margin \in Nat
    BY MonitorAssumption DEF MonitorAssumption
  <1>2. \A n \in Int : Abs(n) \in Int
    BY DEF Abs
  <1>3. /\ (Abs(high - low) * Margin) \div 100 \in Int
        /\ (Abs(high) * Margin) \div 100 \in Int
    <2>1. Abs(high - low) \in Int /\ Abs(high) \in Int
      BY <1>2
    <2>2. Abs(high - low) * Margin \in Int /\ Abs(high) * Margin \in Int
      BY <1>1, <2>1
    <2> QED BY <2>2
  <1> DEFINE u == (Abs(high - low) * Margin) \div 100
             v == (Abs(high) * Margin) \div 100
  <1>4. u \in Int /\ v \in Int /\ 0 \in Int
    BY <1>3
  <1>5. Padded(low, high) = Max({u, v, 0})
    BY DEF Padded
  <1> HIDE DEF u, v
  <1>6. Max({u, v, 0}) \in {u, v, 0} /\ Max({u, v, 0}) >= 0
    BY <1>4, ExtremesOfFew
  <1> QED BY <1>4, <1>5, <1>6

\* A suite accepts the profile it was learned from.
LEMMA LearnedAccepts ==
  ASSUME NEW p \in ProfileShapes
  PROVE  RunSuite(Learn(p), p).broken = {}
  <1> DEFINE col(c) == p.columns[c]
  <1>1. /\ p.rows \in Nat /\ Margin \in Nat
        /\ \A c \in ColumnNames(p) : /\ col(c).nulls \in {Unknown} \cup 0 .. 100
                                     /\ col(c).low \in Int /\ col(c).high \in Int
    BY MonitorAssumption DEF MonitorAssumption
  <1>2. Evaluate(SameColumns(p), p) = "met" /\ \A c \in ColumnNames(p) : Evaluate(SameType(p, c), p) = "met"
    BY ShapesEvaluate
  <1>3. Evaluate(ManyRows(p), p) = "met"
    <2> DEFINE span == Max({1, (p.rows * Margin) \div 100})
               low == Max({0, p.rows - span * 5})
    <2>1. span \in Int /\ span >= 1
      <3>1. p.rows * Margin \in Int
        BY <1>1
      <3>2. (p.rows * Margin) \div 100 \in Int
        BY <3>1
      <3> DEFINE m == (p.rows * Margin) \div 100
      <3>3. m \in Int /\ 1 \in Int /\ span = Max({1, m})
        BY <3>2
      <3> HIDE DEF m
      <3>4. Max({1, m}) \in {1, m} /\ Max({1, m}) >= 1
        BY <3>3, ExtremesOfFew
      <3> HIDE DEF span
      <3> QED BY <3>3, <3>4
    <2> HIDE DEF span
    <2>2. low \in {0, p.rows - span * 5} /\ low \in Int
      <3>1. 0 \in Int /\ p.rows - span * 5 \in Int
        BY <1>1, <2>1
      <3>2. low \in {0, p.rows - span * 5}
        BY <3>1, ExtremesOfFew
      <3> HIDE DEF low
      <3> QED BY <3>1, <3>2
    <2>3. ManyRows(p) = Expect("row_count_between", "*", low, p.rows + span * 5, {}, "warn", TRUE)
      BY DEF ManyRows, span
    <2> HIDE DEF low
    <2>4. ~Outside(p.rows, ManyRows(p)) /\ ManyRows(p).kind = "row_count_between"
      BY <1>1, <2>1, <2>2, <2>3 DEF Outside, Expect
    <2> QED BY <2>4 DEF Evaluate
  <1>4. ASSUME NEW c \in ColumnNames(p), col(c).nulls # Unknown PROVE Evaluate(FewNulls(p, c), p) = "met"
    <2> DEFINE most == col(c).nulls + Max({Margin, 2})
    <2>1. Max({Margin, 2}) \in Int /\ Max({Margin, 2}) >= 2
      <3>1. Margin \in Int /\ 2 \in Int
        BY <1>1
      <3>2. Max({Margin, 2}) \in {Margin, 2} /\ Max({Margin, 2}) >= 2
        BY <3>1, ExtremesOfFew
      <3> QED BY <3>1, <3>2
    <2>2. col(c).nulls \in 0 .. 100
      BY <1>1, <1>4
    <2>3. most \in Int /\ col(c).nulls <= most
      BY <2>1, <2>2
    <2>4. Min({100, most}) \in {100, most}
      <3>1. 100 \in Int /\ most \in Int
        BY <2>3
      <3> HIDE DEF most
      <3> QED BY <3>1, ExtremesOfFew
    <2>5. FewNulls(p, c) = Expect("null_rate_below", c, Unknown, Min({100, most}), {}, "warn", TRUE)
      BY DEF FewNulls
    <2> HIDE DEF most
    <2>6. ~(col(c).nulls > Min({100, most}))
      BY <2>2, <2>3, <2>4
    <2> QED BY <1>4, <2>5, <2>6 DEF Evaluate, Expect
  <1>5. ASSUME NEW c \in ColumnNames(p), Both(col(c).low, col(c).high) PROVE Evaluate(WithinBand(p, c), p) = "met"
    <2> DEFINE pad == Padded(col(c).low, col(c).high)
    <2>1. pad \in Int /\ pad >= 0 /\ col(c).low \in Int /\ col(c).high \in Int
      BY <1>1, PaddedIs
    <2>2. WithinBand(p, c) = Expect("in_range", c, col(c).low - pad, col(c).high + pad, {}, "warn", TRUE)
      BY DEF WithinBand
    <2> HIDE DEF pad
    <2> QED BY <1>5, <2>1, <2>2 DEF Evaluate, Expect, Both
  <1>6. ASSUME NEW e \in Learn(p) PROVE Evaluate(e, p) = "met"
    BY <1>2, <1>3, <1>4, <1>5, LearnedIs
  <1> QED BY <1>6 DEF RunSuite

\* What nothing explains, drift calls no more than information.
LEMMA UnexplainedIsInfo ==
  ASSUME NEW p \in ProfileShapes, NEW s \in ProfileShapes, Explained(p, s) = {}, NEW f \in Drift(p, s)
  PROVE  f.severity = "info"
  <1> DEFINE sev(v) == IF Min({p.rows, s.rows}) < MinRows THEN "info" ELSE v
             found(c, k, v) == [column |-> c, kind |-> k, severity |-> v]
             kept == ColumnNames(p) \cap ColumnNames(s)
  <1>1. p.rows = s.rows /\ p.rows \in Nat /\ RowTolerance \in Nat /\ NullTolerance \in Nat
    BY MonitorAssumption DEF MonitorAssumption, Explained
  <1>2. SchemaBreaks(p, s) = {}
    BY DEF Explained
  <1>3. ShapeKept(p, s)
    BY <1>2, BreaksMean
  <1>4. \A c \in kept : Both(p.columns[c].nulls, s.columns[c].nulls) => p.columns[c].nulls = s.columns[c].nulls
    BY DEF Explained
  <1>5. ~(IF p.rows = 0 THEN s.rows > 0 ELSE 100 * Abs(s.rows - p.rows) > RowTolerance * p.rows)
    <2>1. Abs(s.rows - p.rows) = 0
      BY <1>1 DEF Abs
    <2>2. RowTolerance * p.rows >= 0 /\ RowTolerance * p.rows \in Int
      BY <1>1
    <2> QED BY <1>1, <2>1, <2>2
  <1>6. \A c \in kept : ~(Both(p.columns[c].nulls, s.columns[c].nulls)
                            /\ Abs(s.columns[c].nulls - p.columns[c].nulls) > NullTolerance)
    <2> SUFFICES ASSUME NEW c \in kept, Both(p.columns[c].nulls, s.columns[c].nulls)
                 PROVE  ~(Abs(s.columns[c].nulls - p.columns[c].nulls) > NullTolerance)
      OBVIOUS
    <2>1. p.columns[c].nulls = s.columns[c].nulls /\ p.columns[c].nulls \in Int
      BY <1>4, MonitorAssumption DEF MonitorAssumption, Unknown
    <2>2. Abs(s.columns[c].nulls - p.columns[c].nulls) = 0
      BY <2>1 DEF Abs
    <2> QED BY <1>1, <2>2
  <1>7. \E c, k : f = found(c, k, "info") \/ f = found(c, k, sev("info"))
    <2> HIDE DEF sev
    <2> QED BY <1>3, <1>5, <1>6 DEF Drift, ShapeKept, sev
  <1> QED BY <1>7

\* Merging keeps what somebody asserted, and what was learned and finds an error.
LEMMA MergedKeep ==
  ASSUME NEW p, NEW s,
         NEW A, A = Expect("null_rate_below", "a", Unknown, 0, {}, "error", FALSE)
  PROVE  /\ A \in Merge(<<Learn(p), {A}>>)
         /\ ErrorsOf(RunSuite(Learn(p), s)) \subseteq ErrorsOf(RunSuite(Merge(<<Learn(p), {A}>>), s))
  <1> DEFINE suites == <<Learn(p), {A}>>
             from(e) == {i \in DOMAIN suites : e \in suites[i]}
             rank(e) == <<e.learned, Min(from(e))>>
             before(e, f) == (rank(f)[1] /\ ~rank(e)[1]) \/ (rank(e)[1] = rank(f)[1] /\ rank(e)[2] <= rank(f)[2])
  <1>1. UNION Range(suites) = Learn(p) \cup {A}
    <2>1. DOMAIN suites = {1, 2} /\ suites[1] = Learn(p) /\ suites[2] = {A}
      OBVIOUS
    <2>2. Range(suites) = {Learn(p), {A}}
      <3> HIDE DEF suites
      <3> QED BY <2>1 DEF Range
    <2> QED BY <2>2
  <1>2. Merge(suites) = {e \in Learn(p) \cup {A} :
                           \A f \in Learn(p) \cup {A} : f.kind = e.kind /\ f.column = e.column => before(e, f)}
    BY <1>1 DEF Merge
  <1>3. \A e \in Learn(p) : e.learned = TRUE
    <2>1. /\ SameColumns(p).learned = TRUE /\ ManyRows(p).learned = TRUE
          /\ \A c : SameType(p, c).learned = TRUE /\ FewNulls(p, c).learned = TRUE /\ WithinBand(p, c).learned = TRUE
      BY DEF SameColumns, ManyRows, SameType, FewNulls, WithinBand, Expect
    <2> QED BY <2>1, LearnedIs
  <1>4. A.learned = FALSE /\ A.kind = "null_rate_below" /\ A \notin Learn(p)
    BY <1>3 DEF Expect
  <1>5. Min({2}) = 2 /\ Min({1}) = 1
    BY DEF Min
  <1>6. from(A) = {2} /\ \A e \in Learn(p) : from(e) = {1}
    <2>1. DOMAIN suites = {1, 2} /\ suites[1] = Learn(p) /\ suites[2] = {A}
      OBVIOUS
    <2> HIDE DEF suites
    <2> QED BY <1>4, <2>1
  <1> HIDE DEF suites, from
  <1>7. A \in Merge(suites)
    <2>1. ASSUME NEW f \in Learn(p) \cup {A} PROVE before(A, f)
      <3>1. CASE f = A
        <4>1. \A e : from(e) = {2} => before(e, e)
          BY ONLY <1>5
        <4>2. before(A, A)
          <5> HIDE DEF before
          <5> QED BY <1>6, <4>1
        <4> HIDE DEF before
        <4> QED BY <3>1, <4>2
      <3>2. CASE f \in Learn(p)
        <4>1. rank(f)[1] = TRUE /\ rank(A)[1] = FALSE
          BY <1>3, <1>4, <3>2
        <4> QED BY <4>1
      <3> QED BY <3>1, <3>2
    <2> HIDE DEF before
    <2> QED BY <1>2, <2>1
  <1>8. ASSUME NEW e \in ErrorsOf(RunSuite(Learn(p), s)) PROVE e \in Merge(suites)
    <2>1. e \in Learn(p) /\ (e = SameColumns(p) \/ \E c \in ColumnNames(p) : e = SameType(p, c))
      BY LearnedErrors
    <2>2. ASSUME NEW f \in Learn(p) \cup {A}, f.kind = e.kind, f.column = e.column PROVE f = e
      <3>1. /\ SameColumns(p).kind = "schema_matches" /\ ManyRows(p).kind = "row_count_between"
            /\ \A c : /\ SameType(p, c).kind = "dtype_is" /\ SameType(p, c).column = c
                      /\ FewNulls(p, c).kind = "null_rate_below" /\ WithinBand(p, c).kind = "in_range"
        BY DEF SameColumns, ManyRows, SameType, FewNulls, WithinBand, Expect
      <3>2. e.kind \in {"schema_matches", "dtype_is"}
        BY <2>1, <3>1
      <3>3. f \in Learn(p)
        BY <1>4, <2>2, <3>2
      <3>4. f = SameColumns(p) \/ \E c \in ColumnNames(p) : f = SameType(p, c)
        BY <2>2, <3>1, <3>2, <3>3, LearnedIs
      <3> QED BY <2>1, <2>2, <3>1, <3>4
    <2>3. before(e, e)
      BY <1>5, <1>6, <2>1
    <2> HIDE DEF before
    <2> QED BY <1>2, <2>1, <2>2, <2>3
  <1>9. ErrorsOf(RunSuite(Learn(p), s)) \subseteq ErrorsOf(RunSuite(Merge(suites), s))
    <2>1. ASSUME NEW e \in ErrorsOf(RunSuite(Learn(p), s)) PROVE e \in ErrorsOf(RunSuite(Merge(suites), s))
      <3>1. Evaluate(e, s) = "broken" /\ e.severity = "error"
        BY LearnedErrors
      <3> QED BY <1>8, <3>1 DEF ErrorsOf, RunSuite
    <2> QED BY <2>1
  <1> QED BY <1>7, <1>9 DEF suites

\* Both exports have the one ancestor.
LEMMA ExportsAreRelated == 1 \in CommonAncestors(TwoExports, 2, 3)
  <1>1. ASSUME NEW d \in {2, 3} PROVE 1 \in Ancestors(TwoExports, d)
    <2> DEFINE first == [frontier |-> {d}, seen |-> << >>]
               next(w, n) == LET hit == Steps(TwoExports, w.frontier, FALSE)
                             IN  [frontier |-> hit \ (DOMAIN w.seen \cup {d}),
                                  seen |-> [x \in DOMAIN w.seen \cup hit |->
                                              IF x \in hit THEN HopCount(w.seen, x, n) ELSE w.seen[x]]]
               w1 == next(first, 1)
               w2 == next(w1, 2)
               w3 == next(w2, 3)
               g == [n \in 0 .. 3 |-> IF n = 0 THEN first ELSE IF n = 1 THEN w1 ELSE IF n = 2 THEN w2 ELSE w3]
               wave == CHOOSE h : h = [n \in 0 .. 3 |-> IF n = 0 THEN first ELSE next(h[n - 1], n)]
    <2>1. MaxDepth(TwoExports) = 3
      <3>1. Cardinality({1}) = 1 /\ IsFiniteSet({1}) /\ {1, 2} = {1} \cup {2} /\ {1, 2, 3} = {1, 2} \cup {3}
        BY FS_Singleton
      <3>2. IsFiniteSet({1, 2}) /\ Cardinality({1, 2}) = 2
        BY <3>1, FS_AddElement
      <3>3. Cardinality({1, 2, 3}) = 3
        BY <3>1, <3>2, FS_AddElement
      <3> QED BY <3>3 DEF MaxDepth, TwoExports
    <2>2. Ancestors(TwoExports, d) = DOMAIN wave[3].seen
      BY <2>1 DEF Ancestors, Walk
    <2>3. g = [n \in 0 .. 3 |-> IF n = 0 THEN first ELSE next(g[n - 1], n)]
      <3> HIDE DEF first, next
      <3>1. g[0] = first /\ g[1] = w1 /\ g[2] = w2 /\ g[3] = w3
        OBVIOUS
      <3>2. g[1] = next(g[0], 1) /\ g[2] = next(g[1], 2) /\ g[3] = next(g[2], 3)
        BY <3>1
      <3>3. \A n \in 0 .. 3 : g[n] = IF n = 0 THEN first ELSE next(g[n - 1], n)
        <4> HIDE DEF g
        <4>1. \A n \in 0 .. 3 : n = 0 \/ n = 1 \/ n = 2 \/ n = 3
          OBVIOUS
        <4>2. 1 - 1 = 0 /\ 2 - 1 = 1 /\ 3 - 1 = 2
          OBVIOUS
        <4> QED BY <3>1, <3>2, <4>1, <4>2
      <3>4. DOMAIN g = 0 .. 3 /\ g = [n \in DOMAIN g |-> g[n]]
        OBVIOUS
      <3> HIDE DEF g
      <3> QED BY <3>3, <3>4
    <2>4. wave = [n \in 0 .. 3 |-> IF n = 0 THEN first ELSE next(wave[n - 1], n)]
      <3> HIDE DEF first, next, g
      <3> QED BY <2>3
    <2>5. wave[0] = first /\ wave[1] = next(wave[0], 1) /\ wave[2] = next(wave[1], 2) /\ wave[3] = next(wave[2], 3)
      <3> HIDE DEF first, next, wave
      <3>1. 1 - 1 = 0 /\ 2 - 1 = 1 /\ 3 - 1 = 2
        OBVIOUS
      <3> QED BY <2>4, <3>1
    <2>6. 1 \in Steps(TwoExports, {d}, FALSE)
      <3>1. <<1, d, "sql">> \in InEdges(TwoExports, d)
        BY <1>1 DEF InEdges, TwoExports
      <3>2. 1 \in Parents(TwoExports, d)
        BY <3>1 DEF Parents
      <3> QED BY <3>2 DEF Steps
    <2> HIDE DEF wave
    <2>7. \A n \in 1 .. 3 : DOMAIN wave[n - 1].seen \subseteq DOMAIN wave[n].seen
      <3>1. \A w, n : DOMAIN w.seen \subseteq DOMAIN next(w, n).seen
        OBVIOUS
      <3> HIDE DEF next
      <3> QED BY <2>5, <3>1
    <2>8. 1 \in DOMAIN wave[1].seen
      <3>1. \A w, n : Steps(TwoExports, w.frontier, FALSE) \subseteq DOMAIN next(w, n).seen
        OBVIOUS
      <3>2. wave[0].frontier = {d}
        BY <2>5
      <3> HIDE DEF first, next
      <3> QED BY <2>5, <2>6, <3>1, <3>2
    <2>9. 1 \in DOMAIN wave[2].seen /\ 1 \in DOMAIN wave[3].seen
      BY <2>7, <2>8
    <2> QED BY <2>2, <2>9
  <1> QED BY <1>1 DEF CommonAncestors

\* Two exports that share a column are a risk when neither knows all that the other does.
LEMMA LinkedMeans ==
  ASSUME NEW p \in ProfileShapes, NEW s \in ProfileShapes
  PROVE  LinkageRisks(TwoExports, [x \in {2, 3} |-> IF x = 2 THEN p ELSE s]) # {} <=>
           /\ ColumnNames(p) \cap ColumnNames(s) # {}
           /\ ~(QuasiKindsOf(p) \subseteq QuasiKindsOf(s)) /\ ~(QuasiKindsOf(s) \subseteq QuasiKindsOf(p))
  <1> DEFINE both == [x \in {2, 3} |-> IF x = 2 THEN p ELSE s]
             a == QuasiKindsOf(p)
             b == QuasiKindsOf(s)
             Risk == /\ ColumnNames(p) \cap ColumnNames(s) # {} /\ a # {} /\ b # {}
                     /\ Cardinality(a \cup b) > Max({Cardinality(a), Cardinality(b)})
  <1>1. LinkageRisks(TwoExports, both) = {w \in {<<2, 3>>} : Risk}
    <2>1. both[2] = p /\ both[3] = s /\ DOMAIN both = {2, 3}
      OBVIOUS
    <2>2. CommonAncestors(TwoExports, 2, 3) # {}
      BY ExportsAreRelated
    <2>3. \A w \in {2, 3} \X {2, 3} : w[1] < w[2] <=> w = <<2, 3>>
      OBVIOUS
    <2> HIDE DEF both
    <2> QED BY <2>1, <2>2, <2>3 DEF LinkageRisks
  <1>2. IsFiniteSet(a) /\ IsFiniteSet(b) /\ IsFiniteSet(a \cup b)
    <2>1. a \in SUBSET QuasiKinds /\ b \in SUBSET QuasiKinds /\ a \cup b \in SUBSET QuasiKinds
      <3>1. \A u : QuasiKindsOf(u) \subseteq QuasiKinds
        BY DEF QuasiKindsOf
      <3> QED BY <3>1
    <2>2. IsFiniteSet(QuasiKinds)
      BY MonitorAssumption DEF MonitorAssumption
    <2> HIDE DEF a, b
    <2> QED BY <2>1, <2>2, FS_Subset
  <1>3. Cardinality(a) \in Int /\ Cardinality(b) \in Int /\ Cardinality(a \cup b) \in Int
    BY <1>2, FS_CardinalityType
  <1> HIDE DEF a, b
  <1>4. /\ Max({Cardinality(a), Cardinality(b)}) \in {Cardinality(a), Cardinality(b)}
        /\ Max({Cardinality(a), Cardinality(b)}) >= Cardinality(a)
        /\ Max({Cardinality(a), Cardinality(b)}) >= Cardinality(b)
    BY <1>3, ExtremesOfFew
  <1>5. /\ Cardinality(a \cup b) > Cardinality(a) <=> ~(b \subseteq a)
        /\ Cardinality(a \cup b) > Cardinality(b) <=> ~(a \subseteq b)
    <2>1. ASSUME NEW u, NEW v, IsFiniteSet(u), IsFiniteSet(v), Cardinality(u) \in Int, Cardinality(u \cup v) \in Int
          PROVE  Cardinality(u \cup v) > Cardinality(u) <=> ~(v \subseteq u)
      <3>1. CASE v \subseteq u
        <4>1. u \cup v = u
          BY <3>1
        <4> QED BY <2>1, <3>1, <4>1
      <3>2. CASE ~(v \subseteq u)
        <4>1. u \in SUBSET (u \cup v) /\ u # u \cup v /\ IsFiniteSet(u \cup v)
          BY <2>1, <3>2, FS_Union
        <4>2. Cardinality(u) < Cardinality(u \cup v)
          BY <2>1, <4>1, FS_Subset
        <4> QED BY <2>1, <3>2, <4>2
      <3> QED BY <3>1, <3>2
    <2>2. b \cup a = a \cup b
      OBVIOUS
    <2> QED BY <1>2, <1>3, <2>1, <2>2
  <1>6. Risk <=> ColumnNames(p) \cap ColumnNames(s) # {} /\ ~(a \subseteq b) /\ ~(b \subseteq a)
    BY <1>3, <1>4, <1>5
  <1> HIDE DEF Risk, both
  <1> QED BY <1>1, <1>6 DEF a, b, both

LEMMA JudgesFromInv == MonitorInv => JudgesAgree
  <1> SUFFICES ASSUME MonitorInv PROVE JudgesAgree
    OBVIOUS
  <1>1. shape \in ProfileShapes
    BY DEF MonitorInv, MonitorTypeOK
  <1>2. RunSuite(Learn(shape), shape).broken = {}
    BY <1>1, LearnedAccepts
  <1>3. ASSUME NEW s \in ProfileShapes
        PROVE  LET broken == SchemaBreaks(shape, s) # {}
                   findings == Drift(shape, s)
                   asserted == {Expect("null_rate_below", "a", Unknown, 0, {}, "error", FALSE)}
                   merged == Merge(<<Learn(shape), asserted>>)
               IN  /\ broken <=> IsBroken(findings)
                   /\ broken <=> ~Passed(RunSuite(Learn(shape), s))
                   /\ broken => Explained(shape, s) # {} /\ WorstSeverity(findings) = "error"
                   /\ Explained(shape, s) = {} => \A f \in findings : f.severity = "info"
                   /\ asserted \subseteq merged /\ ErrorsOf(RunSuite(Learn(shape), s)) \subseteq ErrorsOf(RunSuite(merged, s))
    <2>1. SchemaBreaks(shape, s) # {} <=> ~ShapeKept(shape, s)
      BY BreaksMean
    <2>2. IsBroken(Drift(shape, s)) <=> ~ShapeKept(shape, s)
      BY BrokenMeans
    <2>3. Passed(RunSuite(Learn(shape), s)) <=> ShapeKept(shape, s)
      BY LearnedErrors
    <2>4. SchemaBreaks(shape, s) # {} => Explained(shape, s) # {}
      BY DEF Explained
    <2>5. IsBroken(Drift(shape, s)) => WorstSeverity(Drift(shape, s)) = "error"
      BY DEF IsBroken, WorstSeverity
    <2>6. Explained(shape, s) = {} => \A f \in Drift(shape, s) : f.severity = "info"
      BY <1>1, UnexplainedIsInfo
    <2> QED BY <2>1, <2>2, <2>3, <2>4, <2>5, <2>6, MergedKeep
  <1>4. ASSUME NEW s \in ProfileShapes
        PROVE  LinkageRisks(TwoExports, [x \in {2, 3} |-> IF x = 2 THEN shape ELSE s]) # {} <=>
                 /\ ColumnNames(shape) \cap ColumnNames(s) # {}
                 /\ ~(QuasiKindsOf(shape) \subseteq QuasiKindsOf(s)) /\ ~(QuasiKindsOf(s) \subseteq QuasiKindsOf(shape))
    BY <1>1, LinkedMeans
  <1> QED BY <1>2, <1>3, <1>4 DEF JudgesAgree

-----------------------------------------------------------------------------
(***************************************************************************)
(* Seasons.                                                                *)
(***************************************************************************)
\* A profile says finitely many numbers.
LEMMA MetricsAre ==
  ASSUME NEW p \in ProfileShapes
  PROVE  IsFiniteSet(Metrics(p)) /\ \A v \in Metrics(p) : v[3] \in Int
  <1> DEFINE C == ColumnNames(p)
             col(c) == p.columns[c]
             Nulls == [c \in C |-> <<c, "null_rate", col(c).nulls>>]
             Many  == [c \in C |-> <<c, "distinct", col(c).distinct>>]
             Lows  == [c \in C |-> <<c, "min", col(c).low>>]
             Highs == [c \in C |-> <<c, "max", col(c).high>>]
             All(f) == {f[c] : c \in C}
  <1>1. /\ p.rows \in Nat /\ IsFiniteSet(C)
        /\ \A c \in C : /\ col(c).nulls \in {Unknown} \cup 0 .. 100 /\ col(c).distinct \in {Unknown} \cup Nat
                        /\ col(c).low \in Int /\ col(c).high \in Int
    BY MonitorAssumption DEF MonitorAssumption
  <1>2. \A c \in C : col(c).nulls \in Int /\ col(c).distinct \in Int /\ col(c).low \in Int /\ col(c).high \in Int
    BY <1>1 DEF Unknown
  <1>3. Metrics(p) \subseteq {<<"*", "row_count", p.rows>>} \cup All(Nulls) \cup All(Many) \cup All(Lows) \cup All(Highs)
    BY DEF Metrics
  <1>4. IsFiniteSet(All(Nulls)) /\ IsFiniteSet(All(Many)) /\ IsFiniteSet(All(Lows)) /\ IsFiniteSet(All(Highs))
    <2>1. DOMAIN Nulls = C /\ DOMAIN Many = C /\ DOMAIN Lows = C /\ DOMAIN Highs = C
      OBVIOUS
    <2> HIDE DEF Nulls, Many, Lows, Highs, C
    <2> QED BY <1>1, <2>1, ImageIsFinite
  <1>5. IsFiniteSet(Metrics(p))
    <2> HIDE DEF All, Nulls, Many, Lows, Highs
    <2> DEFINE few == {<<"*", "row_count", p.rows>>}
    <2>1. IsFiniteSet(few)
      BY FS_Singleton
    <2> HIDE DEF few
    <2>2. IsFiniteSet(few \cup All(Nulls) \cup All(Many) \cup All(Lows) \cup All(Highs))
      BY <1>4, <2>1, FS_Union
    <2> QED BY <1>3, <2>2, FS_Subset DEF few
  <1>6. ASSUME NEW v \in Metrics(p) PROVE v[3] \in Int
    <2>1. v[3] = p.rows \/ \E c \in C : v[3] \in {col(c).nulls, col(c).distinct, col(c).low, col(c).high}
      BY <1>3
    <2> QED BY <1>1, <1>2, <2>1
  <1> QED BY <1>5, <1>6

\* The observations of a bucket, and what they say of a metric.
SeenIn(h, b) == {i \in DOMAIN h : h[i].bucket = b}
Told(h, b, m) == {v[3] : v \in {w \in UNION {Metrics(h[i].profile) : i \in SeenIn(h, b)} : <<w[1], w[2]>> = m}}
Dated == [bucket : Buckets, profile : ProfileShapes]
DatedLogs == Seq(Dated)

LEMMA ToldIs ==
  ASSUME NEW h \in DatedLogs, NEW b, NEW m
  PROVE  /\ IsFiniteSet(Told(h, b, m)) /\ Told(h, b, m) \in SUBSET Int
         /\ \A i \in SeenIn(h, b) : \A v \in Metrics(h[i].profile) : <<v[1], v[2]>> = m => v[3] \in Told(h, b, m)
  <1> DEFINE I == SeenIn(h, b)
             sets == [i \in I |-> Metrics(h[i].profile)]
             all == UNION {sets[i] : i \in I}
             third == [w \in {x \in all : <<x[1], x[2]>> = m} |-> w[3]]
  <1>1. Len(h) \in Nat /\ DOMAIN h = 1 .. Len(h) /\ \A i \in DOMAIN h : h[i].profile \in ProfileShapes
    <2>1. Len(h) \in Nat /\ DOMAIN h = 1 .. Len(h)
      BY LenProperties DEF DatedLogs
    <2>2. \A i \in 1 .. Len(h) : h[i] \in Dated
      BY ElementOfSeq DEF DatedLogs
    <2> QED BY <2>1, <2>2 DEF Dated
  <1>2. IsFiniteSet(I)
    <2>1. IsFiniteSet(1 .. Len(h)) /\ I \in SUBSET (1 .. Len(h))
      BY <1>1, FS_Interval DEF SeenIn
    <2> QED BY <2>1, FS_Subset
  <1>3. \A i \in I : IsFiniteSet(sets[i]) /\ \A v \in sets[i] : v[3] \in Int
    BY <1>1, MetricsAre DEF SeenIn
  <1>4. IsFiniteSet(all)
    <2>1. DOMAIN sets = I
      OBVIOUS
    <2> HIDE DEF I, sets
    <2>2. IsFiniteSet({sets[i] : i \in I})
      BY <1>2, <2>1, ImageIsFinite
    <2>3. \A t \in {sets[i] : i \in I} : IsFiniteSet(t)
      BY <1>3
    <2> QED BY <2>2, <2>3, FS_UNION
  <1>5. Told(h, b, m) = {third[w] : w \in {x \in all : <<x[1], x[2]>> = m}}
    <2>1. all = UNION {Metrics(h[i].profile) : i \in SeenIn(h, b)}
      OBVIOUS
    <2> HIDE DEF all
    <2> QED BY <2>1 DEF Told
  <1>6. IsFiniteSet(Told(h, b, m))
    <2> DEFINE W == {x \in all : <<x[1], x[2]>> = m}
    <2>1. IsFiniteSet(W)
      <3>1. W \in SUBSET all
        OBVIOUS
      <3> HIDE DEF all, W
      <3> QED BY <1>4, <3>1, FS_Subset
    <2>2. DOMAIN third = W
      OBVIOUS
    <2>3. Told(h, b, m) = {third[w] : w \in W}
      BY <1>5
    <2> HIDE DEF W, third
    <2> QED BY <2>1, <2>2, <2>3, ImageIsFinite
  <1>7. \A w \in all : w[3] \in Int
    BY <1>3
  <1>8. Told(h, b, m) \in SUBSET Int
    <2> HIDE DEF all
    <2> QED BY <1>5, <1>7
  <1>9. ASSUME NEW i \in SeenIn(h, b), NEW v \in Metrics(h[i].profile), <<v[1], v[2]>> = m PROVE v[3] \in Told(h, b, m)
    BY <1>9 DEF Told
  <1> QED BY <1>6, <1>8, <1>9

\* Every band is of a bucket observed often enough, and around all that was seen there.
LEMMA BandsHold ==
  ASSUME NEW h \in DatedLogs, NEW band \in LearnSeasonal(h).bands
  PROVE  /\ Cardinality(SeenIn(h, band.bucket)) >= MinObservations
         /\ \A i \in SeenIn(h, band.bucket) : \A v \in Metrics(h[i].profile) :
              <<v[1], v[2]>> = band.metric => band.low <= v[3] /\ v[3] <= band.high
  <1> DEFINE usable == {b \in {h[i].bucket : i \in DOMAIN h} : Cardinality(SeenIn(h, b)) >= MinObservations}
             least(b, m) == Min(Told(h, b, m))
             most(b, m) == Max(Told(h, b, m))
             metrics(b) == {<<v[1], v[2]>> : v \in UNION {Metrics(h[i].profile) : i \in SeenIn(h, b)}}
  <1>1. PICK b \in usable : \E m \in metrics(b) :
          band = [bucket |-> b, metric |-> m, low |-> least(b, m) - Padded(least(b, m), most(b, m)),
                  high |-> most(b, m) + Padded(least(b, m), most(b, m))]
    BY DEF LearnSeasonal, SeenIn, Told
  <1>2. PICK m \in metrics(b) :
          band = [bucket |-> b, metric |-> m, low |-> least(b, m) - Padded(least(b, m), most(b, m)),
                  high |-> most(b, m) + Padded(least(b, m), most(b, m))]
    BY <1>1
  <1>3. Told(h, b, m) # {}
    BY <1>2 DEF Told
  <1>4. IsFiniteSet(Told(h, b, m)) /\ Told(h, b, m) \in SUBSET Int
    BY ToldIs
  <1>5. /\ least(b, m) \in Int /\ most(b, m) \in Int
        /\ \A n \in Told(h, b, m) : least(b, m) <= n /\ n <= most(b, m)
    BY <1>3, <1>4, Extremes
  <1> HIDE DEF least, most
  <1>6. Padded(least(b, m), most(b, m)) \in Int /\ Padded(least(b, m), most(b, m)) >= 0
    BY <1>5, PaddedIs
  <1>7. ASSUME NEW n \in Told(h, b, m) PROVE band.low <= n /\ n <= band.high
    BY <1>2, <1>4, <1>5, <1>6
  <1>8. ASSUME NEW i \in SeenIn(h, b), NEW v \in Metrics(h[i].profile), <<v[1], v[2]>> = m PROVE v[3] \in Told(h, b, m)
    BY <1>8, ToldIs
  <1> HIDE DEF metrics
  <1> QED BY <1>1, <1>2, <1>7, <1>8

LEMMA ObservationsAre == MonitorInv => Observations \in DatedLogs
  <1> SUFFICES ASSUME MonitorInv PROVE Observations \in DatedLogs
    OBVIOUS
  <1>1. dated \in DatedLogs /\ Len(dated) \in Nat /\ HistoryLimit \in Nat
    BY MonitorAssumption, LenProperties DEF MonitorInv, MonitorTypeOK, DatedLogs, Dated, MonitorAssumption
  <1>2. Min({HistoryLimit, Len(dated)}) \in Int /\ Min({HistoryLimit, Len(dated)}) <= Len(dated)
    <2>1. HistoryLimit \in Int /\ Len(dated) \in Int
      BY <1>1
    <2>2. Min({HistoryLimit, Len(dated)}) \in {HistoryLimit, Len(dated)} /\ Min({HistoryLimit, Len(dated)}) <= Len(dated)
      BY <2>1, ExtremesOfFew
    <2> QED BY <2>1, <2>2
  <1> DEFINE n == Min({HistoryLimit, Len(dated)})
  <1>3. n \in Int /\ n <= Len(dated)
    BY <1>2
  <1> HIDE DEF n
  <1>4. \A i \in 1 .. n : dated[i] \in Dated
    <2>1. \A i \in 1 .. Len(dated) : dated[i] \in Dated
      BY <1>1, ElementOfSeq DEF DatedLogs
    <2> QED BY <1>1, <1>3, <2>1
  <1>5. SubSeq(dated, 1, n) \in DatedLogs
    BY <1>3, <1>4, SubSeqProperties DEF DatedLogs
  <1> QED BY <1>5 DEF Observations, n

LEMMA SeasonsFromInv == MonitorInv => SeasonsAreJudgedByTheirOwn
  <1> SUFFICES ASSUME MonitorInv PROVE SeasonsAreJudgedByTheirOwn
    OBVIOUS
  <1> DEFINE H == Observations
             B == LearnSeasonal(H)
  <1>1. H \in DatedLogs
    BY ObservationsAre
  <1>2. ASSUME NEW o, NEW v \in CheckSeasonal(o, B)
        PROVE  v \in Metrics(o.profile) /\ \E band \in B.bands :
                 band.bucket = o.bucket /\ band.metric = <<v[1], v[2]>> /\ ~(band.low <= v[3] /\ v[3] <= band.high)
    BY <1>2 DEF CheckSeasonal
  <1>3. ASSUME NEW i \in DOMAIN H, NEW v \in CheckSeasonal(H[i], B) PROVE FALSE
    <2> HIDE DEF B, H
    <2>1. v \in Metrics(H[i].profile)
      BY <1>2, <1>3
    <2>2. PICK band \in B.bands :
            band.bucket = H[i].bucket /\ band.metric = <<v[1], v[2]>> /\ ~(band.low <= v[3] /\ v[3] <= band.high)
      BY <1>2, <1>3
    <2>3. i \in SeenIn(H, band.bucket)
      BY <2>2 DEF SeenIn
    <2> QED BY <1>1, <2>1, <2>2, <2>3, BandsHold DEF B
  <1>4. ASSUME NEW b \in Buckets, NEW p \in ProfileShapes
        PROVE  LET seen == {i \in DOMAIN H : H[i].bucket = b}
                   accused == CheckSeasonal([bucket |-> b, profile |-> p], B)
               IN  /\ accused # {} => Cardinality(seen) >= MinObservations
                   /\ \A v \in accused, i \in seen : v \notin Metrics(H[i].profile)
    <2> DEFINE o == [bucket |-> b, profile |-> p]
    <2>1. ASSUME NEW v \in CheckSeasonal(o, B)
          PROVE  /\ Cardinality(SeenIn(H, b)) >= MinObservations
                 /\ \A i \in SeenIn(H, b) : v \notin Metrics(H[i].profile)
      <3> HIDE DEF B, H
      <3>1. PICK band \in B.bands :
              band.bucket = b /\ band.metric = <<v[1], v[2]>> /\ ~(band.low <= v[3] /\ v[3] <= band.high)
        BY <1>2, <2>1
      <3> QED BY <1>1, <3>1, BandsHold DEF B
    <2> HIDE DEF B, H
    <2> QED BY <2>1 DEF SeenIn
  <1>5. \A i \in DOMAIN H : CheckSeasonal(H[i], B) = {}
    <2> HIDE DEF H, B
    <2> QED BY <1>3
  <1> QED BY <1>4, <1>5 DEF SeasonsAreJudgedByTheirOwn

-----------------------------------------------------------------------------
LEMMA MonitorHolds == GovernanceSpec => [](desk \in {"profiles", "seasons"} => MonitorInv)
  <1> DEFINE Holds == desk \in {"profiles", "seasons"} => MonitorInv
  <1>1. GovernanceInit => Holds
    BY MonitorInvInit DEF GovernanceInit
  <1>2. Holds /\ [GovernanceNext]_governanceVars => Holds'
    <2>1. SUFFICES ASSUME Holds, [GovernanceNext]_governanceVars, desk' \in {"profiles", "seasons"} PROVE MonitorInv'
      OBVIOUS
    <2>2. desk \in {"profiles", "seasons"}
      BY <2>1 DEF GovernanceNext, governanceVars
    <2>3. MonitorNext \/ SeasonsNext \/ UNCHANGED monitorVars
      BY <2>1, <2>2 DEF GovernanceNext, governanceVars
    <2> QED BY <2>1, <2>2, <2>3, MonitorInvNext
  <1> HIDE DEF Holds
  <1> QED BY <1>1, <1>2, PTL DEF GovernanceSpec, Holds

\* What was attested stays true, whatever is erased, shredded, copied or lapses: an entry
\* of an erasure proof (govern/erasure.py), a complete shred (govern/access/keys.py), and
\* a copy that is gone (govern/replicas.py).
THEOREM EvidenceIsKept == GovernanceSpec => []EvidenceStaysTrue
  <1>1. ErasureInv /\ KeysInv /\ CopiesInv => EvidenceStaysTrue
    BY CleanMeansTrue, ClosedCopiesFromInv DEF ErasureInv, KeysInv, EvidenceStaysTrue
  <1> QED BY <1>1, ErasureHolds, KeysHold, CopiesHold, PTL

\* A proposal is approved only when those it takes agreed, as distinct people, after every
\* rejection (govern/approvals.py), and a log that verifies holds what was written, in its
\* order, the end excepted (govern/access/audit.py).
THEOREM RecordsAreKept == GovernanceSpec => []DecisionsAreOnRecord
  <1>1. ApprovalsInv /\ AuditInv => DecisionsAreOnRecord
    BY AgreedFromInv, CleanFromInv DEF DecisionsAreOnRecord
  <1> QED BY <1>1, ApprovalsHold, AuditHolds, PTL

\* The views of a tenant boundary agree (govern/access/tenancy.py), and the walk over the
\* roles, in at most as many rounds as there are roles and whatever cycles they have,
\* decides as the inherited roles do (govern/access/rbac.py).
THEOREM AccessIsDecided == GovernanceSpec => []AccessIsBounded
  <1>1. RbacInv => AccessIsBounded
    BY BoundariesFromInv, DecisionsFromInv DEF AccessIsBounded
  <1> QED BY <1>1, RbacHolds, PTL

\* Propagation: once a round changes nothing, every place a way leads to carries the label
\* as strongly as the best way brings it, whatever the graph and its cycles; and a run of
\* fathom label that no other writer came between leaves in the store what the profiles say,
\* with nothing marked as confirmed that nobody confirmed (govern/policy.py, cli/project.py).
THEOREM LabelsAreKept == GovernanceSpec => []NothingSensitiveIsLost
  <1>1. LabelsInv => NothingSensitiveIsLost
    BY ArrivalsFromInv, TagsFromInv DEF LabelsInv, NothingSensitiveIsLost
  <1> QED BY <1>1, LabelsHold, PTL

\* The ways of asking whether a change breaks something agree (observe/profile.py, schema.py,
\* quality.py, regression.py, govern/contracts.py, reidentification.py), a baseline that only checks that passed
\* replaced keeps its columns and types, and a season is judged by its own observations (seasonal.py).
THEOREM ProfilesAgree == GovernanceSpec => []ProfilesJudgeAlike
  <1>1. (desk \in {"profiles", "seasons"} => MonitorInv) => ProfilesJudgeAlike
    BY JudgesFromInv, ShapesFromInv, SeasonsFromInv DEF ProfilesJudgeAlike
  <1> QED BY <1>1, MonitorHolds, PTL

\* No step undoes a decision: a verdict, the breaks of a log nobody repaired, a confirmed
\* label, the end of a grant; and tightening opens nothing.
THEOREM DecisionsAreKept == GovernanceSpec => WhatWasDecidedStands
  <1> DEFINE Inv == ApprovalsInv /\ AuditInv /\ TenancyInv /\ RbacInv
             Stands == /\ desk = "approvals" => VerdictStands
                       /\ desk = "audit" => BreaksStay
                       /\ desk = "labelling" => LabelDecisionsStand
                       /\ desk = "tenancy" => NobodySeesMoreUnnamed
                       /\ desk = "rbac" => TighteningCloses
  <1>1. Inv /\ Inv' /\ GovernanceNext => Stands
    <2> SUFFICES ASSUME Inv, Inv', GovernanceNext PROVE Stands
      OBVIOUS
    <2>1. desk = "approvals" => VerdictStands
      BY VerdictStandsNext DEF GovernanceNext
    <2>2. desk = "audit" => BreaksStay
      BY BreaksStayNext DEF GovernanceNext
    <2>3. desk = "labelling" => LabelDecisionsStand
      BY LabelDecisionsNext DEF GovernanceNext
    <2>4. desk = "tenancy" => NobodySeesMoreUnnamed
      BY NobodySeesMore DEF GovernanceNext
    <2>5. desk = "rbac" => TighteningCloses
      BY TighteningNext DEF GovernanceNext
    <2> QED BY <2>1, <2>2, <2>3, <2>4, <2>5
  <1>2. GovernanceSpec => []Inv
    BY ApprovalsHold, AuditHolds, TenancyHolds, RbacHolds, PTL
  <1>3. GovernanceSpec => [][GovernanceNext]_governanceVars
    BY PTL DEF GovernanceSpec
  <1>4. GovernanceSpec => [][Stands]_governanceVars
    <2> HIDE DEF Inv, Stands
    <2> QED BY <1>1, <1>2, <1>3, PTL
  <1> QED BY <1>4, PTL DEF WhatWasDecidedStands
=============================================================================
