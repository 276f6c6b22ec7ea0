------------------------------- MODULE Shadow -------------------------------
(***************************************************************************)
(* observe/shadow.py: a plan is graded against what a full rebuild really  *)
(* changes.  The datasets asked about are rebuilt one after the other, in  *)
(* the order given, with fingerprints taken before and after each, while   *)
(* the source may be written to.  Dataset d is built, partition by         *)
(* partition, from dataset d - 1; 0 is the source.                         *)
(***************************************************************************)
EXTENDS Integers, Sequences, FiniteSets, SequencesExt, Functions

CONSTANTS Rebuilt,          \* 1 .. n
          ShadowParts, Contents, Absent,
          Orders, MaxWrites

ASSUME ShadowAssumption ==
  /\ IsFiniteSet(Rebuilt) /\ Rebuilt = 1 .. Cardinality(Rebuilt)
  /\ IsFiniteSet(ShadowParts) /\ Absent \notin Contents
  /\ \A order \in Orders : order \in Seq(Rebuilt)

VARIABLES content,          \* dataset -> partition -> content, Absent when there is none
          planned, remaining,   \* the plan graded, the datasets still to grade
          before, stage,    \* fingerprints taken of the first of them
          results,          \* ShadowResults
          start, disturbed  \* history: contents when the run began; whether a write came in
shadowVars == <<content, planned, remaining, before, stage, results, start, disturbed>>

ShadowInit ==
  /\ content \in {c \in [Rebuilt \cup {0} -> [ShadowParts -> Contents \cup {Absent}]] :
                    \A d \in Rebuilt, p \in ShadowParts : c[d][p] = Absent \/ c[0][p] # Absent}
  /\ planned \in [Rebuilt -> SUBSET ShadowParts]
  /\ remaining \in Orders
  /\ before = << >> /\ stage = "before" /\ results = << >>
  /\ start = content /\ disturbed = 0

\* compare: partial functions of the partitions that exist.
Fingerprints(d) == [p \in {x \in ShadowParts : content[d][x] # Absent} |-> content[d][p]]
SeenParts(b, a)  == DOMAIN b \cup DOMAIN a
Touched(b, a)    == {p \in SeenParts(b, a) : p \notin DOMAIN b \/ p \notin DOMAIN a \/ b[p] # a[p]}
Compare(d, actual, total) ==
  [dataset |-> d, planned |-> planned[d], actual |-> actual, missed |-> actual \ planned[d],
   wasted |-> planned[d] \ actual, total |-> total]
IsSound(r) == r.missed = {}

\* regression.compare_outputs over the same fingerprints: what somebody accepted is set
\* apart, and too little in common concludes nothing.
RegressionOf(b, a, intended) ==
  LET shared == DOMAIN b \cap DOMAIN a  differing == {p \in shared : b[p] # a[p]}
  IN  [changed |-> differing \ intended, accepted |-> differing \cap intended,
       gone |-> DOMAIN b \ DOMAIN a, new |-> DOMAIN a \ DOMAIN b,
       compared |-> Cardinality(shared), expected |-> Cardinality(DOMAIN b \cup DOMAIN a)]
IsConclusive(r) == r.compared > 0 /\ 2 * r.compared >= r.expected
IsRegression(r) == r.changed \cup r.gone \cup r.new # {}
IsClean(r)      == IsConclusive(r) /\ ~IsRegression(r)
TakeBefore ==
  /\ remaining # << >> /\ stage = "before"
  /\ before' = Fingerprints(Head(remaining)) /\ stage' = "rebuild"
  /\ UNCHANGED <<content, planned, remaining, results, start, disturbed>>
FullRebuild ==
  /\ stage = "rebuild"
  /\ content' = [content EXCEPT ![Head(remaining)] = content[Head(remaining) - 1]] /\ stage' = "after"
  /\ UNCHANGED <<planned, remaining, before, results, start, disturbed>>
TakeAfter ==
  /\ stage = "after"
  /\ LET d == Head(remaining)  after == Fingerprints(d) IN
       results' = Append(results, Compare(d, Touched(before, after), Cardinality(SeenParts(before, after))))
  /\ remaining' = Tail(remaining) /\ before' = << >> /\ stage' = "before"
  /\ UNCHANGED <<content, planned, start, disturbed>>

\* Somebody writes to the source meanwhile.
WriteSource(p, c) ==
  /\ remaining # << >> /\ disturbed < MaxWrites /\ content[0][p] # c
  /\ content' = [content EXCEPT ![0][p] = c]
  /\ disturbed' = disturbed + 1
  /\ UNCHANGED <<planned, remaining, before, stage, results, start>>

ShadowNext == TakeBefore \/ FullRebuild \/ TakeAfter \/ \E p \in ShadowParts, c \in Contents : WriteSource(p, c)

\* shadow_summary's totals.
Totals == [missed  |-> FoldLeft(LAMBDA n, r : n + Cardinality(r.missed), 0, results),
           planned |-> FoldLeft(LAMBDA n, r : n + Cardinality(r.planned), 0, results),
           total   |-> FoldLeft(LAMBDA n, r : n + r.total, 0, results)]

-----------------------------------------------------------------------------
Covers2(rs) == {rs[i].dataset : i \in DOMAIN rs} = Rebuilt
InputsFirst2(rs) == \A i \in DOMAIN rs : \A j \in i + 1 .. Len(rs) : rs[i].dataset < rs[j].dataset

\* A report that says SOUND of every dataset (the totals then say that nothing was missed), graded inputs first while nobody wrote to
\* the source, is proof about the plan: each partition it leaves out was already what a
\* full rebuild makes of it.  (Graded in another order, a dataset is rebuilt from inputs
\* that are still old, and a plan that misses it is called sound.)
SoundMeansThePlanSufficed ==
  /\ (Totals.missed = 0) <=> \A i \in DOMAIN results : IsSound(results[i])
  /\ remaining = << >> /\ Covers2(results) /\ InputsFirst2(results) /\ disturbed = 0 =>
    ((\A i \in DOMAIN results : IsSound(results[i])) <=>
       \A d \in Rebuilt : \A p \in ShadowParts \ planned[d] : start[d][p] = start[0][p])

\* While a dataset is graded, the grade and a regression report on its two builds agree: a
\* report that is clean once the planned partitions are accepted means the plan missed
\* nothing, and nothing is both lost and changed.
GradesAgreeWithRegressions ==
  stage = "after" =>
    LET d == Head(remaining)  a == Fingerprints(d)  r == RegressionOf(before, a, {})
    IN  /\ Touched(before, a) = r.changed \cup r.gone \cup r.new
        /\ IsClean(RegressionOf(before, a, planned[d])) => Touched(before, a) \subseteq planned[d]
        /\ IsRegression(r) <=> Touched(before, a) # {}
=============================================================================
