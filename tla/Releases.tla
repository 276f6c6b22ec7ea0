------------------------------ MODULE Releases ------------------------------
(***************************************************************************)
(* From a model to its users: ai/serve/deployments.py, ai/prompts.py,      *)
(* ai/quality/safety.py.                                                   *)
(***************************************************************************)
EXTENDS Integers, Sequences, FiniteSets, FiniteSetsExt, SequencesExt, Functions

(***************************************************************************)
(* What stands between a model and its users: the deployments of           *)
(* ai/serve/deployments.py and the prompt histories of ai/prompts.py.      *)
(* Traffic is counted in millionths, the six places the code rounds to.    *)
(* The code plans a rollout and promotes; taking a step of the plan, and   *)
(* collecting an artefact, is what its users do between the calls.         *)
(***************************************************************************)

CONSTANTS VariantNames, RolloutSteps, Strategies, Tolerance, MaxMoves,
          PromptTexts, VariablesOf, Variables, LastMoment, MaxVersions

VARIABLES variants,        \* name -> [state, weight, retained]
          strategy,
          rollout,         \* the splits of the plan being followed
          moves,
          versions,        \* of a prompt: [digest, created, author]
          bound,           \* variables bound to a dataset
          today

deploymentVars == <<variants, strategy, rollout, moves>>
promptVars     == <<versions, bound, today>>
servingVars    == <<deploymentVars, promptVars>>

All == 1000000

\* A step leaves each other variant something to round, or nothing: so do the code's own steps
\* for up to half a million variants.
ASSUME RolloutAssumption ==
  /\ IsFiniteSet(VariantNames)
  /\ RolloutSteps \in Seq(1 .. All)
  /\ \A i \in DOMAIN RolloutSteps : \/ RolloutSteps[i] = All
                                    \/ All - RolloutSteps[i] >= Cardinality(VariantNames)

-----------------------------------------------------------------------------
ServesTraffic(v)   == v.state \in {"canary", "live", "draining"}
ActiveVariants(vs) == {n \in DOMAIN vs : ServesTraffic(vs[n])}
TrafficTo(vs, n)   == IF n \in ActiveVariants(vs) THEN vs[n].weight ELSE 0
Routed(vs)         == FoldFunctionOnSet(LAMBDA a, b : a + b, 0, [n \in DOMAIN vs |-> vs[n].weight], ActiveVariants(vs))
Magnitude(n)       == IF n < 0 THEN -n ELSE n

ValidateSplit(vs, how) ==
  IF ActiveVariants(vs) = {} THEN {"nothing serves"}
  ELSE (IF Magnitude(Routed(vs) - All) > Tolerance THEN {"unrouted or double-counted"} ELSE {})
         \cup {"negative" : n \in {x \in ActiveVariants(vs) : vs[x].weight < 0}}
         \cup (IF how = "blue_green" /\ Cardinality({n \in DOMAIN vs : vs[n].state = "live"}) > 1
               THEN {"two live"} ELSE {})

DeploymentEdges(vs) == ActiveVariants(vs)

\* round(x / n, 6) of an integer number of millionths: half to even.
Rounded(x, n) ==
  LET q == x \div n  r == x % n
  IN  IF 2 * r > n \/ (2 * r = n /\ q % 2 = 1) THEN q + 1 ELSE q

\* rollout_plan: each step is a whole split; the others share what is left.
RolloutPlan(vs, n) ==
  LET others == ActiveVariants(vs) \ {n}
      split(share) == [x \in {n} \cup others |->
                         IF x = n THEN share ELSE Rounded(All - share, Cardinality(others))]
  IN  [i \in DOMAIN RolloutSteps |-> split(RolloutSteps[i])]

\* Mutant: what was serving keeps its share while it drains.
PromotedKeepingShares(vs, n) ==
  [x \in DOMAIN vs |->
     CASE x = n -> [vs[x] EXCEPT !.state = "live", !.weight = All]
       [] x # n /\ ServesTraffic(vs[x]) -> [vs[x] EXCEPT !.state = "draining"]
       [] OTHER -> vs[x]]

Promoted(vs, n) ==
  [x \in DOMAIN vs |->
     CASE x = n -> [vs[x] EXCEPT !.state = "live", !.weight = All]
       [] x # n /\ ServesTraffic(vs[x]) -> [vs[x] EXCEPT !.state = "draining", !.weight = 0]
       [] OTHER -> vs[x]]

CanRollback(vs, n) == n \in DOMAIN vs /\ vs[n].retained

\* regression_report: capabilities [before, after, samples], in points; the aggregate is
\* weighted by the samples, one when none is recorded.
Collapsed(results, threshold) ==
  {c \in DOMAIN results :
     results[c].before # 0 /\
     100 * (results[c].after - results[c].before) < -(threshold * Magnitude(results[c].before))}
AggregateDelta(results) ==
  LET counted(c) == Max({results[c].samples, 1})
      weighted(c) == (results[c].after - results[c].before) * counted(c)
  IN  FoldSet(LAMBDA c, n : n + weighted(c), 0, DOMAIN results)
        \div Max({1, FoldSet(LAMBDA c, n : n + counted(c), 0, DOMAIN results)})
IsSafe(results, threshold) == Collapsed(results, threshold) = {}

-----------------------------------------------------------------------------
DeploymentsInit ==
  /\ variants = << >> /\ strategy \in Strategies /\ rollout = << >> /\ moves = 0

Moved == moves < MaxMoves /\ moves' = moves + 1 /\ UNCHANGED strategy

AddVariant == \E n \in VariantNames \ DOMAIN variants :
  /\ Moved
  /\ variants' = [x \in DOMAIN variants \cup {n} |->
                    IF x = n THEN [state |-> "pending", weight |-> 0, retained |-> TRUE] ELSE variants[x]]
  /\ rollout' = << >>

PlanRollout == \E n \in DOMAIN variants :
  /\ Moved
  /\ rollout' = RolloutPlan(variants, n) /\ UNCHANGED variants

\* A step of the plan: the splits' weights are set, and what was not serving is a canary.
TakeStep ==
  /\ Moved /\ rollout # << >>
  /\ variants' = [x \in DOMAIN variants |->
                    IF x \notin DOMAIN Head(rollout) THEN variants[x]
                    ELSE [variants[x] EXCEPT !.weight = Head(rollout)[x],
                            !.state = IF ServesTraffic(variants[x]) THEN @ ELSE "canary"]]
  /\ rollout' = Tail(rollout)

Promote == \E n \in DOMAIN variants :
  /\ Moved /\ variants' = Promoted(variants, n) /\ rollout' = << >>

Rollback == \E n \in VariantNames :
  /\ Moved /\ CanRollback(variants, n)
  /\ variants' = Promoted(variants, n) /\ rollout' = << >>

\* Outside the code: a variant that serves nobody is retired, and its artefact collected.
Retire == \E n \in DOMAIN variants :
  /\ Moved /\ TrafficTo(variants, n) = 0 /\ rollout = << >>
  /\ \E kept \in BOOLEAN :
       variants' = [variants EXCEPT ![n].state = "retired", ![n].weight = 0, ![n].retained = @ /\ kept]
  /\ UNCHANGED rollout

DeploymentsNext == AddVariant \/ PlanRollout \/ TakeStep \/ Promote \/ Rollback \/ Retire

-----------------------------------------------------------------------------
\* prompts.py.  A digest stands for its text.
Current(vs)     == Last(vs)
Digests(vs)     == {vs[i].digest : i \in DOMAIN vs}
VersionAt(vs, t) ==
  LET eligible == {i \in DOMAIN vs : vs[i].created <= t}
  IN  IF eligible = {} THEN << >> ELSE <<vs[Max(eligible)]>>
Drifted(vs, digest) == vs # << >> /\ Current(vs).digest # digest
UnboundVariables(vs, b) == IF vs = << >> THEN {} ELSE VariablesOf[Current(vs).digest] \ b
ChangedVariables(before, after) ==
  [added |-> VariablesOf[after] \ VariablesOf[before], removed |-> VariablesOf[before] \ VariablesOf[after]]
PromptHistory(vs) == [i \in DOMAIN vs |-> <<vs[i].digest, vs[i].created>>]

PromptsInit == versions = << >> /\ bound = {} /\ today = 0

Version(text, who) == [digest |-> text, created |-> today, author |-> who]

\* commit: a text that any version has already is not recorded again.
Commit == \E t \in PromptTexts :
  /\ Len(versions) < MaxVersions
  /\ versions' = IF t \in Digests(versions) THEN versions ELSE Append(versions, Version(t, "author"))
  /\ UNCHANGED <<bound, today>>

\* Mutant: restoring a version truncates the history to it.
RollbackTruncating == \E t \in Digests(versions) :
  /\ versions' = SubSeq(versions, 1, CHOOSE i \in DOMAIN versions : versions[i].digest = t)
  /\ UNCHANGED <<bound, today>>

RollbackPrompt == \E t \in Digests(versions) :
  /\ Len(versions) < MaxVersions
  /\ versions' = Append(versions, Version(t, "rollback"))
  /\ UNCHANGED <<bound, today>>

Bind == \E x \in Variables : bound' = bound \cup {x} /\ UNCHANGED <<versions, today>>

NextDay == today < LastMoment /\ today' = today + 1 /\ UNCHANGED <<versions, bound>>

PromptsNext == Commit \/ RollbackPrompt \/ Bind \/ NextDay

-----------------------------------------------------------------------------
\* However a deployment is rolled out, halted midway, promoted, rolled back and retired,
\* what its users ask is routed: the shares of two variants and more that serve add up to
\* the whole, but for half a millionth for each, and one that was promoted takes it all.
TrafficIsRouted ==
  LET serving == ActiveVariants(variants)
  IN  /\ Cardinality(serving) > 1 => 2 * Magnitude(Routed(variants) - All) <= Cardinality(serving)
      /\ ValidateSplit(variants, strategy) \cap {"negative", "two live"} = {}

\* What a prompt was on an earlier day stays the answer, whatever is committed, restored or
\* bound later; what was restored is current, and stays in the history it came from.
PastAnswersKept ==
  /\ \A t \in 0 .. today - 1 : VersionAt(versions', t) = VersionAt(versions, t)
  /\ versions # << >> /\ Drifted(versions', Current(versions).digest)
       => Len(PromptHistory(versions')) > Len(PromptHistory(versions))

-----------------------------------------------------------------------------
(***************************************************************************)
(* Red-team findings and the probes that keep them fixed,                  *)
(* ai/quality/safety.py: a finding is guarded by a probe of the suite and  *)
(* closed; the suite is run against one model after another, and a run is  *)
(* compared with the one before.                                           *)
(***************************************************************************)

CONSTANTS Findings, Benign,      \* the probes are one per finding and the benign ones
          NoProbe, MaxReleases

ASSUME SafetyAssumption == NoProbe \notin Findings /\ Findings \cap Benign = {} /\ IsFiniteSet(Benign)

VARIABLES findings,    \* finding -> [state, probe]
          suite,       \* the probes, in the order they were added
          results,     \* of the last run: probe -> refused
          baseline,    \* of the run before it
          releases,
          forced       \* findings somebody closed with force=True and no probe

safetyVars == <<findings, suite, results, baseline, releases, forced>>

IsClosed(state) == state \in {"fixed", "accepted"}
IsClosedUnguarded(f) == IsClosed(f.state) /\ f.probe = NoProbe
Unguarded(fs) == {f \in DOMAIN fs : IsClosedUnguarded(fs[f])}

\* A probe made from a finding expects a refusal; a benign one expects none.
ExpectedRefusal(probe) == probe \notin Benign
PassedIn(run, probe)   == run[probe] = ExpectedRefusal(probe)

UnderRefusals(run) == {p \in DOMAIN run : ~run[p] /\ ExpectedRefusal(p)}
OverRefusals(run)  == {p \in DOMAIN run : run[p] /\ ~ExpectedRefusal(p)}
RefusalReport(run) ==
  [total |-> Cardinality(DOMAIN run), under |-> UnderRefusals(run), over |-> OverRefusals(run),
   passed |-> Cardinality(DOMAIN run) - Cardinality(UnderRefusals(run)) - Cardinality(OverRefusals(run))]
IsMeasurable(run) ==
  \E p \in UnderRefusals(run) \cup OverRefusals(run) : ~ExpectedRefusal(p)
MissingFrom(run, probes) == Range(probes) \ DOMAIN run          \* of grade

\* regressions: a failing probe the baseline does not know is "still failing".
Regressed(run, before) ==
  {p \in DOMAIN run \cap DOMAIN before : ~PassedIn(run, p) /\ PassedIn(before, p)}
Fixed(run, before) ==
  {p \in DOMAIN run \cap DOMAIN before : PassedIn(run, p) /\ ~PassedIn(before, p)}
StillFailing(run, before) ==
  {p \in DOMAIN run : ~PassedIn(run, p) /\ (p \in DOMAIN before => ~PassedIn(before, p))}
RegressionsClean(run, before) == Regressed(run, before) = {}

-----------------------------------------------------------------------------
SafetyInit ==
  /\ findings = << >> /\ suite \in {SetToSeq(b) : b \in SUBSET Benign}
  /\ results = << >> /\ baseline = << >> /\ releases = 0 /\ forced = {}

NoRelease == UNCHANGED <<results, baseline, releases>>

ReportFinding == \E f \in Findings \ DOMAIN findings :
  /\ findings' = [g \in DOMAIN findings \cup {f} |->
                    IF g = f THEN [state |-> "open", probe |-> NoProbe] ELSE findings[g]]
  /\ UNCHANGED <<suite, forced>> /\ NoRelease

\* guard refuses a second probe; the probe's name is the finding's.
Guard == \E f \in DOMAIN findings :
  /\ findings[f].probe = NoProbe
  /\ findings' = [findings EXCEPT ![f].probe = f] /\ suite' = Append(suite, f)
  /\ UNCHANGED forced /\ NoRelease

MayClose(f, force) == f.probe # NoProbe \/ force

CloseFinding == \E f \in DOMAIN findings, state \in {"fixed", "accepted"}, force \in BOOLEAN :
  /\ MayClose(findings[f], force)
  /\ findings' = [findings EXCEPT ![f].state = state]
  /\ forced' = IF force /\ findings[f].probe = NoProbe THEN forced \cup {f} ELSE forced
  /\ UNCHANGED suite /\ NoRelease

\* Outside the code: the suite, or a part of it, is run against the next model.
RunSuite == \E ran \in SUBSET Range(suite) : \E refused \in [ran -> BOOLEAN] :
  /\ releases < MaxReleases /\ releases' = releases + 1
  /\ baseline' = results /\ results' = refused
  /\ UNCHANGED <<findings, suite, forced>>

SafetyNext == ReportFinding \/ Guard \/ CloseFinding \/ RunSuite

-----------------------------------------------------------------------------
\* A finding that was closed and comes back is told, whichever runs went before: unless it
\* was closed by force and never guarded (and then it is listed so), its probe is in the
\* suite, and a run of the whole suite in which it fails reports it, as a regression if it
\* passed the time before.  The refusal report counts every probe once.
RecurrenceIsTold ==
  /\ Unguarded(findings) = {f \in forced : findings[f].probe = NoProbe}
  /\ \A f \in {g \in DOMAIN findings : IsClosed(findings[g].state)} \ Unguarded(findings) :
       /\ f \in Range(suite)
       /\ f \in DOMAIN results /\ ~results[f] =>
            /\ f \in Regressed(results, baseline) \cup StillFailing(results, baseline)
            /\ f \in DOMAIN baseline /\ baseline[f] => ~RegressionsClean(results, baseline)
       /\ f \notin DOMAIN results => f \in MissingFrom(results, suite)
  /\ LET r == RefusalReport(results)
     IN  r.passed = Cardinality({p \in DOMAIN results : PassedIn(results, p)})

\* What the report says when is_measurable is false (safety.py:317): "No benign probes were
\* run".
UnmeasuredMeansNotRun ==
  DOMAIN results # {} /\ ~IsMeasurable(results) => DOMAIN results \cap Benign = {}
=============================================================================
