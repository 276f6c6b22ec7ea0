------------------------------ MODULE MCGraph -------------------------------
(***************************************************************************)
(* Users of the lineage graph, and what observes datasets beside it, each  *)
(* checked in the behaviours in which it alone acts: they share the        *)
(* queries and no state.  Small pipelines, symptoms, findings and sources  *)
(* come first, the composition after them.                                 *)
(***************************************************************************)
EXTENDS Reports, Observations, Publications, Restrictions, Costs

MCFindings ==
  {[finding |-> "drift", severity |-> 1], [finding |-> "breach", severity |-> 2],
   [finding |-> "drift", severity |-> 3]}
MCRoutes == {[channel |-> "slack", min |-> 1, about |-> {}], [channel |-> "pager", min |-> 3, about |-> {"breach"}]}

MCNoInstant == -5
Symptom(d, severity, started, detected) ==
  [check |-> "freshness", dataset |-> d, severity |-> severity, started |-> started, detected |-> detected]
MCSymptoms ==
  {Symptom(1, 3, 0, 1), Symptom(2, 1, MCNoInstant, 1), Symptom(3, 2, 0, 2),
   Symptom(4, 1, 1, MCNoInstant), Symptom(4, 1, 2, 4), Symptom(3, 1, 3, 4)}
MCAbove == <<{}, {1}, {1, 2}, {1, 2}>>

\* A chain with a copy, a join, and a feedback loop.
PipelineOf(n, arrows) ==
  [nodes |-> 1 .. n, edges |-> {<<a[1], a[2], "sql">> : a \in arrows}, spec |-> [d \in 1 .. n |-> UNPARTITIONED]]
MCPipelines ==
  {PipelineOf(3, {<<1, 2>>, <<2, 3>>, <<1, 3>>}), PipelineOf(4, {<<1, 3>>, <<2, 3>>, <<3, 4>>}),
   PipelineOf(3, {<<1, 2>>, <<2, 3>>, <<3, 2>>})}

MCBuckets == {<<2, 4>>, <<1, 4, 8>>}
Span(parent, duration) == [parent |-> parent, duration |-> duration]
\* Children side by side, nested, of a lost parent, and longer than their parent.
MCSpanTrees ==
  {[a |-> Span("", 5), b |-> Span("a", 2), c |-> Span("a", 3)],
   [a |-> Span("", 5), b |-> Span("a", 4), c |-> Span("b", 3)],
   [a |-> Span("", 5), b |-> Span("lost", 4), c |-> Span("b", 3)],
   [a |-> Span("", 5), b |-> Span("a", 4), c |-> Span("a", 3)]}

-----------------------------------------------------------------------------
CONSTANTS month, day

VARIABLE user
graphVars == <<user, pubVars, consentVars, licenseVars, columnVars, billingVars, usageVars,
               attributionVars, notifyVars, incidentVars, freshnessVars, arrivalVars,
               joinVars, telemetryVars>>

MCTables == {1, 2, 3, 4}
MCSinks == {5}
MCLinks ==
  {[edge |-> e, spec |-> UNPARTITIONED] :
     e \in {<<1, 2, "sql">>, <<3, 4, "dbt">>, <<1, 3, "sql">>, <<2, 2, "sql">>, <<2, 3, "sql">>,
            <<2, 4, "sql">>, <<3, 4, "sql">>, <<4, 2, "sql">>, <<5, 1, "sql">>}}
  \cup {[edge |-> <<1, 2, "sql">>, spec |-> month]}
MCBatches ==
  {<<[sink |-> 5, inputs |-> <<2>>]>>, <<[sink |-> 5, inputs |-> <<3, 5>>]>>,
   <<[sink |-> 5, inputs |-> <<4>>], [sink |-> 3, inputs |-> <<1>>]>>}
MCCatalogs ==
  {[nodes |-> {1, 2}, edges |-> {<<1, 2, "sql">>}, spec |-> <<day, UNPARTITIONED>>],
   [nodes |-> {1, 2}, edges |-> {<<1, 2, "sql">>}, spec |-> <<month, day>>]}

\* A join with a copy, a chain with a self-loop, a source made of itself, and a feedback loop.
GraphOf(n, arrows) == [nodes |-> 1 .. n, edges |-> {<<a[1], a[2], "sql">> : a \in arrows},
                       spec |-> [d \in 1 .. n |-> UNPARTITIONED]]
MCEstates == {GraphOf(4, {<<1, 3>>, <<2, 3>>, <<3, 4>>}), GraphOf(3, {<<1, 2>>, <<2, 2>>, <<2, 3>>}),
              GraphOf(3, {<<1, 1>>, <<1, 3>>, <<2, 3>>}), GraphOf(4, {<<1, 2>>, <<2, 3>>, <<3, 2>>, <<3, 4>>})}
MCScopes == {[purposes |-> {"training", "fraud"}, expires |-> 1],
             [purposes |-> {"fraud"}, expires |-> Never], [purposes |-> {}, expires |-> Never]}
MCResidencies == {[regions |-> {"eu"}, strict |-> TRUE], [regions |-> {"us"}, strict |-> FALSE],
                  [regions |-> {}, strict |-> TRUE]}
MCRegionOf == <<"eu", "", "us", "us">>
Terms(c, d, s, a, m) == [commercial |-> c, derivatives |-> d, shareAlike |-> s, attribution |-> a, mining |-> m]
MCLicences == {UnknownLicense, Terms("yes", "yes", FALSE, TRUE, "yes"), Terms("no", "yes", TRUE, TRUE, "yes"),
               Terms("yes", "no", FALSE, TRUE, "no"), Terms("yes", "yes", FALSE, FALSE, "yes")}
MCColumnMaps ==
  SUBSET {<<1, 2>>, <<1, 3>>, <<2, 4>>, <<3, 1>>, <<3, 4>>, <<4, 3>>, <<4, 5>>, <<5, 5>>}

MCWarehouse == [nodes |-> {1, 2}, edges |-> {<<1, 2, "sql">>}, spec |-> <<UNPARTITIONED, UNPARTITIONED>>]
MCMeasured1 == [d \in {1} |-> 2]
MCPartitionsOf == <<3, 2>>
MCPricedPlans == {[d \in {1} |-> 2], [d \in {2} |-> 1]}
MCReadable == {GraphOf(3, {<<1, 2>>, <<2, 3>>})}

\* A chain, two ways of one length, and a chain with a way past its relays.
NoStory   == GraphOf(4, {<<1, 2>>, <<2, 3>>, <<3, 4>>})
MCStories == {NoStory, GraphOf(4, {<<1, 2>>, <<1, 3>>, <<2, 4>>, <<3, 4>>}),
              GraphOf(4, {<<1, 2>>, <<2, 3>>, <<3, 4>>, <<1, 4>>}), GraphOf(3, {<<1, 2>>, <<2, 2>>, <<2, 3>>})}
MCBaselines == {{1, 2, 3, 4}, {1, 3, 4}}

NoGraph == [nodes |-> {}, edges |-> {}, spec |-> << >>]

GraphInit ==
  /\ user \in {"publications", "consent", "residency", "licenses", "columns", "billing", "usage",
              "attribution", "notify", "incidents", "freshness", "arrivals", "joins", "telemetry"}
  /\ PubInit /\ BillingInit /\ UsageInit /\ AttributionInit
  /\ NotifyInit /\ IncidentsInit /\ FreshnessInit /\ ArrivalsInit /\ JoinsInit /\ TelemetryInit
  /\ user # "attribution" => story = NoStory /\ baseline = {1, 2, 3, 4}
  /\ user # "freshness" => pipeline = PipelineOf(3, {<<1, 2>>, <<2, 3>>, <<1, 3>>})
  /\ user # "telemetry" => spans = [a |-> Span("", 5), b |-> Span("a", 2), c |-> Span("a", 3)]
  /\ IF user \in {"consent", "residency"} THEN ConsentInit
     ELSE estate = NoGraph /\ declared = << >> /\ pinned = << >> /\ hour = 0
  /\ IF user = "licenses" THEN LicenseInit ELSE corpus = NoGraph /\ licensed = << >>
  /\ IF user = "columns" THEN ColumnInit
     ELSE arcs = {} /\ from = 1 /\ frontier = << >> /\ seenColumns = {} /\ cutShort = FALSE

GraphNext ==
  /\ UNCHANGED user
  /\ \/ user = "publications" /\ PubNext
     \/ user = "consent" /\ RetentionNext
     \/ user = "residency" /\ ResidencyNext
     \/ user = "licenses" /\ LicenseNext
     \/ user = "columns" /\ ColumnNext
     \/ user = "billing" /\ BillingNext
     \/ user = "usage" /\ UsageNext
     \/ user = "attribution" /\ AttributionNext
     \/ user = "notify" /\ NotifyNext
     \/ user = "incidents" /\ IncidentsNext
     \/ user = "freshness" /\ FreshnessNext
     \/ user = "arrivals" /\ ArrivalsNext
     \/ user = "joins" /\ JoinsNext
     \/ user = "telemetry" /\ TelemetryNext
  /\ user # "publications" => UNCHANGED pubVars
  /\ user \notin {"consent", "residency"} => UNCHANGED consentVars
  /\ user # "licenses" => UNCHANGED licenseVars
  /\ user # "columns" => UNCHANGED columnVars
  /\ user # "billing" => UNCHANGED billingVars
  /\ user # "usage" => UNCHANGED usageVars
  /\ user # "attribution" => UNCHANGED attributionVars
  /\ user # "notify" => UNCHANGED notifyVars
  /\ user # "incidents" => UNCHANGED incidentVars
  /\ user # "freshness" => UNCHANGED freshnessVars
  /\ user # "arrivals" => UNCHANGED arrivalVars
  /\ user # "joins" => UNCHANGED joinVars
  /\ user # "telemetry" => UNCHANGED telemetryVars

GraphSpec == GraphInit /\ [][GraphNext]_graphVars

-----------------------------------------------------------------------------
\* graph/query.py: the walks find what any way leads to, with the length of the shortest
\* one; paths, reach counts, parts of the graph and figures agree with them; and a walk over columns that is not cut
\* at its depth reports every column derived from its own, under whatever name.
WalksReachEverything ==
  /\ user = "publications" => WalksFindTheShortest /\ PathsAndCountsAgree /\ CuttingsAnswerAlike
                             /\ FiguresHoldTogether
  /\ user = "columns" => RenamesReachEveryColumn

\* graph/sinks.py, query.py, selectors.py: what was published from an input is in the restatement
\* notice of all that is upstream, the build order and its levels can be run, and a
\* selection for a build holds its own inputs.
OrdersAndNoticesAreComplete ==
  user = "publications" => PublishedIsRestated /\ OrderIsBuildable /\ BuildScopeIsSelfContained

\* govern/consent.py, licenses.py: a purpose withdrawn, a retention that ran out, a pinned
\* region or a licence's term upstream reaches everything downstream, whichever of the
\* two algorithms is asked, and every refusal is explained.
RestrictionsReachDown ==
  /\ user = "consent" => PropagationAgrees /\ RefusalsReachDownAndAreExplained
  /\ user = "residency" => RoutesAndPinsAgree
  /\ user = "licenses" => NoTermIsLost

\* graph/plan/cost.py, billing.py, lifetime.py, observe/usage.py: savings are not overstated, charges are
\* not apportioned, and what is proposed for retirement feeds nobody who reads.
FiguresAreModest ==
  /\ user = "billing" => SavingsAreModest
  /\ user = "usage" => RetirementSparesWhatFeedsAReader

\* report/notify.py, observe/incidents.py: a repeated finding is counted and never hidden by
\* a milder one, and findings are grouped, worked on and reported without one being lost.
AlertsLoseNothing ==
  /\ user = "notify" => RepeatsAreCountedNotLost
  /\ user = "incidents" => GroupsShareACause /\ LifecyclesReadBack

\* observe/freshness.py, completeness.py, joins.py, report/telemetry.py, ai/attribution.py:
\* what is reported fresh, complete, replayed, proven or measured is, and a diagnosis finds
\* the origin of a change.
WhatIsReportedIsTrue ==
  /\ user = "freshness" => ReportedFreshnessIsTransitive
  /\ user = "arrivals" => CompleteMeansLanded /\ RewritesAreNotReplays
  /\ user = "joins" => ProvenRisksAreReal
  /\ user = "telemetry" => MeasuresAddUp
  /\ user = "attribution" => CausesAreFound

\* graph/plan/billing.py: a calibration makes the model price its window as the bill did.
CalibrationSettles == [][user = "billing" => RatesMatchTheBill]_graphVars
=============================================================================
