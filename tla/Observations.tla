---------------------------- MODULE Observations ----------------------------
(***************************************************************************)
(* What observe/ says of datasets and their changes, and who is blamed for *)
(* one: freshness.py, completeness.py, joins.py, incidents.py,             *)
(* ai/attribution.py.                                                      *)
(***************************************************************************)
EXTENDS Lineage

(***************************************************************************)
(* What observe/ says of datasets: freshness.py, completeness.py,          *)
(* joins.py, incidents.py.                                                 *)
(***************************************************************************)

(***************************************************************************)
(* observe/freshness.py: how old a dataset really is, its inputs counted.  *)
(* Builds happen in any order as the clock goes on; a dataset may never    *)
(* have been built, or its builds never have been recorded.                *)
(***************************************************************************)

CONSTANTS Pipelines,       \* the graphs
          MaxAge, Interval,      \* of every SLA: max_age, expected_interval
          LastInstant

ASSUME FreshnessAssumption ==
  /\ {MaxAge, Interval, LastInstant} \subseteq Nat
  /\ \A g \in Pipelines : IsLineage(g)

VARIABLES pipeline, built, instant      \* built: when, for the datasets with a build time
freshnessVars == <<pipeline, built, instant>>

Never1 == LastInstant + 1         \* later than any build: an age nobody measured

Age(d) == instant - built[d]
MeasuredAbove(d) == Closure(pipeline, d) \cap DOMAIN built
EffectiveAge(d) == IF MeasuredAbove(d) = {} THEN -1 ELSE Max({Age(x) : x \in MeasuredAbove(d)})
Blame(d)        == {x \in MeasuredAbove(d) : Age(x) = EffectiveAge(d)}    \* the first met in the code

\* One pass: the oldest of what the inputs resolved to and the dataset's own build.
PropagateFreshness ==
  FoldDownstream(pipeline, built, LAMBDA a, b : Min({a, b}), Never1)

IsFresh(d) == EffectiveAge(d) # -1 /\ EffectiveAge(d) <= MaxAge
IsLate(d)  == d \notin DOMAIN built \/ Age(d) > Interval
StaleClosure(d) == {x \in Closure(pipeline, d) : x \notin DOMAIN built \/ Age(x) > MaxAge}

\* report: where a dataset of an SLA goes.
StaleByOwnAge(d) == d \in DOMAIN built /\ Age(d) > MaxAge      \* mutant
IsStale(d)       == EffectiveAge(d) > MaxAge
FreshnessReport(ds) ==
  LET measured == {d \in ds : EffectiveAge(d) # -1}
      late     == {d \in measured : IsLate(d)}
      stale    == {d \in measured : IsStale(d)}
  IN  [unmeasured |-> ds \ measured, late |-> late, stale |-> stale, ok |-> measured \ (late \cup stale)]
FreshnessIsClean(r) == r.stale \cup r.late \cup r.unmeasured = {}

FreshnessPath(d, cause) ==
  IF cause = d THEN <<d>>
  ELSE LET way == ShortestPath(pipeline, cause, d) IN IF way = << >> THEN <<cause, d>> ELSE way
SLAsFrom == Leaves(pipeline)

FreshnessInit == pipeline \in Pipelines /\ built = << >> /\ instant = 0
Build(d) ==
  /\ built' = [x \in DOMAIN built \cup {d} |-> IF x = d THEN instant ELSE built[x]]
  /\ UNCHANGED <<pipeline, instant>>
Elapse == instant < LastInstant /\ instant' = instant + 1 /\ UNCHANGED <<pipeline, built>>
FreshnessNext == Elapse \/ \E d \in pipeline.nodes : Build(d)

-----------------------------------------------------------------------------
\* A dataset reported ok has no build in it, its own or an input's, older than allowed,
\* and was built on schedule; one reported stale names inputs that are, with a real way
\* from each; rebuilding a dataset alone does not make it fresh; and the one-pass answer
\* is the same wherever no cycle is.  (An input never built counts for nothing here: only
\* the stale closure names it.)
ReportedFreshnessIsTransitive ==
  LET r == FreshnessReport(pipeline.nodes)  oldest == PropagateFreshness IN
  /\ \A d \in r.ok : \A x \in Closure(pipeline, d) \cap DOMAIN built : Age(x) <= MaxAge
  /\ \A d \in r.ok : d \in DOMAIN built /\ Age(d) <= Interval /\ IsFresh(d)
  /\ \A d \in r.stale : \A c \in Blame(d) :
       /\ c \in StaleClosure(d)
       /\ LET way == FreshnessPath(d, c)
          IN  /\ way[1] = c /\ way[Len(way)] = d
              /\ \A i \in 1 .. Len(way) - 1 : way[i + 1] \in Children(pipeline, way[i])
  /\ \A d \in pipeline.nodes : ~Twisted(pipeline, d) =>
       oldest[d] = IF EffectiveAge(d) = -1 THEN Never1 ELSE instant - EffectiveAge(d)
  /\ FreshnessIsClean(FreshnessReport(SLAsFrom)) =>
       \A d \in UNION {Closure(pipeline, l) : l \in SLAsFrom} : d \notin r.stale

-----------------------------------------------------------------------------
(***************************************************************************)
(* observe/completeness.py over the arrival log of store/sqlite.py: which  *)
(* partitions of a dataset landed, which landed twice, which are missing.  *)
(* A key is <<period, slice>>: one time field and one value field.  The    *)
(* caller that records an arrival may be killed after the commit and       *)
(* record it again.                                                        *)
(***************************************************************************)

CONSTANTS Periods, Slices, ANY,
          Digests,           \* content a partition may have, NoDigest if nobody hashed it
          NoDigest,
          Tolerance, Limit,  \* arrivals(limit): 10 000 in the code
          MaxArrivals, LastPeriod

ASSUME ArrivalsAssumption == Periods \subseteq Nat /\ NoDigest \notin Digests /\ Limit \in Nat

VARIABLES landed,        \* history: what was written, [key, content], oldest first
          arrivalLog,           \* the table: [key, observed, digest]
          unsure,        \* arrivals recorded by a caller that does not know it
          period
arrivalVars == <<landed, arrivalLog, unsure, period>>

Entry(l, at, digest) == [key |-> l.key, observed |-> at, digest |-> digest]

ArrivalsInit == landed = << >> /\ arrivalLog = << >> /\ unsure = {} /\ period = 1

\* A partition of a period that began is written, or written again, and its arrival
\* recorded in one transaction; a batch is one too.
Land(batch, hashed) ==
  /\ batch # << >> /\ Len(arrivalLog) + Len(batch) <= MaxArrivals
  /\ \A i \in DOMAIN batch : batch[i].key[1] <= period
  /\ landed' = landed \o batch
  /\ LET new == [i \in DOMAIN batch |-> Entry(batch[i], period, IF hashed THEN batch[i].content ELSE NoDigest)]
     IN  arrivalLog' = arrivalLog \o new /\ unsure' = ToSet(new)
  /\ UNCHANGED period
Retry ==
  /\ unsure # {} /\ Len(arrivalLog) < MaxArrivals
  /\ \E e \in unsure : arrivalLog' = Append(arrivalLog, [e EXCEPT !.observed = period])
  /\ unsure' = {}
  /\ UNCHANGED <<landed, period>>
NextPeriod ==
  /\ period < LastPeriod
  /\ period' = period + 1
  /\ UNCHANGED <<landed, arrivalLog, unsure>>

Landings == {<<[key |-> <<p, s>>, content |-> c]>> : p \in Periods, s \in Slices, c \in Digests}
            \cup {<<[key |-> <<p, s>>, content |-> c], [key |-> <<p + 1, s>>, content |-> c]>> :
                    p \in Periods, s \in Slices, c \in Digests}
ArrivalsNext == NextPeriod \/ Retry \/ \E b \in Landings, h \in BOOLEAN : Land(b, h)

-----------------------------------------------------------------------------
\* The store's answers: present_partitions has no limit; arrivals returns the oldest.
PresentPartitions == {arrivalLog[i].key : i \in DOMAIN arrivalLog}
ArrivalsRead == SubSeq(arrivalLog, 1, Min({Limit, Len(arrivalLog)}))

\* observed_domains, expected_keys, missing, unexpected.
ObservedDomain(present) == {k[2] : k \in present} \ {ANY}
ExpectedKeys(from, to, domain) == {<<p, s>> : p \in from .. to, s \in IF domain = {} THEN {ANY} ELSE domain}
Missing(want, present)    == want \ present
Unexpected(want, present) == present \ want

\* gaps: the missing periods of a slice, as runs without a hole.
Gaps(absent) ==
  UNION {LET ps == {k[1] : k \in {a \in absent : a[2] = s}}
         IN  {[slice |-> s, start |-> p, end |-> Min({q \in ps : q >= p /\ q + 1 \notin ps})] :
                p \in {x \in ps : x - 1 \notin ps}} :
         s \in {k[2] : k \in absent}}

\* A domain nobody declared is what was seen, so a slice never seen is not missed.
CompletenessReport(from, to, declared) ==
  LET want   == ExpectedKeys(from, to, IF declared = {} THEN ObservedDomain(PresentPartitions) ELSE declared)
      absent == Missing(want, PresentPartitions)
  IN  [expected |-> want, absent |-> absent, runs |-> Gaps(absent),
       surplus |-> Unexpected(want, PresentPartitions)]
IsComplete(r) == r.absent = {}

\* Arrivals of one key, grouped: the same content again, or different or unknown content.
GroupOf(entries, k) == {i \in DOMAIN entries : entries[i].key = k}
DuplicateArrivals(entries) ==
  {GroupOf(entries, entries[i].key) : i \in {j \in DOMAIN entries : Cardinality(GroupOf(entries, entries[j].key)) > 1}}
DigestsOf(entries, group) == {entries[i].digest : i \in group}
Replays(entries) == {g \in DuplicateArrivals(entries) :
                       Cardinality(DigestsOf(entries, g)) = 1 /\ NoDigest \notin DigestsOf(entries, g)}
Restatements(entries) == {g \in DuplicateArrivals(entries) :
                            Cardinality(DigestsOf(entries, g)) > 1 \/ NoDigest \in DigestsOf(entries, g)}

\* A partition is due when its period ends.
ArrivalLag(e) == e.observed - (e.key[1] + 1)
LateArrivals(entries) == {i \in DOMAIN entries : ArrivalLag(entries[i]) > Tolerance}

-----------------------------------------------------------------------------
\* A report that says complete is of a dataset every slice of which landed in every
\* period asked about, retries or not; what is missing is reported once, in runs
\* without a hole that do not touch each other; and a surplus landed where nobody
\* expected it.
CompleteMeansLanded ==
  \A to \in Periods, declared \in SUBSET Slices :
    LET r == CompletenessReport(1, to, declared)
        wrote == {landed[i].key : i \in DOMAIN landed}
        parts(g) == {<<p, g.slice>> : p \in g.start .. g.end}
    IN  /\ IsComplete(r) => \A k \in r.expected : k \in wrote
        /\ IsComplete(r) => \A s \in declared, p \in 1 .. to : <<p, s>> \in wrote
        /\ r.absent \cap wrote = {} /\ r.surplus \subseteq wrote
        /\ UNION {parts(g) : g \in r.runs} = r.absent
        /\ \A g, h \in r.runs : g # h /\ g.slice = h.slice => g.end + 1 < h.start \/ h.end + 1 < g.start

\* A partition written again with other content is never passed off as a replay, and one
\* only recorded again is never a restatement when its content was hashed.  Late or
\* doubled arrivals are all seen until the arrivalLog is longer than one read of it; then the
\* newest are what is missing.
RewritesAreNotReplays ==
  /\ \A g \in Replays(arrivalLog) :
       Cardinality({landed[i].content : i \in {j \in DOMAIN landed : \E x \in g : landed[j].key = arrivalLog[x].key}}) = 1
  /\ \A g \in Restatements(arrivalLog) :
       NoDigest \in DigestsOf(arrivalLog, g)
         \/ Cardinality({landed[i].content : i \in {j \in DOMAIN landed : \E x \in g : landed[j].key = arrivalLog[x].key}}) > 1
  /\ Replays(arrivalLog) \cup Restatements(arrivalLog) = DuplicateArrivals(arrivalLog) /\ Replays(arrivalLog) \cap Restatements(arrivalLog) = {}
  /\ IsPrefix(ArrivalsRead, arrivalLog) /\ (Len(arrivalLog) <= Limit => LateArrivals(ArrivalsRead) = LateArrivals(arrivalLog))

-----------------------------------------------------------------------------
(***************************************************************************)
(* What is provable of a join from profiles alone, observe/joins.py.  A    *)
(* table is the number of its rows under each key; its profile is what     *)
(* the module sees of it: the rows, and the distinct keys that are not     *)
(* null.                                                                   *)
(***************************************************************************)

CONSTANTS JoinKeys, NullKey,
          UniqueTolerance, FanOutTolerance,     \* percentages
          MaxRows

ASSUME JoinsAssumption ==
  /\ IsFiniteSet(JoinKeys) /\ NullKey \notin JoinKeys
  /\ UniqueTolerance \in Nat /\ UniqueTolerance >= 100 /\ FanOutTolerance \in Nat

VARIABLES left, right,         \* the tables
          output, previous     \* the profiles of the join as it is and as it was
joinVars == <<left, right, output, previous>>

Rows(t)     == SumFunction(t)
KeysIn(t)   == {k \in JoinKeys : t[k] > 0}
ProfileOf(t) == [rows |-> Rows(t), distinct |-> Cardinality(KeysIn(t))]

\* shape_of is None when nothing was counted; fan_out is rows / distinct.
Measurable(p) == p.distinct > 0 /\ p.rows > 0
IsUnique(p)   == 100 * p.rows <= UniqueTolerance * p.distinct
UniquenessLost(was, now) == Measurable(was) /\ Measurable(now) /\ IsUnique(was) /\ ~IsUnique(now)

ShapeDrift(was, now) ==
  LET b == was.rows * now.distinct  a == now.rows * was.distinct       \* of one denominator
      change == 100 * (IF a > b THEN a - b ELSE b - a)
  IN  IF ~Measurable(was) \/ ~Measurable(now) \/ change < FanOutTolerance * b THEN {}
      ELSE {[kind |-> "join_key_fan_out", severity |-> IF a > b THEN "error" ELSE "warn"]}

OrphanFloor(a, b) ==
  IF ~Measurable(a) \/ ~Measurable(b) THEN 0 ELSE Max({0, a.distinct - b.distinct})

Amplified(inputs, out) ==
  LET largest == Max({p.rows : p \in inputs} \cup {0}) IN largest > 0 /\ out.rows > largest

JoinRisks(a, b, out, was) ==
  [unmeasurable |-> {s \in {"left", "right"} : ~Measurable(IF s = "left" THEN a ELSE b)},
   orphans  |-> OrphanFloor(a, b),
   findings |->
     (IF Amplified({a, b}, out) THEN {[kind |-> "join_amplification", severity |-> "warn"]} ELSE {})
       \cup {[kind |-> "join_key_not_unique", severity |-> "warn"] :
               s \in {p \in {a, b} : Measurable(p) /\ ~IsUnique(p)}}
       \cup ShapeDrift(was, out)]
IsJoinClear(risk) == risk.findings = {} /\ risk.orphans = 0

-----------------------------------------------------------------------------
Joined == [k \in JoinKeys |-> left[k] * right[k]]       \* an inner join; null meets nothing

JoinsInit ==
  /\ left = [k \in JoinKeys \cup {NullKey} |-> 0] /\ right = left
  /\ output = [rows |-> 0, distinct |-> 0] /\ previous = output

\* Outside the code: rows arrive, and the join is built again and profiled.
GrowLeft  == \E k \in DOMAIN left :
  Rows(left) < MaxRows /\ left' = [left EXCEPT ![k] = @ + 1] /\ UNCHANGED <<right, output, previous>>
GrowRight == \E k \in DOMAIN right :
  Rows(right) < MaxRows /\ right' = [right EXCEPT ![k] = @ + 1] /\ UNCHANGED <<left, output, previous>>
BuildJoin ==
  /\ output # ProfileOf([k \in DOMAIN left |-> IF k = NullKey THEN 0 ELSE Joined[k]])
  /\ output' = ProfileOf([k \in DOMAIN left |-> IF k = NullKey THEN 0 ELSE Joined[k]])
  /\ previous' = output /\ UNCHANGED <<left, right>>

JoinsNext == GrowLeft \/ GrowRight \/ BuildJoin

-----------------------------------------------------------------------------
\* Of so few keys that the tolerance hides no second row.
ToldExactly(p) == (UniqueTolerance - 100) * p.distinct < 100

\* What is called proven holds of the tables themselves: so many keys of the left side meet
\* nothing; a join that is clear on measured sides holds no key more often than the
\* tolerance allows, none twice where few keys leave it no room, and is then no larger than
\* its smaller side; and a join whose keys were unique, within the tolerance, and now
\* average the fan-out tolerance more than that is told as an error.
ProvenRisksAreReal ==
  LET a == ProfileOf(left)  b == ProfileOf(right)
      inner == ProfileOf([k \in DOMAIN left |-> IF k = NullKey THEN 0 ELSE Joined[k]])
      risk  == JoinRisks(a, b, inner, previous)
      clear == IsJoinClear(risk) /\ risk.unmeasurable = {}
  IN  /\ OrphanFloor(a, b) <= Cardinality(KeysIn(left) \ KeysIn(right))
      /\ clear => \A t \in {left, right} : \A k \in DOMAIN t :
                    100 * (t[k] - 1) <= (UniqueTolerance - 100) * Cardinality(KeysIn(t))
      /\ clear /\ ToldExactly(a) /\ ToldExactly(b) =>
           /\ \A k \in JoinKeys : Joined[k] <= 1
           /\ inner.rows <= Min({a.rows, b.rows})
      /\ UniquenessLost(previous, inner)
           /\ 100 * 100 * inner.rows >= (100 + FanOutTolerance) * UniqueTolerance * inner.distinct =>
           [kind |-> "join_key_fan_out", severity |-> "error"] \in risk.findings

-----------------------------------------------------------------------------
(***************************************************************************)
(* observe/incidents.py: findings are grouped into incidents, which people *)
(* then acknowledge and resolve, in any order and more than once.          *)
(* A finding is [check, dataset, severity, started, detected]; NoInstant   *)
(* is a moment nobody recorded.  Above[d] is what is upstream of d.        *)
(***************************************************************************)

CONSTANTS Symptoms, Above, CorrelationWindow, NoInstant, LastTime, MaxSymptoms

ASSUME IncidentsAssumption ==
  /\ NoInstant \notin Nat /\ CorrelationWindow \in Nat
  /\ \A f \in Symptoms : f.dataset \in DOMAIN Above /\ f.detected \in Nat \cup {NoInstant}
  /\ \A d \in DOMAIN Above :
       IsFiniteSet(Above[d]) /\ \A x \in Above[d] : x \in DOMAIN Above /\ Above[x] \subseteq Above[d]

VARIABLES observed,       \* the findings, in the order the checks reported them
          incident,       \* << >> or one incident, with what people did to it
          now
incidentVars == <<observed, incident, now>>

Moment(t) == IF t = NoInstant THEN -1 ELSE t

\* sorted is stable: findings detected together stay in the order they were reported.
Ordered(fs) ==
  LET before(i, j) == \/ Moment(fs[i].detected) < Moment(fs[j].detected)
                      \/ fs[i].detected = fs[j].detected /\ i < j
      place(i) == Cardinality({j \in DOMAIN fs : before(j, i)}) + 1
  IN  [k \in DOMAIN fs |-> fs[CHOOSE i \in DOMAIN fs : place(i) = k]]

Connected(f, o) == f.dataset \in Above[o.dataset] \/ o.dataset \in Above[f.dataset] \/ f.dataset = o.dataset
Near(f, o) == \/ f.detected = NoInstant \/ o.detected = NoInstant
              \/ f.detected - o.detected \in -CorrelationWindow .. CorrelationWindow
Linked2(f, o)  == Connected(f, o) /\ Near(f, o)
SharesCause(f, group) == \E i \in DOMAIN group : Linked2(f, group[i])

\* correlate: each finding joins the first group it shares a cause with.
JoinGroup(groups, f) ==
  LET fits == {g \in DOMAIN groups : SharesCause(f, groups[g])}
  IN  IF fits = {} THEN Append(groups, <<f>>) ELSE [groups EXCEPT ![Min(fits)] = Append(@, f)]
Correlate(fs) == FoldLeft(JoinGroup, << >>, Ordered(fs))

DatasetsOf(fs)   == {fs[i].dataset : i \in DOMAIN fs}
RootDatasets(fs) == {d \in DatasetsOf(fs) : Above[d] \cap DatasetsOf(fs) = {}}
SeverityOf(fs)   == Max({0} \cup {fs[i].severity : i \in DOMAIN fs})
Impact(fs) == DatasetsOf(fs) \cup {d \in DOMAIN Above : Above[d] \cap DatasetsOf(fs) # {}}
Recurring(groups, threshold) ==
  LET all == FlattenSeq(groups)
      times(k) == Cardinality({i \in DOMAIN all : <<all[i].check, all[i].dataset>> = k})
  IN  {k \in {<<all[i].check, all[i].dataset>> : i \in DOMAIN all} : times(k) >= threshold}

\* What an incident says of itself.
TimesOf(fs)   == {fs[i].detected : i \in DOMAIN fs} \ {NoInstant}
OpenedAt(fs)  == IF TimesOf(fs) = {} THEN NoInstant ELSE Min(TimesOf(fs))
Lags(fs)      == {fs[i].detected - fs[i].started :
                    i \in {j \in DOMAIN fs : fs[j].detected # NoInstant /\ fs[j].started # NoInstant}}
TimeToDetect(n)  == IF Lags(n.findings) = {} THEN NoInstant ELSE Max(Lags(n.findings))
TimeToResolve(n) == IF n.opened = NoInstant \/ n.resolved = NoInstant THEN NoInstant ELSE n.resolved - n.opened
IsTerminal(state) == state \in {"resolved", "wont_fix"}
IsOpen(n) == ~IsTerminal(n.state)
Postmortem(n) == [severity |-> SeverityOf(n.findings), datasets |-> DatasetsOf(n.findings),
                  detectedAfter |-> TimeToDetect(n), resolvedAfter |-> TimeToResolve(n), cause |-> n.cause,
                  regressionChecks |-> {n.findings[i].check : i \in DOMAIN n.findings}]

IncidentsInit == observed = << >> /\ incident = << >> /\ now = 0

Report1(f) ==
  /\ incident = << >> /\ Len(observed) < MaxSymptoms
  /\ observed' = Append(observed, f)
  /\ UNCHANGED <<incident, now>>

\* Somebody takes one of the incidents correlate makes of the findings.
TakeUp(k) ==
  /\ incident = << >>
  /\ LET group == Correlate(observed)[k] IN
       incident' = <<[findings |-> group, state |-> "open", owner |-> "", opened |-> OpenedAt(group),
                      acknowledged |-> NoInstant, resolved |-> NoInstant, cause |-> RootDatasets(group)]>>
  /\ now' = Max({now} \cup TimesOf(Correlate(observed)[k]))
  /\ UNCHANGED observed

\* acknowledge refuses no owner and nothing else: a resolved incident is open again, and
\* keeps the time it was resolved.
Acknowledge(owner) ==
  /\ incident # << >> /\ owner # ""
  /\ incident' = <<[incident[1] EXCEPT !.owner = owner, !.state = "acknowledged", !.acknowledged = now]>>
  /\ UNCHANGED <<observed, now>>
ResolveIncident(state) ==
  /\ incident # << >> /\ IsTerminal(state)
  /\ incident' = <<[incident[1] EXCEPT !.state = state, !.resolved = now]>>
  /\ UNCHANGED <<observed, now>>
Later == now < LastTime /\ incident # << >> /\ now' = now + 1 /\ UNCHANGED <<observed, incident>>

IncidentsNext ==
  \/ \E f \in Symptoms : Report1(f)
  \/ \E k \in DOMAIN Correlate(observed) : TakeUp(k)
  \/ Acknowledge("ann")
  \/ \E s \in {"resolved", "wont_fix", "mitigated"} : ResolveIncident(s)
  \/ Later

-----------------------------------------------------------------------------
\* Where a finding is: the group, and its place there.
PlacesOf(groups, f) ==
  {p \in UNION {{g} \X DOMAIN groups[g] : g \in DOMAIN groups} : groups[p[1]][p[2]] = f}

\* Every finding is in the incidents as often as it was reported; in an incident every
\* finding but the first is connected through lineage, and close in time, to an earlier
\* one; and when the first symptom is upstream of all the others and they follow within the
\* window there is one incident, with that dataset as its cause, unless it is upstream of
\* itself: nothing on a cycle is a root.  (A finding that links two incidents already
\* begun does not merge them: it joins the first.)
GroupsShareACause ==
  LET groups == Correlate(observed)  fs == Ordered(observed) IN
  /\ \A f \in Symptoms :
       Cardinality(PlacesOf(groups, f)) = Cardinality({i \in DOMAIN observed : observed[i] = f})
  /\ \A g \in DOMAIN groups : \A i \in DOMAIN groups[g] :
       LET f == groups[g][i] IN
       i > 1 => \E j \in 1 .. i - 1 :
                  LET o == groups[g][j]
                  IN  /\ f.dataset = o.dataset \/ f.dataset \in Above[o.dataset] \/ o.dataset \in Above[f.dataset]
                      /\ f.detected # NoInstant /\ o.detected # NoInstant
                           => f.detected <= o.detected + CorrelationWindow
  /\ fs # << >> /\ (\A i \in 2 .. Len(fs) :
                      fs[1].dataset \in Above[fs[i].dataset]
                        /\ fs[i].detected # NoInstant /\ fs[1].detected # NoInstant
                        /\ fs[i].detected <= fs[1].detected + CorrelationWindow)
       => /\ Len(groups) = 1
          /\ fs[1].dataset \notin Above[fs[1].dataset] => RootDatasets(groups[1]) = {fs[1].dataset}

\* Whatever is done to an incident, in whatever order: it has been open for no negative
\* time, one that is open and has a resolution was taken up again after it, one somebody
\* works on has an owner, and its report covers what it affects, unless a cycle is in it.
LifecyclesReadBack ==
  incident # << >> =>
    LET n == incident[1]  p == Postmortem(n) IN
    /\ TimeToResolve(n) # NoInstant => TimeToResolve(n) >= 0
    /\ IsOpen(n) /\ n.resolved # NoInstant => n.acknowledged # NoInstant /\ n.acknowledged >= n.resolved
    /\ n.state = "acknowledged" => n.owner # ""
    /\ ~IsOpen(n) => n.resolved # NoInstant
    /\ p.datasets \subseteq Impact(n.findings) /\ p.cause \subseteq p.datasets
    /\ (\A d \in p.datasets : d \notin Above[d]) =>
         \A d \in Impact(n.findings) : d \in p.cause \/ Above[d] \cap p.cause # {}

-----------------------------------------------------------------------------
(***************************************************************************)
(* ai/attribution.py: which upstream dataset explains a change.  A dataset *)
(* changes by itself, what is rebuilt from it may show that or not, and    *)
(* profiles are taken of some datasets, before and after.                  *)
(***************************************************************************)

CONSTANTS Stories,         \* the graphs
          Baselines,       \* the datasets a profile was stored of, before
          AttributionDepth,
          Drifts           \* the severities a change may show with

ASSUME AttributionAssumption ==
  /\ AttributionDepth \in Nat \ {0} /\ Drifts \subseteq {"error", "warn", "info"}
  /\ \A g \in Stories : IsLineage(g)

VARIABLES story, baseline,
          shown,           \* dataset -> the worst drift it shows against its baseline
          origin,          \* history: what changed by itself
          after            \* dataset -> drift found by its fresh profile, if one was taken
attributionVars == <<story, baseline, shown, origin, after>>

NONE == "none"

-----------------------------------------------------------------------------
Suspects(g, target) == DOMAIN Walk(g, target, FALSE, AttributionDepth)
UncheckedSuspects(g, target, profiled) == Suspects(g, target) \ profiled

\* _score in 600ths: 0.6 for the worst drift and 0.3 for proximity.
Proximity(hops) == Max({0, 180 - (180 * (hops - 1)) \div AttributionDepth})
SeverityWeight(drift) == CASE drift = "error" -> 360 [] drift = "warn" -> 252 [] drift = "info" -> 108 [] OTHER -> 0
Score(hops, drift) == SeverityWeight(drift) + Proximity(hops)

HopsTo(g, d, target) == IF Distance(g, d, target) > 0 THEN Distance(g, d, target) ELSE 1

\* attribute: a candidate without both profiles is unchecked, not left out.
CauseOf(g, d, target) ==
  LET checked == d \in baseline /\ d \in DOMAIN after
      drift   == IF checked THEN after[d] ELSE NONE
  IN  [dataset |-> d, hops |-> HopsTo(g, d, target), checked |-> checked, drift |-> drift,
       score |-> Score(HopsTo(g, d, target), drift)]
IsAhead(a, b) == \/ a.score > b.score
                 \/ a.score = b.score /\ a.hops < b.hops
                 \/ a.score = b.score /\ a.hops = b.hops /\ a.dataset < b.dataset
RankCauses(causes) ==
  [n \in 1 .. Cardinality(causes) |->
     CHOOSE c \in causes : Cardinality({o \in causes : IsAhead(o, c)}) + 1 = n]
Diagnose(g, target) == RankCauses({CauseOf(g, d, target) : d \in Suspects(g, target)})

Confirmed(causes) == {c \in Range(causes) : c.drift # NONE}
RootCauses(causes) == {c \in Confirmed(causes) : \A o \in Confirmed(causes) : o.hops <= c.hops}

-----------------------------------------------------------------------------
AttributionInit ==
  /\ story \in Stories /\ baseline \in Baselines
  /\ shown = [d \in story.nodes |-> NONE] /\ origin = {} /\ after = << >>

\* Outside the code: a dataset changes, and a rebuild passes the change on or absorbs it.
ChangeItself(d, drift) ==
  /\ origin = {} /\ origin' = {d}
  /\ shown' = [shown EXCEPT ![d] = drift]
  /\ UNCHANGED <<story, baseline, after>>
Relay(d, drift) ==
  /\ shown[d] = NONE /\ d \notin origin /\ \E p \in Parents(story, d) : shown[p] # NONE
  /\ shown' = [shown EXCEPT ![d] = drift]
  /\ UNCHANGED <<story, baseline, origin, after>>

\* A fresh profile, by whatever caller, at whatever time.
TakeProfile(d) ==
  /\ d \notin DOMAIN after
  /\ after' = [x \in DOMAIN after \cup {d} |-> IF x = d THEN shown[d] ELSE after[x]]
  /\ UNCHANGED <<story, baseline, shown, origin>>

AttributionNext ==
  \E d \in story.nodes : TakeProfile(d) \/ \E drift \in Drifts : ChangeItself(d, drift) \/ Relay(d, drift)

-----------------------------------------------------------------------------
\* Nothing leads from the target back to it, and no edge on the way there skips a hop.
Even(g, target) ==
  /\ target \notin Ancestors(g, target)
  /\ \A e \in g.edges : e[1] \in Ancestors(g, target) /\ e[2] \in Closure(g, target) \ {e[1]} =>
       Distance(g, e[1], target) = Distance(g, e[2], target) + 1

\* A diagnosis answers for every dataset in its reach, once, and says of whom it does not
\* know; what it confirms has changed because of the origin; what drifted with a warning or
\* worse is blamed ahead of anything that did not; and where no edge skips a hop, the
\* origin, once profiled after it changed, is the one root cause whatever else was profiled,
\* and when.  (An edge past a relay makes the relay look further up than the origin.)
CausesAreFound ==
  \A t \in story.nodes :
    LET causes == Diagnose(story, t) IN
    /\ Len(causes) = Cardinality(Suspects(story, t))
    /\ {c.dataset : c \in {x \in Range(causes) : ~x.checked}}
         = UncheckedSuspects(story, t, baseline \cap DOMAIN after)
    /\ \A c \in Confirmed(causes) : \E o \in origin : c.dataset \in {o} \cup Descendants(story, o)
    /\ \A i, j \in DOMAIN causes :
         causes[i].drift \in {"error", "warn"} /\ causes[j].drift = NONE => i < j
    /\ Even(story, t) => \A o \in origin : (\E c \in Confirmed(causes) : c.dataset = o) =>
         {c.dataset : c \in RootCauses(causes)} = {o}

\* root_causes: "The deepest drifting candidates — the origin rather than the relay."
\* (ai/attribution.py:295)
OriginsAreNeverRelays ==
  \A t \in story.nodes : \A o \in origin :
    LET causes == Diagnose(story, t) IN
    (\E c \in Confirmed(causes) : c.dataset = o) => o \in {c.dataset : c \in RootCauses(causes)}
=============================================================================
