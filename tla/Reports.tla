------------------------------ MODULE Reports -------------------------------
(***************************************************************************)
(* What leaves the program: report/notify.py and report/telemetry.py.      *)
(***************************************************************************)
EXTENDS Integers, Sequences, FiniteSets, SequencesExt, FiniteSetsExt

(***************************************************************************)
(* report/notify.py: which findings reach a person.  Checks fire at any    *)
(* hour, again and again; a router keeps, per fingerprint, when it was     *)
(* first and last sent and how often it fired since.                       *)
(***************************************************************************)

CONSTANTS Findings,        \* [finding, severity]: INFO 0 .. CRITICAL 3
          Routes,          \* [channel, min, about]: about is a set of findings, {} for any
          QuietStart, QuietEnd, Override, Window, HoursPerDay,
          EscalateAfter,   \* hours a finding waits before it counts as worse
          LastMoment, MaxFirings

CRITICAL == 3

ASSUME NotifyAssumption ==
  /\ \A f \in Findings : f = [finding |-> f.finding, severity |-> f.severity] /\ f.severity \in 0 .. CRITICAL
  /\ Override <= CRITICAL /\ {Override, Window} \subseteq Nat /\ EscalateAfter \in Nat \ {0}

VARIABLES hoursGone, seen,
          firings          \* history: [note, at, outcome] of every call of route
notifyVars == <<hoursGone, seen, firings>>

\* A day's hours; quiet hours may wrap midnight.
Hour(t)   == t % HoursPerDay
Covers(t) == IF QuietStart <= QuietEnd THEN QuietStart <= Hour(t) /\ Hour(t) < QuietEnd
             ELSE Hour(t) >= QuietStart \/ Hour(t) < QuietEnd
Suppresses(note, t) == Covers(t) /\ note.severity < Override

Accepts(r, note) == note.severity >= r.min /\ (r.about = {} \/ note.finding \in r.about)

\* A notification's fingerprint has its severity in it.
FingerprintWithoutSeverity(note) == note.finding      \* mutant
Fingerprint(note) == <<note.finding, note.severity>>

\* should_notify: the rules in order; "sent" or the one that stopped it.
ShouldNotify(note, t) ==
  IF ~\E r \in Routes : Accepts(r, note)
  THEN IF \E r \in Routes : note.severity < r.min THEN "below_threshold" ELSE "no_route"
  ELSE IF Suppresses(note, t) THEN "quiet_hours"
  ELSE IF Fingerprint(note) \in DOMAIN seen /\ t - seen[Fingerprint(note)].last < Window THEN "duplicate"
  ELSE "sent"

\* escalate: on age, a step for every EscalateAfter hours nobody acknowledged.
Escalate(note, age) ==
  LET raised == note.severity + age \div EscalateAfter
  IN  [note EXCEPT !.severity = IF age < EscalateAfter THEN @ ELSE IF raised > CRITICAL THEN CRITICAL ELSE raised]

NotifyInit == hoursGone = 0 /\ seen = << >> /\ firings = << >>

\* route: the destinations, and the fingerprint's entry.  A caller may be behind: it
\* passes the moment the finding is from.
RouteIt(note, t) ==
  LET key == Fingerprint(note)  outcome == ShouldNotify(note, t) IN
  /\ Len(firings) < MaxFirings
  /\ firings' = Append(firings, [note |-> note, at |-> t, outcome |-> outcome])
  /\ seen' = IF outcome = "sent"
             THEN [k \in DOMAIN seen \cup {key} |->
                     IF k # key THEN seen[k]
                     ELSE [first |-> IF key \in DOMAIN seen THEN seen[key].first ELSE t, last |-> t,
                           count |-> IF key \in DOMAIN seen THEN seen[key].count + 1 ELSE 1]]
             ELSE [k \in DOMAIN seen |-> IF k = key THEN [seen[k] EXCEPT !.count = @ + 1] ELSE seen[k]]
  /\ UNCHANGED hoursGone

Fire(note, delay) == delay <= hoursGone /\ RouteIt(note, hoursGone - delay)

\* A finding nobody acknowledged since it first fired is raised as its age says.
FireEscalated(i) ==
  LET age == hoursGone - firings[i].at
  IN  age >= EscalateAfter /\ RouteIt(Escalate(firings[i].note, age), hoursGone)

Hours(n) == hoursGone + n <= LastMoment /\ hoursGone' = hoursGone + n /\ UNCHANGED <<seen, firings>>

NotifyNext ==
  \/ \E note \in Findings, delay \in 0 .. 1 : Fire(note, delay)
  \/ \E i \in DOMAIN firings : FireEscalated(i)
  \/ \E n \in 1 .. 2 : Hours(n)

-----------------------------------------------------------------------------
Sent(i)    == firings[i].outcome = "sent"
Same(i, j) == firings[i].note = firings[j].note

\* A finding that recurs is sent once a window and never lost: what is suppressed as a
\* duplicate was itself sent less than a window before, at the severity it has now, so an
\* escalated finding is not hidden by its milder self; what is critical, and anyone
\* listens to, is stopped by nothing else; and the count tells every recurrence.
RepeatsAreCountedNotLost ==
  /\ \A i, j \in DOMAIN firings :
       i < j /\ Sent(i) /\ Sent(j) /\ Same(i, j) => firings[j].at - firings[i].at >= Window
  /\ \A i \in DOMAIN firings :
       /\ firings[i].outcome = "duplicate" =>
            \E j \in 1 .. i - 1 : Sent(j) /\ Same(i, j) /\ firings[i].at - firings[j].at < Window
       /\ firings[i].note.severity >= CRITICAL /\ (\E r \in Routes : Accepts(r, firings[i].note))
            => firings[i].outcome \in {"sent", "duplicate"}
  /\ \A i \in DOMAIN firings : Sent(i) =>
       LET key == Fingerprint(firings[i].note)
           first == CHOOSE j \in DOMAIN firings : Sent(j) /\ Same(i, j) /\ \A k \in 1 .. j - 1 : ~(Sent(k) /\ Same(i, k))
       IN  seen[key].count = Cardinality({j \in first .. Len(firings) : Same(i, j)})

\* report/notify.py:13: quiet hours "only defer what can wait.  ... an INFO waits until
\* morning."
WhatCanWaitWaitsUntilMorning ==
  \A i \in DOMAIN firings : firings[i].outcome = "quiet_hours" /\ ~Covers(hoursGone) =>
    \E j \in i + 1 .. Len(firings) : Same(i, j) /\ Sent(j)

-----------------------------------------------------------------------------
(***************************************************************************)
(* report/telemetry.py: what a long run says of itself.  A registry keeps  *)
(* one histogram per name and label, timers run beside each other and end  *)
(* well or badly, spans nest, and quantiles and exports are read at any    *)
(* moment.                                                                 *)
(***************************************************************************)

CONSTANTS BucketChoices,   \* the bounds a caller may ask for, rising
          Labels1, Durations,
          SpanTrees,       \* the spans a trace may hold: id -> [parent, duration]
          MaxObserved

\* A span without a parent names "", which is no span.
ASSUME TelemetryAssumption ==
  /\ Durations \subseteq Nat
  /\ \A bounds \in BucketChoices :
       bounds \in Seq(Nat) /\ bounds # << >> /\ \A i, j \in DOMAIN bounds : i < j => bounds[i] < bounds[j]
  /\ \A tree \in SpanTrees :
       IsFiniteSet(DOMAIN tree) /\ "" \notin DOMAIN tree /\ \A s \in DOMAIN tree : tree[s].duration \in Nat

VARIABLES buckets,         \* << >>, or the bounds of the histogram registered first
          counts, sums,    \* label -> cumulative counts, the last of +Inf; and sums
          running,         \* the timers that were started
          observed1,       \* history: label -> the durations observed, in order
          spans
telemetryVars == <<buckets, counts, sums, running, observed1, spans>>

TelemetryInit ==
  /\ buckets = << >> /\ counts = << >> /\ sums = << >> /\ running = {}
  /\ observed1 = [l \in Labels1 |-> << >>] /\ spans \in SpanTrees

\* Registry.histogram: setdefault; who asks second has the bounds of who asked first.
Histogram(bounds) ==
  /\ buckets' = IF buckets = << >> THEN bounds ELSE buckets
  /\ UNCHANGED <<counts, sums, running, observed1, spans>>

\* Histogram.observe: every bucket the value fits is counted.
Fits(i, v) == IF i > Len(buckets) THEN TRUE ELSE v <= buckets[i]
Counted(label, v) ==
  LET old == IF label \in DOMAIN counts THEN counts[label] ELSE [i \in 1 .. Len(buckets) + 1 |-> 0]
  IN  [i \in DOMAIN old |-> IF Fits(i, v) THEN old[i] + 1 ELSE old[i]]
ObserveDuration(label, v) ==
  /\ counts' = [l \in DOMAIN counts \cup {label} |-> IF l = label THEN Counted(label, v) ELSE counts[l]]
  /\ sums' = [l \in DOMAIN sums \cup {label} |->
                IF l # label THEN sums[l] ELSE v + IF l \in DOMAIN sums THEN sums[l] ELSE 0]
  /\ observed1' = [observed1 EXCEPT ![label] = Append(@, v)]

\* measure and Timer: observed in the end, failed or not; stopping what does not run raises.
StartTimer(label) ==
  /\ buckets # << >> /\ running' = running \cup {label}
  /\ UNCHANGED <<buckets, counts, sums, observed1, spans>>
StopTimer(label, v) ==
  /\ label \in running /\ Len(observed1[label]) < MaxObserved
  /\ running' = running \ {label} /\ ObserveDuration(label, v)
  /\ UNCHANGED <<buckets, spans>>

TelemetryNext ==
  \/ \E bounds \in BucketChoices : Histogram(bounds)
  \/ \E l \in Labels1 : StartTimer(l) \/ \E v \in Durations : StopTimer(l, v)

-----------------------------------------------------------------------------
\* quantile: nothing when the answer is past the last bound; else a point, in
\* hundredths, of the bucket the target falls in.
Quantile(label, percent) ==
  LET n == Len(buckets)
      at(i) == IF i = 0 THEN 0 ELSE counts[label][i]
      bound(i) == IF i = 0 THEN 0 ELSE buckets[i]
      target == percent * counts[label][n + 1]
      hits == {i \in 1 .. n : 100 * at(i) >= target}
      b == Min(hits)
      gap == at(b) - at(b - 1)
  IN  IF label \notin DOMAIN counts \/ hits = {} THEN << >>
      ELSE IF gap = 0 THEN <<100 * bound(b)>>
      ELSE <<100 * bound(b - 1) + ((target - 100 * at(b - 1)) * (bound(b) - bound(b - 1))) \div gap>>

\* otlp_payload: counts of single buckets.
PerBucket(label) ==
  [i \in DOMAIN counts[label] |-> counts[label][i] - IF i = 1 THEN 0 ELSE counts[label][i - 1]]

\* span_tree and trace_summary: what the roots lead to, with the time spent in itself.
SpanChildren(id) == {s \in DOMAIN spans : spans[s].parent = id}
Shown ==
  LET wave[n \in 0 .. Cardinality(DOMAIN spans)] ==
        IF n = 0 THEN SpanChildren("") ELSE wave[n - 1] \cup UNION {SpanChildren(s) : s \in wave[n - 1]}
  IN  wave[Cardinality(DOMAIN spans)]
TimeIn(S)   == SumFunction([s \in S |-> spans[s].duration])
SelfTime(s) == Max({0, spans[s].duration - TimeIn(SpanChildren(s))})

-----------------------------------------------------------------------------
\* The value of that rank among the durations observed.
Ranked(label, percent) ==
  LET vs == observed1[label]
  IN  Min({v \in Range(vs) : 100 * Cardinality({k \in DOMAIN vs : vs[k] <= v}) >= percent * Len(vs)})

\* Whoever registered the histogram, whatever ran at once or failed: the exported counts add
\* up to what was observed, none of them negative; a quantile lies in the bucket of the
\* duration of its rank and is withheld exactly when that is past the last bound; quantiles
\* grow with their rank; and where children run one after the other the self times of a
\* trace add up to its roots.  (The quantile of rank 0 is the first bound, or 0, whatever
\* was observed.)
MeasuresAddUp ==
  /\ \A l \in DOMAIN counts :
       LET total == Len(observed1[l])  each == PerBucket(l)
           holds(i, v) == (i = 1 \/ v > buckets[i - 1]) /\ (i = Len(buckets) + 1 \/ v <= buckets[i])
       IN  /\ \A i \in DOMAIN each :
                each[i] = Cardinality({k \in DOMAIN observed1[l] : holds(i, observed1[l][k])})
           /\ counts[l][Len(buckets) + 1] = total
           /\ sums[l] = SumFunction(observed1[l])
           /\ \A q \in {1, 50, 99, 100} :
                LET got == Quantile(l, q)  true == Ranked(l, q) IN
                IF got = << >> THEN true > Last(buckets)
                ELSE \E i \in DOMAIN buckets :
                       /\ holds(i, true) /\ got[1] <= 100 * buckets[i]
                       /\ i > 1 => got[1] >= 100 * buckets[i - 1]
           /\ \A q, r \in {1, 50, 99, 100} :
                q < r /\ Quantile(l, r) # << >> => Quantile(l, q) # << >> /\ Quantile(l, q)[1] <= Quantile(l, r)[1]
  /\ (\A s \in Shown : spans[s].duration >= TimeIn(SpanChildren(s))) =>
       SumFunction([s \in Shown |-> SelfTime(s)]) = TimeIn(SpanChildren(""))
=============================================================================
