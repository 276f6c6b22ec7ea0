------------------------------ MODULE Monitor -------------------------------
(***************************************************************************)
(* Profiles of datasets and what is concluded from them: observe/,         *)
(* govern/contracts.py, reidentification.py, cli/project.py.               *)
(***************************************************************************)
EXTENDS Lineage

(***************************************************************************)
(* What observe/ and govern/ conclude from column profiles: drift, schema  *)
(* changes, expectations, regressions, contracts, re-identification.       *)
(* A profile is [rows, columns], columns a partial function from names to  *)
(* [dtype, nulls, low, high, distinct]: nulls is a percentage, and         *)
(* Unknown stands for a statistic the writer left out.                     *)
(***************************************************************************)

CONSTANTS MinRows, RowTolerance, NullTolerance,      \* drift: percentages
          Margin,                                    \* learn: a percentage
          KindsOf, DirectKinds, QuasiKinds,          \* the labels of a column
          KThreshold, SinglingOut,                   \* assess: the latter a percentage
          MinObservations
Unknown == -1
ColumnNames(p)  == DOMAIN p.columns
Abs(n)    == IF n < 0 THEN -n ELSE n
Both(a, b) == a # Unknown /\ b # Unknown

-----------------------------------------------------------------------------
\* profile.drift: what is statistical is only information below MinRows.
Drift(before, after) ==
  LET weak == Min({before.rows, after.rows}) < MinRows
      sev(s) == IF weak THEN "info" ELSE s
      b(c) == before.columns[c]   a(c) == after.columns[c]
      found(c, kind, s) == [column |-> c, kind |-> kind, severity |-> s]
      kept == ColumnNames(before) \cap ColumnNames(after)
  IN  {found(c, "column_removed", "error") : c \in ColumnNames(before) \ ColumnNames(after)}
        \cup {found(c, "column_added", "info") : c \in ColumnNames(after) \ ColumnNames(before)}
        \cup {found("*", "row_count_shift", sev("warn")) : x \in
               {1 : y \in {z \in {1} : IF before.rows = 0 THEN after.rows > 0
                                       ELSE 100 * Abs(after.rows - before.rows) > RowTolerance * before.rows}}}
        \cup {found(c, "type_change", "error") : c \in {x \in kept : b(x).dtype # a(x).dtype}}
        \cup {found(c, "null_rate_shift", sev("warn")) :
                c \in {x \in kept : Both(b(x).nulls, a(x).nulls)
                                      /\ Abs(a(x).nulls - b(x).nulls) > NullTolerance}}
        \cup {found(c, "min_raised", sev("info")) :
                c \in {x \in kept : Both(b(x).low, a(x).low) /\ a(x).low > b(x).low}}
        \cup {found(c, "max_lowered", sev("info")) :
                c \in {x \in kept : Both(b(x).high, a(x).high) /\ a(x).high < b(x).high}}

\* schema.diff_schemas.
ColumnChanges(before, after) ==
  {[column |-> c, kind |-> IF c \notin ColumnNames(before) THEN "added"
                           ELSE IF c \notin ColumnNames(after) THEN "removed" ELSE "retyped"] :
     c \in {x \in ColumnNames(before) \cup ColumnNames(after) :
              \/ x \notin ColumnNames(before) \cap ColumnNames(after)
              \/ before.columns[x].dtype # after.columns[x].dtype}}
SchemaBreaks(before, after) == {c \in ColumnChanges(before, after) : c.kind \in {"removed", "retyped"}}
WorstSeverity(findings) ==
  LET has(s) == \E f \in findings : f.severity = s
  IN  IF has("error") THEN "error" ELSE IF has("warn") THEN "warn" ELSE IF has("info") THEN "info" ELSE "none"

-----------------------------------------------------------------------------
\* quality: an expectation is [kind, column, low, high, names, severity, learned]; low and
\* high are its bounds, names the columns or the type it asks for.
Expect(kind, column, low, high, names, severity, learned) ==
  [kind |-> kind, column |-> column, low |-> low, high |-> high, names |-> names,
   severity |-> severity, learned |-> learned]
Outside(n, e) == (e.low # Unknown /\ n < e.low) \/ (e.high # Unknown /\ n > e.high)
Evaluate(e, p) ==          \* "met", "broken" or "skipped"
  LET verdict(bad) == IF bad THEN "broken" ELSE "met" IN
  IF e.kind = "row_count_between" THEN verdict(Outside(p.rows, e))
  ELSE IF e.kind = "column_count_between" THEN verdict(Outside(Cardinality(ColumnNames(p)), e))
  ELSE IF e.kind = "schema_matches" THEN verdict(~(e.names \subseteq ColumnNames(p)))
  ELSE IF e.column \notin ColumnNames(p) THEN "broken"
  ELSE LET c == p.columns[e.column] IN
    CASE e.kind = "null_rate_below" -> IF c.nulls = Unknown THEN "skipped" ELSE verdict(c.nulls > e.high)
      [] e.kind = "unique" -> IF c.distinct = Unknown THEN "skipped" ELSE verdict(c.distinct < p.rows)
      [] e.kind = "dtype_is" -> verdict(c.dtype \notin e.names)
      [] e.kind = "min_above" -> IF c.low = Unknown THEN "skipped" ELSE verdict(c.low < e.low)
      [] e.kind = "max_below" -> IF c.high = Unknown THEN "skipped" ELSE verdict(c.high > e.high)
      [] e.kind = "in_range" -> IF c.low = Unknown /\ c.high = Unknown THEN "skipped"
                                ELSE verdict((c.low # Unknown /\ c.low < e.low) \/ (c.high # Unknown /\ c.high > e.high))
      [] OTHER -> "skipped"
RunSuite(suite, p) ==
  [broken |-> {e \in suite : Evaluate(e, p) = "broken"}, skipped |-> {e \in suite : Evaluate(e, p) = "skipped"}]
ErrorsOf(result) == {e \in result.broken : e.severity = "error"}
Passed(result)   == ErrorsOf(result) = {}

\* learn: bounds with a margin around what one profile says.
Padded(low, high) == Max({(Abs(high - low) * Margin) \div 100, (Abs(high) * Margin) \div 100, 0})
Learn(p) ==
  LET span == Max({1, (p.rows * Margin) \div 100})  c(n) == p.columns[n] IN
  {Expect("schema_matches", "*", Unknown, Unknown, ColumnNames(p), "error", TRUE)}
    \cup {Expect("row_count_between", "*", Max({0, p.rows - span * 5}), p.rows + span * 5, {}, "warn", TRUE) :
            x \in {r \in {p.rows} : r > 0}}
    \cup {Expect("dtype_is", n, Unknown, Unknown, {c(n).dtype}, "error", TRUE) : n \in ColumnNames(p)}
    \cup {Expect("null_rate_below", n, Unknown, Min({100, c(n).nulls + Max({Margin, 2})}), {}, "warn", TRUE) :
            n \in {x \in ColumnNames(p) : c(x).nulls # Unknown}}
    \cup {Expect("in_range", n, c(n).low - Padded(c(n).low, c(n).high), c(n).high + Padded(c(n).low, c(n).high),
                 {}, "warn", TRUE) : n \in {x \in ColumnNames(p) : Both(c(x).low, c(x).high) /\ c(x).high >= c(x).low}}

\* merge: one expectation per kind and column, an asserted one before a learned one, then
\* the earlier suite's.
Merge(suites) ==
  LET all == UNION Range(suites)
      rank(e) == <<e.learned, Min({i \in DOMAIN suites : e \in suites[i]})>>
      before(e, f) == (rank(f)[1] /\ ~rank(e)[1]) \/ (rank(e)[1] = rank(f)[1] /\ rank(e)[2] <= rank(f)[2])
  IN  {e \in all : \A f \in all : f.kind = e.kind /\ f.column = e.column => before(e, f)}

-----------------------------------------------------------------------------
\* regression.explain: exact, not statistical.
Moved(a, b) == Both(a, b) /\ a # 0 /\ a # b      \* nothing is relative to zero
Explained(before, after) ==
  LET kept == ColumnNames(before) \cap ColumnNames(after) IN
  (IF before.rows # after.rows THEN {<<"row_count", "*">>} ELSE {})
    \cup {<<"schema", c.column>> : c \in SchemaBreaks(before, after)}
    \cup {<<"null_rate", c>> : c \in {x \in kept : Both(before.columns[x].nulls, after.columns[x].nulls)
                                                  /\ before.columns[x].nulls # after.columns[x].nulls}}
    \cup {<<"min", c>> : c \in {x \in kept : Moved(before.columns[x].low, after.columns[x].low)}}
    \cup {<<"max", c>> : c \in {x \in kept : Moved(before.columns[x].high, after.columns[x].high)}}

\* contracts.verify: what the caller supplies is checked, the rest is listed.  previous is
\* << >> or <<profile>>, and so is profile; age is Unknown or a number.
VerifyContract(contract, profile, previous, age) ==
  LET severity(floor) == IF contract.consumers # {} THEN "error" ELSE floor
      breach(kind, what, floor) == [kind |-> kind, what |-> what, severity |-> severity(floor)]
      missing == IF profile = << >> THEN {} ELSE contract.columns \ ColumnNames(profile[1])
      late == contract.staleness # Unknown /\ age # Unknown /\ age > contract.staleness
  IN  [breaches |->
         {breach("missing_column", c, "error") : c \in missing}
           \cup (IF profile = << >> \/ previous = << >> THEN {}
                 ELSE {breach("schema", c.column, "warn") : c \in SchemaBreaks(previous[1], profile[1])})
           \cup (IF late THEN {breach("staleness", "age", "warn")} ELSE {})
           \cup (IF profile = << >> THEN {}
                 ELSE {breach("expectation", e.column, "error") :
                         e \in ErrorsOf(RunSuite(contract.suite, profile[1]))}),
       unchecked |->
         (IF contract.columns # {} /\ profile = << >> THEN {"columns"} ELSE {})
           \cup (IF contract.staleness # Unknown /\ age = Unknown THEN {"staleness"} ELSE {})
           \cup (IF contract.suite # {} /\ profile = << >> THEN {"expectations"} ELSE {})]
IsMet(report) == report.breaches = {}

-----------------------------------------------------------------------------
\* reidentification.assess: the group size is bounded by the widest column.
QuasiIdentifiers(p)  == {c \in ColumnNames(p) : KindsOf[c] \cap QuasiKinds # {}}
DirectIdentifiers(p) == {c \in ColumnNames(p) : KindsOf[c] \cap DirectKinds # {}}
Widest(p, cs) == Max({0} \cup {p.columns[c].distinct : c \in cs})
NearUnique(p) == {c \in ColumnNames(p) : p.rows > 0 /\ p.columns[c].distinct > 0
                                     /\ p.columns[c].distinct * 100 >= SinglingOut * p.rows}

\* A near-unique quasi-identifier is left to the check of the combination.
Assess(p) ==
  LET quasi == QuasiIdentifiers(p)  combined == Cardinality(quasi) >= 2  widest == Widest(p, quasi)
      measured == p.rows > 0 /\ widest > 0
  IN  [findings |->
         {<<"direct_identifier", {c}>> : c \in DirectIdentifiers(p)}
           \cup {<<"singling_out", {c}>> : c \in NearUnique(p) \ (quasi \cup DirectIdentifiers(p))}
           \cup (IF combined /\ measured /\ p.rows < KThreshold * widest
                 THEN {<<"quasi_identifier_set", quasi>>} ELSE {}),
       unmeasurable |-> IF combined /\ ~measured THEN quasi ELSE {}]
IsRiskClear(report) == report.findings = {}
QuasiKindsOf(p) == (UNION {KindsOf[c] : c \in ColumnNames(p)}) \cap QuasiKinds

\* Two exports with a common ancestor that share a column.
LinkageRisks(g, profiles) ==
  {pair \in (DOMAIN profiles) \X (DOMAIN profiles) :
     LET l == pair[1]  r == pair[2]
         a == QuasiKindsOf(profiles[l])  b == QuasiKindsOf(profiles[r]) IN
     /\ l < r /\ CommonAncestors(g, l, r) # {}
     /\ ColumnNames(profiles[l]) \cap ColumnNames(profiles[r]) # {}
     /\ a # {} /\ b # {} /\ Cardinality(a \cup b) > Max({Cardinality(a), Cardinality(b)})}

-----------------------------------------------------------------------------
\* seasonal: per bucket of the calendar, a band around what was seen there, for every
\* metric seen often enough.  An observation is [bucket, profile].
Metrics(p) ==
  {<<"*", "row_count", p.rows>>}
    \cup {<<c, "null_rate", p.columns[c].nulls>> : c \in {x \in ColumnNames(p) : p.columns[x].nulls # Unknown}}
    \cup {<<c, "distinct", p.columns[c].distinct>> : c \in {x \in ColumnNames(p) : p.columns[x].distinct # Unknown}}
    \cup {<<c, "min", p.columns[c].low>> : c \in {x \in ColumnNames(p) : p.columns[x].low # Unknown}}
    \cup {<<c, "max", p.columns[c].high>> : c \in {x \in ColumnNames(p) : p.columns[x].high # Unknown}}
LearnSeasonal(history) ==
  LET here(b) == {i \in DOMAIN history : history[i].bucket = b}
      usable == {b \in {history[i].bucket : i \in DOMAIN history} : Cardinality(here(b)) >= MinObservations}
      seen(b, m) == {i \in here(b) : \E v \in Metrics(history[i].profile) : <<v[1], v[2]>> = m}
      values(b, m) == {v[3] : v \in {w \in UNION {Metrics(history[i].profile) : i \in here(b)} : <<w[1], w[2]>> = m}}
      metrics(b) == {<<v[1], v[2]>> : v \in UNION {Metrics(history[i].profile) : i \in here(b)}}
  IN  [bands |-> UNION {{[bucket |-> b, metric |-> m,
                          low |-> Min(values(b, m)) - Padded(Min(values(b, m)), Max(values(b, m))),
                          high |-> Max(values(b, m)) + Padded(Min(values(b, m)), Max(values(b, m)))] :
                            m \in {x \in metrics(b) : Cardinality(seen(b, x)) >= MinObservations}} : b \in usable},
       unmodelled |-> {history[i].bucket : i \in DOMAIN history} \ usable]
CheckSeasonal(o, baseline) ==
  {v \in Metrics(o.profile) : \E band \in baseline.bands :
     band.bucket = o.bucket /\ band.metric = <<v[1], v[2]>> /\ ~(band.low <= v[3] /\ v[3] <= band.high)}

-----------------------------------------------------------------------------
(***************************************************************************)
(* One dataset under observation: `check`, `profile` and `contracts` run   *)
(* against the profiles in store/sqlite.py, two of them at once, while     *)
(* what is stored keeps changing (cli/project.py, cli/main.py).            *)
(***************************************************************************)

CONSTANTS Checkers,
          ProfileShapes,             \* the profiles the data may have
          Contract,           \* [columns, consumers, staleness, suite]
          Buckets,            \* positions in a cycle
          HistoryLimit,       \* 500 in the code
          MaxSaved            \* bound

\* Statistics are what a profile counts: percentages of nulls, finitely many columns.
ASSUME MonitorAssumption ==
  /\ {Margin, RowTolerance, NullTolerance, HistoryLimit} \subseteq Nat /\ IsFiniteSet(QuasiKinds)
  /\ \A p \in ProfileShapes :
       /\ p.rows \in Nat /\ IsFiniteSet(ColumnNames(p))
       /\ \A c \in ColumnNames(p) :
            /\ p.columns[c].nulls \in {Unknown} \cup 0 .. 100 /\ p.columns[c].distinct \in {Unknown} \cup Nat
            /\ p.columns[c].low \in Int /\ p.columns[c].high \in Int

VARIABLES shape,              \* what a profile would say now
          saved,              \* the profiles of the whole dataset, oldest first
          clean,              \* history: for each, saved by a check that passed, with nothing
                              \* saved since it compared
          work,               \* checker -> [pc, current, against, broken]
          unmet,              \* history: the promised columns the last measurement did not find
          dated               \* the profiles of partitions that have a moment: [bucket, profile]
monitorVars == <<shape, saved, clean, work, unmet, dated>>

Resting == [pc |-> "idle", current |-> << >>, against |-> 0, broken |-> FALSE]
MonitorInit ==
  /\ shape \in ProfileShapes
  /\ saved = << >> /\ clean = << >> /\ work = [c \in Checkers |-> Resting]
  /\ unmet = {} /\ dated = << >>

\* latest_profile: by capture time, which is the time of saving.
LastProfile == IF saved = << >> THEN << >> ELSE <<Last(saved)>>
SaveProfile(p, isClean) == saved' = Append(saved, p) /\ clean' = Append(clean, isClean)
Measured == unmet' = Contract.columns \ ColumnNames(shape)

DataChanges(s) == shape' = s /\ UNCHANGED <<saved, clean, work, unmet, dated>>

\* check: measure; compare with the latest; save unless broken.
Examine(c) ==
  /\ work[c].pc = "idle"
  /\ work' = [work EXCEPT ![c] = [Resting EXCEPT !.pc = "measured", !.current = <<shape>>]]
  /\ Measured
  /\ UNCHANGED <<shape, saved, clean, dated>>
BrokenByRemoval(findings) == \E f \in findings : f.kind = "column_removed"      \* mutant
IsBroken(findings) == \E f \in findings : f.severity = "error"
CompareWithLatest(c) ==
  /\ work[c].pc = "measured"
  /\ work' = [work EXCEPT ![c].pc = "compared", ![c].against = Len(saved),
                ![c].broken = LastProfile # << >> /\ IsBroken(Drift(LastProfile[1], work[c].current[1]))]
  /\ UNCHANGED <<shape, saved, clean, unmet, dated>>
Settle(c, rebaseline) ==
  /\ work[c].pc = "compared" /\ Len(saved) < MaxSaved
  /\ IF rebaseline \/ ~work[c].broken
     THEN SaveProfile(work[c].current[1], ~work[c].broken /\ work[c].against = Len(saved))
     ELSE UNCHANGED <<saved, clean>>
  /\ work' = [work EXCEPT ![c] = Resting]
  /\ UNCHANGED <<shape, unmet, dated>>

\* `fathom profile` saves what it measured, whatever it says.
ProfileCommand ==
  /\ Len(saved) < MaxSaved
  /\ SaveProfile(shape, FALSE) /\ Measured
  /\ UNCHANGED <<shape, work, dated>>
MonitorNext ==
  \/ \E s \in ProfileShapes \ {shape} : DataChanges(s)
  \/ \E c \in Checkers : Examine(c) \/ CompareWithLatest(c) \/ \E r \in BOOLEAN : Settle(c, r)
  \/ ProfileCommand

\* `fathom contracts` reads the store; nothing is measured.
ContractReport == VerifyContract(Contract, LastProfile, << >>, Unknown)

\* Profiles of partitions, saved by whoever measures them.
SavePartitionProfile(b, p) ==
  /\ Len(dated) < MaxSaved
  /\ dated' = Append(dated, [bucket |-> b, profile |-> p])
  /\ UNCHANGED <<shape, saved, clean, work, unmet>>
SeasonsNext == \E b \in Buckets, p \in ProfileShapes : SavePartitionProfile(b, p)

\* seasonal_observations: the oldest, up to the limit.
Observations == SubSeq(dated, 1, Min({HistoryLimit, Len(dated)}))
-----------------------------------------------------------------------------
\* Through any number of checks that passed one after the other, the baseline keeps every
\* column and type it once had: a suite learned from an old baseline finds no error in a
\* later one, the schemas do not break, and a contract for the old columns is met.  (Two
\* checks at once, `fathom profile` and an accepted error may each replace the baseline
\* by one that lost a column.)
AcceptedShapesNeverBreak ==
  \A i, j \in DOMAIN saved : i < j /\ (\A k \in i + 1 .. j : clean[k]) =>
    LET old == saved[i]  new == saved[j]
        promised == [columns |-> ColumnNames(old), consumers |-> {}, staleness |-> Unknown, suite |-> {}]
    IN  /\ Passed(RunSuite(Learn(old), new))
        /\ IsMet(VerifyContract(promised, <<new>>, <<old>>, Unknown))
TwoExports == [nodes |-> {1, 2, 3}, edges |-> {<<1, 2, "sql">>, <<1, 3, "sql">>},
               spec |-> [d \in {1, 2, 3} |-> UNPARTITIONED]]

\* The ways of asking whether a change breaks something agree on every two shapes: drift,
\* the schema diff, a learned suite and a rewrite's explanation.  A suite accepts what it
\* was learned from, and merging suites keeps what somebody asserted.  Two exports are a
\* linkage risk exactly when each tells something about a person that the other does not.
\* (They are asked of the shapes before anything is saved.)
JudgesAgree ==
  saved = << >> /\ dated = << >> /\ work = [c \in Checkers |-> Resting] =>
    /\ \A s \in ProfileShapes :
         LET broken == SchemaBreaks(shape, s) # {}
             findings == Drift(shape, s)
             asserted == {Expect("null_rate_below", "a", Unknown, 0, {}, "error", FALSE)}
             merged == Merge(<<Learn(shape), asserted>>)
         IN  /\ broken <=> IsBroken(findings)
             /\ broken <=> ~Passed(RunSuite(Learn(shape), s))
             /\ broken => Explained(shape, s) # {} /\ WorstSeverity(findings) = "error"
             /\ Explained(shape, s) = {} => \A f \in findings : f.severity = "info"
             /\ asserted \subseteq merged /\ ErrorsOf(RunSuite(Learn(shape), s)) \subseteq ErrorsOf(RunSuite(merged, s))
             /\ LinkageRisks(TwoExports, [x \in {2, 3} |-> IF x = 2 THEN shape ELSE s]) # {} <=>
                  /\ ColumnNames(shape) \cap ColumnNames(s) # {}
                  /\ ~(QuasiKindsOf(shape) \subseteq QuasiKindsOf(s)) /\ ~(QuasiKindsOf(s) \subseteq QuasiKindsOf(shape))
    /\ RunSuite(Learn(shape), shape).broken = {}

\* A seasonal baseline accepts every observation it was learned from, says nothing of a
\* bucket it has too few of, and accuses a value only of being unlike all that bucket's.
SeasonsAreJudgedByTheirOwn ==
  dated # << >> =>
    LET baseline == LearnSeasonal(Observations) IN
    /\ \A i \in DOMAIN Observations : CheckSeasonal(Observations[i], baseline) = {}
    /\ \A b \in Buckets, p \in ProfileShapes :
         LET seen == {i \in DOMAIN Observations : Observations[i].bucket = b}
             accused == CheckSeasonal([bucket |-> b, profile |-> p], baseline)
         IN  /\ accused # {} => Cardinality(seen) >= MinObservations
             /\ \A v \in accused, i \in seen : v \notin Metrics(Observations[i].profile)

\* `contracts`: "Verify every contract declared in fathom.yml against what is currently
\* true."  (cli/main.py:1058)
ContractsSeeWhatIsTrue == saved # << >> /\ IsMet(ContractReport) => unmet = {}

\* reidentification.singling_out: "Columns near-unique across the rows, which single a
\* person out whatever they are called."  (govern/reidentification.py:203)
NearUniqueColumnsAreReported ==
  \A c \in NearUnique(shape) : \E f \in Assess(shape).findings : c \in f[2]
=============================================================================
