------------------------------- MODULE Costs --------------------------------
(***************************************************************************)
(* What rebuilding costs and is worth: graph/plan/cost.py, billing.py,     *)
(* lifetime.py, observe/usage.py.                                          *)
(***************************************************************************)
EXTENDS Lineage

(***************************************************************************)
(* Prices and bills: graph/plan/cost.py prices a plan and what it avoided, *)
(* graph/plan/billing.py sets the price against what was charged.  All the *)
(* rates are scaled by one factor, price = <<n, d>>; what a partition      *)
(* costs at a price of one is its Unit.                                    *)
(***************************************************************************)

CONSTANTS Warehouse,           \* the graph
          Measured1,           \* dataset -> what was measured of one partition, beyond the floor
          PartitionsOf,        \* dataset -> how many there are
          PricedPlans,         \* plans: dataset -> dirty partitions
          Amounts, ChargedTo,    \* of a bill; 0: nobody is named
          MinPeriods, TolerancePercent,
          MaxBills, MaxPriced, MaxCalibrations, LastBillingDay

ASSUME BillingAssumption ==
  /\ IsLineage(Warehouse) /\ \A d \in Warehouse.nodes : PartitionsOf[d] \in Nat
  /\ \A d \in DOMAIN Measured1 : Measured1[d] \in Nat
  /\ \A plan \in PricedPlans : IsFiniteSet(DOMAIN plan) /\ \A d \in DOMAIN plan : plan[d] \in Nat
  /\ Amounts \subseteq Nat /\ IsFiniteSet(ChargedTo)

VARIABLES bills,               \* a sequence of [day, amount, dataset]; dataset 0: not attributed
          priced,              \* the plans that ran: [day, plan]
          price, calibrations,
          counted,             \* datasets whose partitions were listed
          billingDay
billingVars == <<bills, priced, price, calibrations, counted, billingDay>>

\* cost_of a partition: an unmeasured dataset falls back to the flat price.
Unit(d) == 1 + IF d \in DOMAIN Measured1 THEN Measured1[d] ELSE 0
EstimatePlan(plan) == SumFunction([d \in DOMAIN plan |-> plan[d] * Unit(d)])
CountOr1(d, known)    == IF d \in known THEN PartitionsOf[d] ELSE 1
EstimateFullRebuild(known) == SumFunction([d \in Warehouse.nodes |-> CountOr1(d, known) * Unit(d)])
Savings(plan, known) ==
  LET planned == EstimatePlan(plan)  full == EstimateFullRebuild(known)
  IN  [planned |-> planned, full |-> full, avoided |-> Max({0, full - planned}),
       partitions |-> SumFunction(plan),
       total |-> SumFunction([d \in Warehouse.nodes |-> CountOr1(d, known)])]
AttributedCost(consumer) == SumFunction([d \in Closure(Warehouse, consumer) |-> Unit(d)])
UnusedExpensive(threshold) ==
  {d \in Warehouse.nodes : Descendants(Warehouse, d) = {} /\ Unit(d) > threshold}

-----------------------------------------------------------------------------
\* billing, over the rows of a window: the indices of bills, or of plans that ran.
InBillingWindow(log, start, end) == {i \in DOMAIN log : start <= log[i].day /\ log[i].day <= end}
TotalBilled(rows)     == SumFunction([i \in rows |-> bills[i].amount])
UnattributedBills(rows) == {i \in rows : bills[i].dataset = 0}
BilledTo(rows, d)     == TotalBilled({i \in rows : bills[i].dataset = d})
BilledPeriods(rows)   == Cardinality({bills[i].day : i \in rows})
ByPeriod(rows)        == [t \in {bills[i].day : i \in rows} |-> TotalBilled({i \in rows : bills[i].day = t})]

\* within: |modelled - billed| / billed, of a modelled n/d.
Within(modelled, billed) ==
  LET off == modelled[1] - billed * modelled[2]
  IN  /\ billed > 0
      /\ 100 * Max({off, -off}) <= TolerancePercent * billed * modelled[2]

\* reconcile: per dataset only what the rows name and the model priced.
Reconcile(modelled, rows, perDataset) ==
  [modelled |-> modelled, billed |-> TotalBilled(rows), periods |-> BilledPeriods(rows),
   perDataset |-> [d \in {bills[i].dataset : i \in rows} \cap DOMAIN perDataset |->
                     <<perDataset[d], BilledTo(rows, d)>>]]

\* calibrate: None when there is too little to believe, nothing modelled, or no need to.
MustCalibrate(result) ==
  /\ result.periods >= MinPeriods /\ result.modelled[1] > 0
  /\ ~Within(result.modelled, result.billed)
ScaledDown(p, result) ==       \* mutant: the correction is inverted
  <<p[1] * result.modelled[1], p[2] * result.modelled[2] * result.billed>>
Scaled(p, result) ==
  <<p[1] * result.billed * result.modelled[2], p[2] * result.modelled[1]>>

-----------------------------------------------------------------------------
\* What the plans of a window cost at a price, in all and for each dataset.
UnitsIn(start, end) ==
  SumFunction([i \in InBillingWindow(priced, start, end) |-> EstimatePlan(priced[i].plan)])
UnitsOf(d, start, end) ==
  LET runOn(i) == d \in DOMAIN priced[i].plan
  IN  SumFunction([i \in {j \in InBillingWindow(priced, start, end) : runOn(j)} |-> priced[i].plan[d] * Unit(d)])
ReconcileWindow(start, end) ==
  Reconcile(<<price[1] * UnitsIn(start, end), price[2]>>, InBillingWindow(bills, start, end),
            [d \in {x \in Warehouse.nodes : UnitsOf(x, start, end) > 0} |-> UnitsOf(d, start, end)])

BillingInit ==
  /\ bills = << >> /\ priced = << >> /\ price = <<1, 1>> /\ calibrations = 0
  /\ counted = {} /\ billingDay = 1

RunPriced == \E plan \in PricedPlans :
  /\ Len(priced) < MaxPriced /\ priced' = Append(priced, [day |-> billingDay, plan |-> plan])
  /\ UNCHANGED <<bills, price, calibrations, counted, billingDay>>
Charge == \E amount \in Amounts, d \in ChargedTo :
  /\ Len(bills) < MaxBills
  /\ bills' = Append(bills, [day |-> billingDay, amount |-> amount, dataset |-> d])
  /\ UNCHANGED <<priced, price, calibrations, counted, billingDay>>
CountPartitions == \E d \in Warehouse.nodes \ counted :          \* partition_counts_from
  counted' = counted \cup {d} /\ UNCHANGED <<bills, priced, price, calibrations, billingDay>>
Calibrate == \E start, end \in 1 .. LastBillingDay :
  /\ calibrations < MaxCalibrations /\ MustCalibrate(ReconcileWindow(start, end))
  /\ price' = Scaled(price, ReconcileWindow(start, end)) /\ calibrations' = calibrations + 1
  /\ UNCHANGED <<bills, priced, counted, billingDay>>
NextBillingDay ==
  /\ billingDay < LastBillingDay /\ billingDay' = billingDay + 1
  /\ UNCHANGED <<bills, priced, price, calibrations, counted>>

BillingNext == RunPriced \/ Charge \/ CountPartitions \/ Calibrate \/ NextBillingDay

-----------------------------------------------------------------------------
\* A saving is never overstated: what is claimed while some partitions are not listed is no
\* more than once all are, where no dataset is listed as empty (one that is counts as one until then);
\* what a plan costs and avoids is at least the rebuild it replaced,
\* and nobody's upstream holds a dataset called unused or costs more than what is below it.  No charge is apportioned: the bill
\* of a dataset is what the rows name it for, and all of them with the rest are the total.
SavingsAreModest ==
  /\ \A plan \in PricedPlans :
       LET claimed == Savings(plan, counted)  real == Savings(plan, Warehouse.nodes)
       IN  /\ (\A d \in Warehouse.nodes : PartitionsOf[d] > 0) =>
                claimed.avoided <= real.avoided /\ claimed.total <= real.total
           /\ claimed.planned + claimed.avoided >= claimed.full
  /\ \A c \in Warehouse.nodes :
       /\ UnusedExpensive(0) \cap Closure(Warehouse, c) \subseteq {c}
       /\ \A a \in Closure(Warehouse, c) : AttributedCost(a) <= AttributedCost(c)
  /\ \A start, end \in 1 .. LastBillingDay :
       LET rows == InBillingWindow(bills, start, end)  result == ReconcileWindow(start, end)
       IN  /\ SumFunction([d \in ChargedTo \ {0} |-> BilledTo(rows, d)]) + TotalBilled(UnattributedBills(rows))
                = result.billed
           /\ SumFunction(ByPeriod(rows)) = result.billed
           /\ SumFunction([d \in DOMAIN result.perDataset |-> result.perDataset[d][2]]) <= result.billed

\* After a calibration the model prices the window as the bill did, whatever other windows
\* were calibrated before: a second one over the same rows finds nothing to do.
RatesMatchTheBill ==
  price' # price =>
    \E start, end \in 1 .. LastBillingDay :
      LET rows == {i \in DOMAIN bills : start <= bills[i].day /\ bills[i].day <= end}
          billed == SumFunction([i \in rows |-> bills[i].amount])
          units  == SumFunction([i \in {j \in DOMAIN priced : start <= priced[j].day /\ priced[j].day <= end} |->
                                   EstimatePlan(priced[i].plan)])
      IN  /\ Cardinality({bills[i].day : i \in rows}) >= MinPeriods
          /\ price'[1] * units = price'[2] * billed
          /\ ~Within(<<price[1] * units, price[2]>>, billed)

\* What bias says of a window in which nothing was charged (billing.py:121): it is "no
\* answer".  calibrate takes it for one, and scales every rate to nothing.
NothingBilledIsNoAnswer == [][price'[1] > 0]_billingVars

-----------------------------------------------------------------------------
(***************************************************************************)
(* observe/usage.py and graph/plan/lifetime.py over the read and run logs  *)
(* of store/sqlite.py: what is read, by whom, and what it costs, and so    *)
(* what might be retired.  An absent read event is not an unread table.    *)
(***************************************************************************)

CONSTANTS Readable,        \* the graphs
          Principals, Scheduled,     \* the ones that look like a job
          ReadWindow, Costs, Threshold,
          MaxReads, MaxRuns, LastDate

ASSUME UsageAssumption == \A g \in Readable : IsLineage(g)

VARIABLES readable, reads, runs, date
usageVars == <<readable, reads, runs, date>>

\* usage(window): summarize over the reads at or after now - window.
InWindow == {i \in DOMAIN reads : reads[i].at >= date - ReadWindow}
ReadsOf(d) == {i \in InWindow : reads[i].dataset = d}
Stats(d)   == [reads |-> Cardinality(ReadsOf(d)), principals |-> {reads[i].who : i \in ReadsOf(d)},
               last |-> Max({-1} \cup {reads[i].at : i \in ReadsOf(d)})]
HumanPrincipals(stats) == stats.principals \ Scheduled

NeverObserved == {d \in readable.nodes : Stats(d).reads = 0}
UnreadSince(t) == {d \in readable.nodes : Stats(d).last # -1 /\ Stats(d).last < t}
ReadByAnyone(d, ignoreScheduled) ==
  Stats(d).reads > 0 /\ (ignoreScheduled => HumanPrincipals(Stats(d)) # {})

ReadersChecked(d) == Children(readable, d)         \* mutant: one step down
ReadersBelow(d)   == Descendants(readable, d)
RetirementCandidates(ignoreScheduled) ==
  {d \in readable.nodes : /\ ~ReadByAnyone(d, ignoreScheduled)
                          /\ \A c \in ReadersBelow(d) : ~ReadByAnyone(c, ignoreScheduled)}
ReadCounts(peopleOnly) ==
  [d \in {x \in readable.nodes : Stats(x).reads > 0} |->
     IF peopleOnly /\ HumanPrincipals(Stats(d)) = {} THEN 0 ELSE Stats(d).reads]

\* lifetime.accumulate and value.
RunsOf(d) == {i \in DOMAIN runs : runs[i].dataset = d}
Spend(d)  == SumFunction([i \in RunsOf(d) |-> runs[i].cost])
Accumulate(d) == [runs |-> Cardinality(RunsOf(d)), spend |-> Spend(d),
                  span |-> Max({0} \cup {runs[i].at - runs[j].at : i, j \in RunsOf(d)})]
Verdict(d, counts) ==
  LET n == IF d \in DOMAIN counts THEN counts[d] ELSE 0
  IN  IF Accumulate(d).runs = 0 THEN "unmeasured"
      ELSE IF n > 0 THEN "earning" ELSE IF Spend(d) >= Threshold THEN "review" ELSE "cheap_and_quiet"
Value(counts) == [d \in DOMAIN counts \cup {x \in readable.nodes : RunsOf(x) # {}} |-> Verdict(d, counts)]
Actionable(findings) == {d \in DOMAIN findings : findings[d] = "review"}
BurnRate(d, per) == IF Accumulate(d).span = 0 THEN -1 ELSE (Spend(d) * per) \div Accumulate(d).span

UsageInit == readable \in Readable /\ reads = << >> /\ runs = << >> /\ date = 0

\* A query log is replayed in batches: one transaction, older events too.
RecordRead(d, who, at) ==
  /\ Len(reads) < MaxReads /\ at \in 0 .. date
  /\ reads' = Append(reads, [dataset |-> d, who |-> who, at |-> at])
  /\ UNCHANGED <<readable, runs, date>>
RecordRun(d, cost) ==
  /\ Len(runs) < MaxRuns
  /\ runs' = Append(runs, [dataset |-> d, cost |-> cost, at |-> date])
  /\ UNCHANGED <<readable, reads, date>>
NextDate == date < LastDate /\ date' = date + 1 /\ UNCHANGED <<readable, reads, runs>>
UsageNext ==
  \/ \E d \in readable.nodes, who \in Principals, at \in {date - 1, date} : RecordRead(d, who, at)
  \/ \E d \in readable.nodes, c \in Costs : RecordRun(d, c)
  \/ NextDate

-----------------------------------------------------------------------------
\* What is proposed for retirement feeds nothing a person read in the window, through
\* any number of datasets; what was read, in whatever order the reads were recorded, is not
\* called unread since before; discounting scheduled readers only adds candidates; nothing
\* a read kept from review is called expensive, whatever it cost; and a dataset without
\* a cost history is judged neither way.  (Cost and reads need not agree: a table only
\* a job reads is earning its keep and a candidate.)
RetirementSparesWhatFeedsAReader ==
  /\ \A i \in DOMAIN reads :
       reads[i].who \notin Scheduled /\ reads[i].at >= date - ReadWindow =>
         RetirementCandidates(TRUE) \cap Closure(readable, reads[i].dataset) = {}
  /\ RetirementCandidates(FALSE) \subseteq RetirementCandidates(TRUE)
  /\ RetirementCandidates(FALSE) \subseteq NeverObserved
  /\ \A i \in InWindow : \A t \in 0 .. reads[i].at :
       reads[i].dataset \notin UnreadSince(t) \cup NeverObserved
  /\ \A people \in BOOLEAN :
       LET v == Value(ReadCounts(people)) IN
       \A d \in Actionable(v) :
         /\ ~ReadByAnyone(d, people)
         /\ RunsOf(d) # {} /\ Spend(d) >= Threshold
  /\ \A d \in readable.nodes : BurnRate(d, 30) >= 0 => Cardinality(RunsOf(d)) > 1
=============================================================================
