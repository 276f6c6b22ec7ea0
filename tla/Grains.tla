------------------------------- MODULE Grains -------------------------------
(***************************************************************************)
(* Calendar arithmetic of core/grains.py: grains, bucket truncation,       *)
(* stepping, spans and the conversion of offset windows between grains.    *)
(*                                                                         *)
(* A datetime is an Int: hours since the start of the modelled calendar    *)
(* (naive UTC, so a day always has 24 hours).  The calendar itself is a    *)
(* parameter: the number of days before each of its consecutive months,    *)
(* with the day after the last month at the end.  Months are numbered from *)
(* 0, the first of them a January.                                         *)
(***************************************************************************)
EXTENDS Integers, Sequences

CONSTANT DaysBefore

ASSUME CalendarAssumption ==
  /\ DaysBefore \in Seq(Nat)
  /\ Len(DaysBefore) > 1
  /\ DaysBefore[1] = 0
  /\ \A i \in 1 .. Len(DaysBefore) - 1 :
       DaysBefore[i + 1] - DaysBefore[i] \in 28 .. 31

\* The IntEnum of the source: a larger grain is a coarser one.
HOUR  == 1
DAY   == 2
MONTH == 3
YEAR  == 4
Grain == {HOUR, DAY, MONTH, YEAR}

MonthStart(m)  == DaysBefore[m + 1]
MonthLength(m) == DaysBefore[m + 2] - DaysBefore[m + 1]

DayOf(t)   == t \div 24

\* A month has 28 to 31 days, which narrows the candidates.
MonthOf(t) == CHOOSE m \in (DayOf(t) \div 31) .. (DayOf(t) \div 28) :
                MonthStart(m) <= DayOf(t) /\ DayOf(t) < MonthStart(m + 1)

\* Index of the bucket that holds t, and the first hour of a bucket.
Bucket(t, grain) ==
  CASE grain = HOUR  -> t
    [] grain = DAY   -> DayOf(t)
    [] grain = MONTH -> MonthOf(t)
    [] grain = YEAR  -> MonthOf(t) \div 12

BucketStart(i, grain) ==
  CASE grain = HOUR  -> i
    [] grain = DAY   -> 24 * i
    [] grain = MONTH -> 24 * MonthStart(i)
    [] grain = YEAR  -> 24 * MonthStart(12 * i)

\* truncate: round down to the start of the enclosing bucket.
Truncate(t, grain) == BucketStart(Bucket(t, grain), grain)

\* step: advance by whole units; a month or year step keeps the day of the
\* month, clamped to the length of the target month.
Lesser(a, b) == IF a <= b THEN a ELSE b

StepMonths(t, n) ==
  LET m   == MonthOf(t)
      day == DayOf(t) - MonthStart(m)
  IN  24 * (MonthStart(m + n) + Lesser(day, MonthLength(m + n) - 1)) + (t % 24)

Step(t, n, grain) ==
  CASE n = 0         -> t
    [] grain = HOUR  -> t + n
    [] grain = DAY   -> t + 24 * n
    [] grain = MONTH -> StepMonths(t, n)
    [] grain = YEAR  -> StepMonths(t, 12 * n)

\* span: the bucket starts from start through end, none when end < start.
\* (Its refusal of more than 100,000 buckets is outside the modelled sizes.)
Span(start, end, grain) ==
  IF end < start THEN {}
  ELSE {BucketStart(i, grain) : i \in Bucket(start, grain) .. Bucket(end, grain)}

-----------------------------------------------------------------------------
\* The fewest fine units one coarse unit can hold.
MinFinePerCoarse(coarse, fine) ==
  CASE <<coarse, fine>> = <<DAY, HOUR>>   -> 23
    [] <<coarse, fine>> = <<MONTH, HOUR>> -> 28 * 24 - 1
    [] <<coarse, fine>> = <<MONTH, DAY>>  -> 28
    [] <<coarse, fine>> = <<YEAR, HOUR>>  -> 365 * 24 - 1
    [] <<coarse, fine>> = <<YEAR, DAY>>   -> 365
    [] <<coarse, fine>> = <<YEAR, MONTH>> -> 12

CeilDiv(a, b) == (a + b - 1) \div b

NoBound == [lo |-> 0, hi |-> -1]    \* the source's None: no useful bound

\* Mutant: bounds rounded towards the anchor, as if a window never straddled a boundary.
ConvertWindowTight(lo, hi, frm, to) ==
  IF frm = to THEN [lo |-> lo, hi |-> hi]
  ELSE IF frm > to THEN NoBound
  ELSE LET divisor == MinFinePerCoarse(to, frm)
       IN  [lo |-> IF lo >= 0 THEN 0 ELSE -((-lo) \div divisor),
            hi |-> IF hi <= 0 THEN 0 ELSE hi \div divisor]

\* convert_window: re-express [lo, hi] counted in frm units as a window
\* counted in to units, widened for straddling and for anchor slack.
ConvertWindow(lo, hi, frm, to) ==
  IF frm = to THEN [lo |-> lo, hi |-> hi]
  ELSE IF frm > to THEN NoBound
  ELSE LET divisor == MinFinePerCoarse(to, frm)
       IN  [lo |-> IF lo >= 0 THEN 0 ELSE -(CeilDiv(-lo, divisor) + 1),
            hi |-> (IF hi <= 0 THEN 0 ELSE CeilDiv(hi, divisor) + 1) + 1]
=============================================================================
