------------------------------ MODULE Mappings ------------------------------
(***************************************************************************)
(* Key predicates (core/types.py) and the partition-mapping lattice        *)
(* (core/partitions.py): what one dirty input partition makes dirty.       *)
(*                                                                         *)
(* A KeyPredicate is a total function over FieldNames: a field the source  *)
(* leaves out of the bindings reads as ANY there too (KeyPredicate.get).   *)
(* A time value is an Int (an hour, see Grains); any other value is a      *)
(* member of Labels.  A PartitionSpec is the sequence of its fields, in    *)
(* declaration order.                                                      *)
(***************************************************************************)
EXTENDS Grains, FiniteSets

CONSTANTS FieldNames,   \* partition field names
          Labels,       \* values of the fields that are not times
          ANY,          \* the wildcard binding
          MaxKeys       \* MAX_ENUMERATED_KEYS of the source

ASSUME MappingsAssumption ==
  /\ ANY \notin Int \cup Labels
  /\ MaxKeys \in Nat \ {0}

Value == Int \cup Labels \cup {ANY}
Key   == [FieldNames -> Value]

WholeDataset == [f \in FieldNames |-> ANY]      \* KeyPredicate.unbounded

IsUnboundedKey(k) == \A f \in FieldNames : k[f] = ANY

Subsumes(outer, inner) ==
  \A f \in FieldNames : outer[f] = ANY \/ outer[f] = inner[f]

CoveredBy(candidates, k) == \E c \in candidates : Subsumes(c, k)

-----------------------------------------------------------------------------
\* The three field mappings, and the partition mapping of an edge: a function
\* from the mapped output fields; a field with no entry is UNBOUNDED.
UNBOUNDED == [kind |-> "unbounded"]
Passthrough(source) == [kind |-> "passthrough", source |-> source]
TimeWindow(source, lo, hi, inGrain, outGrain) ==
  [kind |-> "window", source |-> source, lo |-> lo, hi |-> hi,
   in |-> inGrain, out |-> outGrain]

\* What TimeWindow.__post_init__ accepts.
ValidWindow(lo, hi, inGrain, outGrain) == lo <= hi /\ inGrain <= outGrain

Get(mapping, f) == IF f \in DOMAIN mapping THEN mapping[f] ELSE UNBOUNDED

IsUnboundedMapping(m) == \A f \in DOMAIN m : m[f] = UNBOUNDED

Unknown(spec) == [f \in {spec[i].name : i \in DOMAIN spec} |-> UNBOUNDED]

FieldOf(spec, name) == {spec[i] : i \in {j \in DOMAIN spec : spec[j].name = name}}

\* PartitionMapping.rollup: same-named fields of the same kind keep their
\* relationship; a refinement of a time field, or a new field, is unbounded.
Rollup(src, dst) ==
  LET one(f) ==
        IF \E g \in FieldOf(src, f.name) : g.kind = f.kind
        THEN LET g == CHOOSE x \in FieldOf(src, f.name) : TRUE
             IN  IF f.kind # "time" THEN Passthrough(f.name)
                 ELSE IF f.grain < g.grain THEN UNBOUNDED
                 ELSE TimeWindow(f.name, 0, 0, g.grain, f.grain)
        ELSE UNBOUNDED
  IN  [n \in {dst[i].name : i \in DOMAIN dst} |->
         one(CHOOSE f \in FieldOf(dst, n) : TRUE)]

Identity(spec) == Rollup(spec, spec)

-----------------------------------------------------------------------------
\* _compose_field: one output field of the second edge, through the first.
ComposeField(first, second) ==
  IF second = UNBOUNDED THEN UNBOUNDED
  ELSE LET inner == Get(first, second.source)
       IN  IF inner = UNBOUNDED THEN UNBOUNDED
           ELSE IF second.kind = "passthrough" THEN inner
           ELSE IF inner.kind = "passthrough"
                THEN [second EXCEPT !.source = inner.source]
           ELSE IF inner.out # second.in THEN UNBOUNDED
           ELSE LET w == ConvertWindow(inner.lo, inner.hi, inner.out, second.out)
                IN  IF w = NoBound THEN UNBOUNDED
                    ELSE TimeWindow(inner.source, w.lo + second.lo,
                                    w.hi + second.hi, inner.in, second.out)

Compose(first, second) == [f \in DOMAIN second |-> ComposeField(first, second[f])]

\* Two windows are comparable when they differ in their bounds only.
SameFrame(a, b) ==
  /\ a.kind = "window" /\ b.kind = "window"
  /\ a.source = b.source /\ a.in = b.in /\ a.out = b.out

Greater(a, b) == IF a >= b THEN a ELSE b

\* _join_field: the narrowest mapping that covers both.
JoinField(a, b) ==
  IF a = UNBOUNDED \/ b = UNBOUNDED THEN UNBOUNDED
  ELSE IF a.kind = "passthrough" /\ b.kind = "passthrough"
       THEN IF a.source = b.source THEN a ELSE UNBOUNDED
  ELSE IF SameFrame(a, b)
       THEN [a EXCEPT !.lo = Lesser(a.lo, b.lo), !.hi = Greater(a.hi, b.hi)]
  ELSE UNBOUNDED

Join(a, b) ==
  [f \in DOMAIN a \cup DOMAIN b |-> JoinField(Get(a, f), Get(b, f))]

\* leq, for one field: b covers at least everything a does.
LeqField(a, b) ==
  \/ b = UNBOUNDED
  \/ /\ a # UNBOUNDED
     /\ a.kind = "passthrough" /\ b.kind = "passthrough"
     /\ a.source = b.source
  \/ /\ a # UNBOUNDED /\ b # UNBOUNDED
     /\ SameFrame(a, b)
     /\ a.lo >= b.lo /\ a.hi <= b.hi

Leq(a, b) ==
  \A f \in DOMAIN a \cup DOMAIN b : LeqField(Get(a, f), Get(b, f))

-----------------------------------------------------------------------------
\* _field_values: the output values one field can take; {ANY} stands for the
\* source's None (unconstrained).
FieldValues(fm, k) ==
  IF fm = UNBOUNDED THEN {ANY}
  ELSE LET src == k[fm.source]
       IN  IF src = ANY THEN {ANY}
           ELSE IF fm.kind = "passthrough" THEN {src}
           ELSE IF src \notin Int THEN {ANY}
           ELSE LET anchor == Truncate(src, fm.out)
                IN  Span(Step(anchor, fm.lo, fm.out),
                         Step(anchor, fm.hi, fm.out), fm.out)

\* Size of the cross product of the per-field choices.
Product(choices) ==
  LET upto[i \in 0 .. Len(choices)] ==
        IF i = 0 THEN 1 ELSE upto[i - 1] * Cardinality(choices[i])
  IN  upto[Len(choices)]

\* The first of the largest constrained dimensions gives up its values.
CollapseWidest(choices) ==
  LET constrained == {i \in DOMAIN choices : choices[i] # {ANY}}
      widest(i)   == /\ \A j \in constrained :
                          Cardinality(choices[j]) <= Cardinality(choices[i])
                     /\ \A j \in constrained : j < i =>
                          Cardinality(choices[j]) < Cardinality(choices[i])
  IN  IF constrained = {} THEN choices
      ELSE [choices EXCEPT ![CHOOSE i \in constrained : widest(i)] = {ANY}]

\* The while loop of apply: at most one pass per field.
Capped(choices, most) ==
  LET after[n \in 0 .. Len(choices)] ==
        IF n = 0 THEN choices
        ELSE IF Product(after[n - 1]) > most
             THEN CollapseWidest(after[n - 1]) ELSE after[n - 1]
  IN  after[Len(choices)]

\* The cross product of the choices, as bindings of the fields of spec.
Combinations(choices, spec) ==
  LET combos[i \in 0 .. Len(spec)] ==
        IF i = 0 THEN {WholeDataset}
        ELSE {[k EXCEPT ![spec[i].name] = v] : k \in combos[i - 1], v \in choices[i]}
  IN  combos[Len(spec)]

FieldChoices(mapping, k, spec) == [i \in DOMAIN spec |-> FieldValues(Get(mapping, spec[i].name), k)]

\* apply with an explicit max_keys.
ApplyWithin(mapping, k, spec, most) == Combinations(Capped(FieldChoices(mapping, k, spec), most), spec)

\* apply: the output partitions one dirty input partition makes dirty.
Apply(mapping, k, spec) == ApplyWithin(mapping, k, spec, MaxKeys)
=============================================================================
