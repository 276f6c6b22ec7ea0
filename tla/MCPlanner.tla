----------------------------- MODULE MCPlanner -----------------------------
(***************************************************************************)
(* Instance of Planner: every graph of up to MaxEdges edges over three     *)
(* datasets, two partitioned by day and one by month, with a rollup, a     *)
(* moving window and an unprovable mapping to choose from on each edge.    *)
(***************************************************************************)
EXTENDS Planner

CONSTANTS MaxEdges, eu, us

MCDatasets   == {"a", "b", "c"}
MCByName     == <<"a", "b", "c">>
MCFieldNames == {"dt", "region"}
MCLabels     == {eu, us}
MCDaysBefore == <<0, 31, 60, 91, 121>>          \* a leap year's January to April

Time(g) == [name |-> "dt", kind |-> "time", grain |-> g]
Region  == [name |-> "region", kind |-> "value"]

MCSpec == [a |-> <<Time(DAY), Region>>, b |-> <<Time(DAY)>>, c |-> <<Time(MONTH)>>]

\* What an edge from s to t may claim.
Mappings(s, t) ==
  {Rollup(MCSpec[s], MCSpec[t])}
  \cup (IF t = "b" THEN {Unknown(MCSpec[t])} ELSE {})
  \cup (IF s = "a" /\ t # "c" THEN {[dt |-> TimeWindow("dt", 0, 1, DAY, DAY),
                                     region |-> Passthrough("region")]} ELSE {})

EdgesFrom(s) ==
  UNION {{[dst |-> t, mapping |-> m] : m \in Mappings(s, t)} : t \in MCDatasets}

Lists(s, most) == UNION {[1 .. n -> EdgesFrom(s)] : n \in 0 .. most}

MCGraphs ==
  UNION {UNION {{[spec |-> MCSpec, out |-> [a |-> x, b |-> y, c |-> z]] :
                   z \in Lists("c", Lesser(1, MaxEdges - Len(x) - Len(y)))} :
                  y \in Lists("b", Lesser(2, MaxEdges - Len(x)))} :
           x \in Lists("a", Lesser(2, MaxEdges))}

\* The last day of February in eu, or in every region; a month of c as well.
Feb29 == 24 * 59
MCSeedSets ==
  {[a |-> {[dt |-> Feb29, region |-> eu], [dt |-> 0, region |-> us]}, b |-> {}, c |-> {}],
   [a |-> {[dt |-> Feb29, region |-> eu], [dt |-> Feb29, region |-> ANY]},
    b |-> {}, c |-> {[dt |-> 0, region |-> ANY]}]}

-----------------------------------------------------------------------------
\* graph/model.py, Graph.invalidate: away from cycles the plan is exactly what can be derived,
\* and no dataset grows more often than there are paths to it.
ExactOffCycles == Exact /\ GrowsOncePerPath
=============================================================================
