----------------------------- MODULE MCRebuild -----------------------------
(***************************************************************************)
(* Instance of Rebuild: every graph over three datasets and, over four,    *)
(* the shapes three cannot make, all of it dirty below the seeds, with     *)
(* every order the planner may hand over: the datasets no cycle is above   *)
(* in any order that respects their edges, then the others by name.        *)
(***************************************************************************)
EXTENDS Rebuild, SequencesExt

CONSTANTS eu, us, none

MCDatasets == {"a", "b", "c", "d"}
ByName     == <<"a", "b", "c", "d">>

Days(rest, times) == {[rest |-> rest, time |-> t] : t \in times}

\* Days with a gap that fill a batch and more, in one region, and a day of another;
\* single partitions; a whole dataset.
Dirty == [a |-> Days(eu, {1, 2, 3, 5}) \cup Days(us, {2}), b |-> Days(eu, {4}),
          c |-> Days(us, {none}), d |-> Days(eu, {4})]

Pairs(S) == {p \in S \X S : p[1] # p[2]}

\* A diamond, one with a shortcut, one with a dataset that reads itself, and a chain
\* into a cycle.
Diamond == {<<"a", "b">>, <<"a", "c">>, <<"b", "d">>, <<"c", "d">>}
Graphs  == (SUBSET Pairs({"a", "b", "c"}))
             \cup {Diamond, Diamond \cup {<<"a", "d">>, <<"c", "b">>}, Diamond \cup {<<"b", "b">>},
                   {<<"a", "b">>, <<"b", "c">>, <<"c", "d">>, <<"d", "c">>}}

Below(edges, S) ==
  LET reach[i \in 0 .. 4] ==
        IF i = 0 THEN S
        ELSE LET above == reach[i - 1] IN above \cup {e[2] : e \in {x \in edges : x[1] \in above}}
  IN  reach[4]

Partial(edges, seeds) ==
  [edges |-> edges,
   dirty |-> [d \in MCDatasets |-> IF d \in Below(edges, seeds) THEN Dirty[d] ELSE {}]]

Respects(order, pl) ==
  \A i, j \in DOMAIN order : order[i] \in ParentsIn(pl, order[j]) => i < j

Ordered(pl) ==
  LET acyclic == AcyclicIn(pl)
      rest    == SelectSeq(ByName, LAMBDA d : d \in AffectedBy(pl) \ acyclic)
  IN  {[edges |-> pl.edges, dirty |-> pl.dirty, order |-> o \o rest] :
         o \in {s \in SetToSeqs(acyclic) : Respects(s, pl)}}

MCPlans == UNION {Ordered(Partial(g, s)) : g \in Graphs, s \in {{"a"}, {"b", "c"}}}
=============================================================================
