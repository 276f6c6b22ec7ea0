---------------------------- MODULE MappingWalk ----------------------------
(***************************************************************************)
(* A walk down a path of the dependency graph, one edge at a time, beside  *)
(* the single mapping graph/query.py composes for the whole path           *)
(* (effective_mapping): the dirty partition the walk has reached must be   *)
(* among the ones the composed mapping claims for the seed.                *)
(***************************************************************************)
EXTENDS Mappings

CONSTANTS SeedKeys,    \* dirty partitions the walk may start from
          Hops,        \* edges a walk may take: [mappings, spec], where mappings
                       \* are the ones of the parallel edges to the next dataset
          Caps,        \* smaller values of max_keys to compare with
          MaxHops      \* bound: length of the longest path walked

VARIABLES seed,       \* the dirty partition at the head of the path
          at,         \* a partition it makes dirty at the current dataset
          spec,       \* the spec of the current dataset
          composed,   \* the mapping accumulated so far
          length      \* edges walked

walkVars == <<seed, at, spec, composed, length>>

\* edge_between: the join of the mappings of all parallel edges.
EdgeBetween(hop) ==
  LET joined[i \in DOMAIN hop.mappings] ==
        IF i = 1 THEN hop.mappings[1] ELSE Join(joined[i - 1], hop.mappings[i])
  IN  joined[Len(hop.mappings)]

WalkInit ==
  /\ seed \in SeedKeys
  /\ at = seed
  /\ spec = << >>
  /\ composed = << >>
  /\ length = 0

\* One hop of effective_mapping's loop; the walk itself takes any one of the
\* parallel edges, and any one of the partitions that edge makes dirty.
Hop ==
  /\ length < MaxHops
  /\ \E hop \in Hops :
       /\ composed' = IF length = 0 THEN EdgeBetween(hop)
                      ELSE Compose(composed, EdgeBetween(hop))
       /\ spec' = hop.spec
       /\ \E i \in DOMAIN hop.mappings : at' \in Apply(hop.mappings[i], at, hop.spec)
  /\ length' = length + 1
  /\ UNCHANGED seed

WalkSpec == WalkInit /\ [][Hop]_walkVars

-----------------------------------------------------------------------------
\* A partition binds no field its dataset lacks.
WalkTypeOK ==
  /\ seed \in SeedKeys
  /\ at \in Key
  /\ length > 0 => \A f \in FieldNames \ {spec[i].name : i \in DOMAIN spec} : at[f] = ANY
  /\ length \in 0 .. MaxHops

\* The invariant of core/partitions.py, carried along whole paths: what walking
\* the edges one at a time makes dirty is covered by the composed mapping.
ComposedCoversWalk ==
  length > 0 => CoveredBy(Apply(composed, seed, spec), at)

\* What leq and join promise, for every mapping a path short of MaxHops composes and
\* every mapping of a hop: a join covers both sides, and a mapping that leq calls
\* wider really claims every partition the other one does.
WiderClaimsMore ==
  length \in 1 .. MaxHops - 1 =>
    LET Claims(m)    == Apply(m, seed, spec)
        Within(A, B) == \A k \in A : CoveredBy(B, k)
        claimed      == Claims(composed)
    IN  \A other \in UNION {{hop.mappings[i] : i \in DOMAIN hop.mappings} : hop \in Hops} :
          LET both == Join(composed, other)
          IN  /\ Leq(composed, both) /\ Leq(other, both)
              /\ Within(claimed, Claims(both))
              /\ Leq(composed, other) => Within(claimed, Claims(other))
              /\ Leq(other, composed) => Within(Claims(other), claimed)

\* apply's max_keys, "a deliberate loss of precision that preserves the
\* over-approximation": with a smaller cap the composed mapping claims at least the
\* same partitions and names no more of them than the cap; a cap that is not reached
\* changes nothing.
CapOnlyWidens ==
  length > 0 =>
    LET all == Apply(composed, seed, spec)
    IN  \A most \in Caps :
          LET few == ApplyWithin(composed, seed, spec, most)
          IN  /\ \A k \in all : CoveredBy(few, k)
              /\ Cardinality(few) <= most
              /\ Cardinality(all) <= most => few = all
=============================================================================
