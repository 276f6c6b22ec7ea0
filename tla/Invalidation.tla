---------------------------- MODULE Invalidation ----------------------------
(***************************************************************************)
(* What Graph.invalidate promises its callers, whatever worklist computes  *)
(* it ("over-approximates by construction", ADR 0002): the plan grows from *)
(* nothing, a partition once known to be stale stays covered, and when the *)
(* plan is handed over it covers the seeds and everything any edge makes   *)
(* dirty downstream of what it covers.                                     *)
(***************************************************************************)
CONSTANTS Datasets,
          CoveredBy(_, _),   \* a set of predicates covers a predicate
          Apply(_, _, _)     \* what a dirty partition makes dirty along an edge

VARIABLES graph,   \* [spec, out]: see Planner
          seeds,   \* what changed, per dataset
          dirty,   \* what must be rebuilt, per dataset
          done     \* whether the plan has been returned

vars == <<graph, seeds, dirty, done>>

Covers(d, keys) == \A k \in keys : CoveredBy(dirty[d], k)

CoversSeeds == \A d \in Datasets : Covers(d, seeds[d])

ClosedDownstream ==
  \A d \in Datasets : \A i \in DOMAIN graph.out[d] :
    LET e == graph.out[d][i]
    IN  \A k \in dirty[d] : Covers(e.dst, Apply(e.mapping, k, graph.spec[e.dst]))

\* Whatever graph and seeds the call is given.
Init ==
  /\ dirty = [d \in Datasets |-> {}]
  /\ done = FALSE

\* One dataset turns out to be staler than was known.
Learn(d) ==
  /\ ~done /\ ~done'
  /\ \A k \in dirty[d] : CoveredBy(dirty'[d], k)
  /\ \A other \in Datasets \ {d} : dirty'[other] = dirty[other]
  /\ UNCHANGED <<graph, seeds>>

HandOver ==
  /\ ~done /\ done'
  /\ CoversSeeds /\ ClosedDownstream
  /\ UNCHANGED <<graph, seeds, dirty>>

Next == (\E d \in Datasets : Learn(d)) \/ HandOver

Safety == Init /\ [][Next]_vars
=============================================================================
