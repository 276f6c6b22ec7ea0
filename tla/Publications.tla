---------------------------- MODULE Publications ----------------------------
(***************************************************************************)
(* A lineage graph while it is built: extractors connect datasets,         *)
(* graph/sinks.py records what is published from them, and graph/query.py  *)
(* merges and cuts graphs.  On every graph built this way the queries      *)
(* (module Lineage) and the selector language (graph/selectors.py) are     *)
(* compared with what they promise.                                        *)
(***************************************************************************)
EXTENDS Lineage

CONSTANTS Tables, Sinks,      \* identities; is_sink tells them apart by their scheme
          Regulatory,         \* the sinks that are filings and signed reports
          Links,              \* what extractors may find: [edge, spec], the target's spec
          Batches,            \* arguments of declare_many: sequences of [sink, inputs]
          Catalogs,           \* graphs to merge with
          MaxEdges            \* bound

ASSUME PublicationsAssumption ==
  /\ Tables \cap Sinks = {} /\ Regulatory \subseteq Sinks
  /\ MaxEdges \in Nat

VARIABLES graph,
          published     \* history: <<input, sink>> of the publications recorded and not cut
pubVars == <<graph, published>>

IsSink(d) == d \in Sinks

-----------------------------------------------------------------------------
\* sinks.py.
SinksOf(g, d)   == {x \in Descendants(g, d) : IsSink(x)}
SourcesOf(g, s) == {x \in Ancestors(g, s) : ~IsSink(x)}
RestatementImpact(g, d) ==
  [tables |-> {x \in Descendants(g, d) : ~IsSink(x)}, sinks |-> SinksOf(g, d),
   regulatory |-> SinksOf(g, d) \cap Regulatory]
HasRegulatoryExposure(g, d) == RestatementImpact(g, d).regulatory # {}
PublishedDatasets(g) == {d \in g.nodes : ~IsSink(d) /\ SinksOf(g, d) # {}}
Unpublished(g)       == {d \in g.nodes : ~IsSink(d) /\ SinksOf(g, d) = {}}
Riskiest(g)          == [d \in PublishedDatasets(g) |-> Cardinality(SinksOf(g, d))]

\* record_publication refuses a sink that feeds something, and stops at an input that is
\* a sink, the ones before it linked; declare_many stops at the first refusal.
Refused(s) == [s EXCEPT !.ok = FALSE]
LinkInput(s, sink, input) ==
  IF ~s.ok \/ IsSink(input) THEN Refused(s)
  ELSE [s EXCEPT !.g = Linked(s.g, input, sink, "declared", UNPARTITIONED)]
RecordPublication(s, p) ==
  IF ~s.ok \/ ~IsSink(p.sink) \/ OutEdges(s.g, p.sink) # {} THEN Refused(s)
  ELSE FoldLeft(LAMBDA t, i : LinkInput(t, p.sink, i), s, p.inputs)

DeclareMany(pubs) ==
  /\ Cardinality(graph.edges) < MaxEdges
  /\ LET end == FoldLeft(RecordPublication, [g |-> graph, ok |-> TRUE], pubs)
     IN  /\ graph' = end.g
         /\ published' = published \cup {<<e[1], e[2]>> : e \in end.g.edges \ graph.edges}

\* Graph.connect, by an extractor: no edge is refused.
Connect(l) ==
  /\ Cardinality(graph.edges) < MaxEdges /\ l.edge \notin graph.edges
  /\ graph' = Linked(graph, l.edge[1], l.edge[2], l.edge[3], l.spec)
  /\ UNCHANGED published

Merge(other) ==
  /\ Cardinality(graph.edges) < MaxEdges
  /\ Mergeable({graph, other})
  /\ graph' = MergeGraphs({graph, other})
  /\ UNCHANGED published

Cut(drop) ==
  /\ graph.nodes \cap drop # {}
  /\ graph' = Without(graph, drop)
  /\ published' = {p \in published : p[1] \notin drop /\ p[2] \notin drop}

PubInit ==
  /\ graph = [nodes |-> {}, edges |-> {}, spec |-> << >>]
  /\ published = {}

PubNext ==
  \/ \E b \in Batches : DeclareMany(b)
  \/ \E l \in Links : Connect(l)
  \/ \E c \in Catalogs : Merge(c)
  \/ \E d \in Tables : Cut({d})

PubSpec == PubInit /\ [][PubNext]_pubVars

-----------------------------------------------------------------------------
\* selectors.py: a term is the datasets its pattern matches, hops up and down, and @; a
\* selection is a set of groups (union) of sets of terms (intersection).
Expand(g, t) ==
  LET from(d) ==
        (IF t.up > 0 THEN DOMAIN Walk(g, d, FALSE, t.up) ELSE {})
          \cup (IF t.down > 0 THEN DOMAIN Walk(g, d, TRUE, t.down) ELSE {})
          \cup (IF t.build THEN Descendants(g, d) \cup UNION {Ancestors(g, x) : x \in Descendants(g, d)}
                ELSE {})
      seeds == t.matches \cap g.nodes
  IN  seeds \cup UNION {from(d) : d \in seeds}

Group(g, terms)  == {d \in g.nodes : \A t \in terms : d \in Expand(g, t)}
Groups(g, gs)    == UNION {Group(g, terms) : terms \in gs}
Resolve(g, selected, excluded) == Groups(g, selected) \ Groups(g, excluded)
SelectEdges(g, selected, excluded) ==
  LET keep == Resolve(g, selected, excluded)
  IN  {e \in g.edges : e[1] \in keep /\ e[2] \in keep}

-----------------------------------------------------------------------------
\* Reference definitions, from the edge relation alone.
Arc(g, a, b) == \E e \in g.edges : e[1] = a /\ e[2] = b
HopsBetween(g) ==       \* the pairs a way of exactly n edges leads between
  LET N == Cardinality(g.nodes)
      by[n \in 1 .. N] ==
        IF n = 1 THEN {p \in g.nodes \X g.nodes : Arc(g, p[1], p[2])}
        ELSE LET before == by[n - 1]
             IN  {p \in g.nodes \X g.nodes : \E m \in g.nodes : <<p[1], m>> \in before /\ Arc(g, m, p[2])}
  IN  by
Simple(p) == \A i, j \in DOMAIN p : p[i] = p[j] => i = j
IsWay(g, p) == \A i \in 1 .. Len(p) - 1 : Arc(g, p[i], p[i + 1])

\* A walk finds what any way leads to, with the length of the shortest way, at every
\* depth it is cut at: a restatement, a blast radius or a selection built on it misses
\* nothing.
WalksFindTheShortest ==
  LET g == graph  by == HopsBetween(g) IN
  \A a, b \in g.nodes :
    LET lengths == {n \in DOMAIN by : <<a, b>> \in by[n]} IN
      \A k \in 1 .. Cardinality(g.nodes) :
        LET down == Walk(g, a, TRUE, k)  up == Walk(g, b, FALSE, k) IN
          IF \E n \in lengths : n <= k
          THEN b \in DOMAIN down /\ a \in DOMAIN up /\ down[b] = Min(lengths) /\ up[a] = Min(lengths)
          ELSE b \notin DOMAIN down /\ a \notin DOMAIN up

\* Shortest paths, all paths, and reach counts (one sweep of bit sets on an acyclic
\* graph) agree with the walks.
PathsAndCountsAgree ==
  LET g == graph  score == ReachScore(g) IN
  /\ \A a, b \in g.nodes :
       LET s == ShortestPath(g, a, b)  all == PathsBetween(g, a, b, 6, 256) IN
         /\ (s # << >> <=> a = b \/ HasPath(g, a, b))
         /\ s # << >> => IsWay(g, s) /\ Len(s) = Distance(g, a, b) + 1
         /\ a # b => (all # << >> <=> HasPath(g, a, b))
         /\ \A i \in DOMAIN all :
              IsWay(g, all[i]) /\ Simple(Tail(all[i])) /\ ToSet(all[i]) \subseteq Between(g, a, b)
  /\ \A d \in g.nodes :
       score[d] = Cardinality(Descendants(g, d)) /\ DOMAIN Walk(Reversed(g), d, TRUE, MaxDepth(g)) = Ancestors(g, d)

\* What feeds a dataset, or what it reaches, is a graph of its own that answers as the whole
\* does: the same ancestors at the same distance.  Siblings have a nearest common ancestor no
\* further than the parent they share, what two datasets both feed is what both inherit in
\* the graph reversed, and reachable from what is reachable is nothing new.
CuttingsAnswerAlike ==
  LET g == graph IN
  /\ \A d \in g.nodes :
       LET up == UpstreamSubgraph(g, d)  down == DownstreamSubgraph(g, d)  whole == Reachable(g, {d}, TRUE) IN
         /\ Ancestors(up, d) = Ancestors(g, d) /\ \A x \in Ancestors(g, d) : Distance(up, x, d) = Distance(g, x, d)
         /\ Descendants(down, d) = Descendants(g, d)
         /\ \A x \in Descendants(g, d) : Distance(down, d, x) = Distance(g, d, x)
         /\ Relatives(g, d) = (up.nodes \cup down.nodes) \ {d}
         /\ Reachable(g, whole, TRUE) = whole /\ whole = down.nodes
         /\ \A x \in Siblings(g, d) : LET nearest == LowestCommonAncestors(g, d, x) IN
              nearest # {} /\ \A a \in nearest : Distance(g, a, d) + Distance(g, a, x) <= 2
  /\ \A a, b \in g.nodes : CommonDescendants(g, a, b) = CommonAncestors(Reversed(g), a, b)

\* The figures of a graph hold together: a component has a root or a cycle, and a leaf or a
\* cycle; levels as wide as the widest hold all datasets; and a bottleneck's figure, from two
\* sweeps, is the product of what two walks find.
ShapeHoldsTogether(stats) ==
  /\ stats.components <= stats.roots + stats.cycles /\ stats.components <= stats.leaves + stats.cycles
  /\ stats.isolated <= Min({stats.roots, stats.leaves, stats.components})
  /\ stats.datasets <= (stats.depth + 1) * stats.width
PairsAreCounted(g, pairs) ==
  \A d \in g.nodes : LET n == Cardinality(Ancestors(g, d)) * Cardinality(Descendants(g, d)) IN
    IF d \in DOMAIN pairs THEN pairs[d] = n ELSE n = 0
FiguresHoldTogether == ShapeHoldsTogether(GraphStats(graph)) /\ PairsAreCounted(graph, Bottleneck(graph))

\* The build order has every dataset once and, off the cycles, a dataset after all it
\* reads, however often a dependency was learned; a level can run when the level before
\* it has; and the longest chain is a real chain as long as the levels are many.
OrderIsBuildable ==
  LET g == graph  order == TopologicalOrder(g)  rank == Rank(order)
      depth == Depths(g)  chain == LongestChain(g)
      held(d) == \E c \in Cycles(g) : Cardinality(c) > 1 /\ \E x \in c : x \in Closure(g, d)
  IN  /\ ToSet(order) = g.nodes /\ Len(order) = Cardinality(g.nodes)
      /\ \A e \in g.edges :
           e[1] # e[2] /\ ~held(e[2]) => rank[e[1]] < rank[e[2]] /\ depth[e[1]] < depth[e[2]]
      /\ \A d \in g.nodes : held(d) => \A x \in g.nodes : ~held(x) => rank[x] < rank[d]
      /\ IsWay(g, chain) /\ Len(chain) = Cardinality(DOMAIN Levels(g))
      /\ \A d \in g.nodes : depth[d] + Heights(g)[d] < Len(chain)

\* What was published from an input is in the restatement notice of everything upstream
\* of it, and the other way round, however the graph was built in between; and what feeds
\* a table is at least as risky as the table, and unpublished only if the table is.
PublishedIsRestated ==
  /\ \A d \in graph.nodes : \A e \in Descendants(graph, d) : ~IsSink(d) /\ e \notin Sinks =>
       /\ d \in Unpublished(graph) => e \in Unpublished(graph)
       /\ e \in DOMAIN Riskiest(graph) => d \in DOMAIN Riskiest(graph) /\ Riskiest(graph)[d] >= Riskiest(graph)[e]
  /\ \A p \in published : \A d \in Closure(graph, p[1]) :
       /\ p[2] \in RestatementImpact(graph, d).sinks
       /\ ~IsSink(d) => d \in PublishedDatasets(graph) \cap SourcesOf(graph, p[2])
       /\ p[2] \in Regulatory => HasRegulatoryExposure(graph, d)

\* "@model" of a dataset that feeds something selects a build that can run: what it
\* selects has all its inputs selected.  (A dataset nothing reads is selected alone.)
BuildScopeIsSelfContained ==
  \A d \in graph.nodes :
    LET query == {{[matches |-> {d}, up |-> 0, down |-> 0, build |-> TRUE]}}
        scope == Resolve(graph, query, {})
    IN  Children(graph, d) # {} =>
          /\ UNION {InEdges(graph, x) : x \in scope} = SelectEdges(graph, query, {})
          /\ Descendants(graph, d) \subseteq scope

-----------------------------------------------------------------------------
(***************************************************************************)
(* column_descendants and column_ancestors of graph/query.py, one popped   *)
(* column per step: depth first, a column is seen when it is first pushed, *)
(* with the depth it is pushed at, and one at the depth limit is not       *)
(* expanded.  Columns are numbers; arcs run from a column to one derived   *)
(* from it (for ancestors, the other way), the column named first is       *)
(* pushed first.                                                           *)
(***************************************************************************)

CONSTANTS Columns, ColumnMaps,   \* sets of arcs
          MaxColumnDepth         \* 12 in the code

VARIABLES arcs, from, frontier, seenColumns,
          cutShort        \* history: a column was left unexpanded at the limit
columnVars == <<arcs, from, frontier, seenColumns, cutShort>>

Derived(c) == {a[2] : a \in {x \in arcs : x[1] = c}}
Fresh(c)   == SetToSortSeq(Derived(c) \ seenColumns, LAMBDA a, b : a < b)

ColumnInit ==
  /\ arcs \in ColumnMaps /\ from \in Columns
  /\ frontier = <<[column |-> from, depth |-> 0]>> /\ seenColumns = {} /\ cutShort = FALSE

PopColumn ==
  /\ frontier # << >>
  /\ LET top == Last(frontier)  fresh == Fresh(top.column) IN
       IF top.depth >= MaxColumnDepth
       THEN /\ frontier' = Front(frontier)
            /\ cutShort' = TRUE
            /\ UNCHANGED seenColumns
       ELSE /\ frontier' = Front(frontier)
                 \o [i \in DOMAIN fresh |-> [column |-> fresh[i], depth |-> top.depth + 1]]
            /\ seenColumns' = seenColumns \cup ToSet(fresh)
            /\ UNCHANGED cutShort
  /\ UNCHANGED <<arcs, from>>

ColumnNext == PopColumn

-----------------------------------------------------------------------------
DerivedFrom(S) ==
  LET grown[n \in 0 .. Cardinality(Columns)] ==
        IF n = 0 THEN S ELSE grown[n - 1] \cup UNION {Derived(c) : c \in grown[n - 1]}
  IN  grown[Cardinality(Columns)]

\* Whatever the order the columns are met in, the walk reports only columns derived from
\* the one asked about, expands each at most once, and when no column was met at the
\* depth limit it reports them all.  (A column first met at the limit is not expanded
\* when a shorter way meets it again, so a cut walk may miss columns that are near.)
RenamesReachEveryColumn ==
  /\ seenColumns \subseteq DerivedFrom(Derived(from))
  /\ \A i, j \in DOMAIN frontier : frontier[i].column = frontier[j].column => i = j \/ from \in seenColumns
  /\ frontier = << >> /\ ~cutShort => seenColumns = DerivedFrom(Derived(from))
=============================================================================
