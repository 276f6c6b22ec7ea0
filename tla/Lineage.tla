------------------------------ MODULE Lineage ------------------------------
(***************************************************************************)
(* The questions graph/query.py and graph/metrics.py answer about a graph. *)
(*                                                                         *)
(* A graph is [nodes, edges, spec]: datasets are numbers, in the order     *)
(* their names sort, and an edge is <<source, target, evidence>>, so that  *)
(* one dependency learned twice is two edges.  The loops of the code are       *)
(* functions over the number of steps taken; "down" tells the direction a  *)
(* walk takes.                                                             *)
(***************************************************************************)
EXTENDS Integers, Sequences, FiniteSets, FiniteSetsExt, SequencesExt, Functions

CONSTANT UNPARTITIONED    \* the spec of a dataset nobody declared one for

\* Both ends of an edge are registered with it.
IsLineage(g) ==
  /\ g.nodes \subseteq Nat /\ IsFiniteSet(g.nodes)
  /\ \A e \in g.edges : e[1] \in g.nodes /\ e[2] \in g.nodes

SpecOf(g, d) == IF d \in g.nodes THEN g.spec[d] ELSE UNPARTITIONED

InEdges(g, d)  == {e \in g.edges : e[2] = d}
OutEdges(g, d) == {e \in g.edges : e[1] = d}
Parents(g, d)  == {e[1] : e \in InEdges(g, d)}
Children(g, d) == {e[2] : e \in OutEdges(g, d)}

Neighbors(g, d) == (Parents(g, d) \cup Children(g, d)) \ {d}
Siblings(g, d)  == (UNION {Children(g, p) : p \in Parents(g, d)}) \ {d}

\* sorted(..., key=str): the names in order.
Sorted(S) == [n \in 1 .. Cardinality(S) |-> CHOOSE d \in S : Cardinality({e \in S : e <= d}) = n]

Steps(g, S, down) == UNION {IF down THEN Children(g, d) ELSE Parents(g, d) : d \in S}

-----------------------------------------------------------------------------
\* Reachability: _walk maps what it reaches to its hop count, breadth first.  The
\* start is in it only when an edge returns to it.
HopCountLast(seen, d, n) == n                    \* mutant: counts are overwritten
HopCount(seen, d, n)     == IF d \in DOMAIN seen THEN seen[d] ELSE n

Walk(g, start, down, maxDepth) ==
  LET wave[n \in 0 .. maxDepth] ==
        IF n = 0 THEN [frontier |-> {start}, seen |-> << >>]
        ELSE LET w == wave[n - 1]  hit == Steps(g, w.frontier, down)
             IN  [frontier |-> hit \ (DOMAIN w.seen \cup {start}),
                  seen |-> [d \in DOMAIN w.seen \cup hit |->
                              IF d \in hit THEN HopCount(w.seen, d, n) ELSE w.seen[d]]]
  IN  wave[maxDepth].seen

\* MAX_DEPTH is 64 in the code; on a graph with fewer datasets the number of datasets
\* walks as far.
MaxDepth(g)       == Cardinality(g.nodes)
Descendants(g, d) == DOMAIN Walk(g, d, TRUE, MaxDepth(g))
Ancestors(g, d)   == DOMAIN Walk(g, d, FALSE, MaxDepth(g))
Closure(g, d)     == Ancestors(g, d) \cup {d}
Relatives(g, d)   == (Ancestors(g, d) \cup Descendants(g, d)) \ {d}

Reachable(g, seeds, down) == seeds \cup UNION {DOMAIN Walk(g, d, down, MaxDepth(g)) : d \in seeds}

HasPath(g, a, b) == b \in Descendants(g, a)
Distance(g, a, b) ==            \* -1 is None
  IF a = b THEN 0
  ELSE LET w == Walk(g, a, TRUE, MaxDepth(g)) IN IF b \in DOMAIN w THEN w[b] ELSE -1
Between(g, a, b) == (Descendants(g, a) \cup {a}) \cap (Ancestors(g, b) \cup {b})

CommonAncestors(g, a, b)   == Ancestors(g, a) \cap Ancestors(g, b)
CommonDescendants(g, a, b) == Descendants(g, a) \cap Descendants(g, b)

LowestCommonAncestors(g, a, b) ==
  LET score(d) == Distance(g, d, a) + Distance(g, d, b)
      shared   == CommonAncestors(g, a, b)
  IN  {d \in shared : \A e \in shared : score(d) <= score(e)}

-----------------------------------------------------------------------------
\* Paths: paths_between extends a queue of open paths, the children in order, and
\* stops at a number of nodes and at a number of paths.
PathsBetween(g, a, b, maxNodes, limit) ==
  LET kids(p)    == Sorted(Children(g, Last(p)))
      grown(p)   == [i \in DOMAIN kids(p) |-> Append(p, kids(p)[i])]
      closed(ps) == SelectSeq(ps, LAMBDA p : Last(p) = b)
      open(ps)   == SelectSeq(ps, LAMBDA p : Last(p) # b /\ ~Contains(Front(p), Last(p)))
      level[n \in 1 .. maxNodes + 1] ==
        IF n = 1 THEN [found |-> << >>, open |-> <<<<a>>>>]
        ELSE LET l == level[n - 1]
                 next == FlattenSeq([i \in DOMAIN l.open |-> grown(l.open[i])])
             IN  [found |-> l.found \o closed(next), open |-> open(next)]
      all == level[maxNodes + 1].found
  IN  SubSeq(all, 1, Min({limit, Len(all)}))

\* shortest_path: << >> is None.  A turn takes the first path of the queue and extends it by
\* each child nobody visited, unless one is the end.
ShortestPath(g, a, b) ==
  LET turn(s) ==
        IF s.done # << >> \/ s.queue = << >> THEN s
        ELSE LET p    == Head(s.queue)
                 kids == Children(g, Last(p))
                 new  == Sorted(kids \ s.visited)
             IN  IF b \in kids THEN [s EXCEPT !.done = Append(p, b)]
                 ELSE [done |-> << >>, visited |-> s.visited \cup kids,
                       queue |-> Tail(s.queue) \o [i \in DOMAIN new |-> Append(p, new[i])]]
      after[n \in 0 .. Cardinality(g.nodes)] ==
        IF n = 0 THEN [done |-> << >>, visited |-> {a}, queue |-> <<<<a>>>>]
        ELSE turn(after[n - 1])
  IN  IF a = b THEN <<a>> ELSE after[Cardinality(g.nodes)].done

-----------------------------------------------------------------------------
\* Build order: Kahn's queue; what a cycle holds back comes last, by name.
InDegreeByEdges(g, d) == Cardinality({e \in InEdges(g, d) : e[1] # d})   \* mutant
InDegree(g, d)        == Cardinality(Parents(g, d) \ {d})

TopologicalOrder(g) ==
  LET degree == [d \in g.nodes |-> InDegree(g, d)]
      turn(s) ==
        IF s.ready = << >> THEN s
        ELSE LET node == Head(s.ready)
                 kids == Children(g, node) \ {node}
                 left == [d \in g.nodes |-> IF d \in kids THEN s.left[d] - 1 ELSE s.left[d]]
             IN  [out |-> Append(s.out, node), left |-> left,
                  ready |-> Tail(s.ready) \o Sorted({d \in kids : left[d] = 0})]
      after[n \in 0 .. Cardinality(g.nodes)] ==
        IF n = 0 THEN [out |-> << >>, left |-> degree,
                       ready |-> Sorted({d \in g.nodes : degree[d] = 0})]
        ELSE turn(after[n - 1])
      cyclesLast(out) == out \o Sorted(g.nodes \ ToSet(out))
  IN  cyclesLast(after[Cardinality(g.nodes)].out)

\* Depths and heights: the longest way from a root or to a leaf, along edges that go
\* forward in the build order.
Rank(order) == [d \in ToSet(order) |-> CHOOSE i \in DOMAIN order : order[i] = d]

\* From the datasets nexts[d] of each d, which come before it in the order.
Along(g, order, nexts) ==
  LET after[i \in 0 .. Len(order)] ==
        IF i = 0 THEN [d \in g.nodes |-> 0]
        ELSE LET sofar == after[i - 1]  at == order[i]
             IN  [sofar EXCEPT ![at] = Max({0} \cup {sofar[d] + 1 : d \in nexts[at]})]
  IN  after[Len(order)]

Depths(g) ==
  LET order == TopologicalOrder(g)  rank == Rank(order)
  IN  Along(g, order, [d \in g.nodes |-> {p \in Parents(g, d) : rank[p] < rank[d]}])
Heights(g) ==
  LET order == TopologicalOrder(g)  rank == Rank(order)
  IN  Along(g, Reverse(order), [d \in g.nodes |-> {c \in Children(g, d) : rank[c] > rank[d]}])
Levels(g) == LET depth == Depths(g)
             IN  [n \in Range(depth) |-> {d \in g.nodes : depth[d] = n}]

\* fold_downstream: one pass in the build order, combining what the sources resolved
\* to with the dataset's own seed (a partial function).
Contributions(g, d, done, seeds) ==
  LET from == Sorted(Parents(g, d) \cap DOMAIN done)
  IN  [j \in DOMAIN from |-> done[from[j]]] \o (IF d \in DOMAIN seeds THEN <<seeds[d]>> ELSE << >>)

FoldDownstream(g, seeds, Combine(_, _), default) ==
  LET order == TopologicalOrder(g)
      after[i \in 0 .. Len(order)] ==
        IF i = 0 THEN << >>
        ELSE LET done == after[i - 1]  d == order[i]
                 values == Contributions(g, d, done, seeds)
                 met[j \in 1 .. Len(values)] == IF j = 1 THEN values[1] ELSE Combine(met[j - 1], values[j])
             IN  [x \in DOMAIN done \cup {d} |->
                    IF x # d THEN done[x] ELSE IF values = << >> THEN default ELSE met[Len(values)]]
  IN  after[Len(order)]

-----------------------------------------------------------------------------
\* Shape.
Roots(g)    == {d \in g.nodes : InEdges(g, d) = {}}
Leaves(g)   == {d \in g.nodes : OutEdges(g, d) = {}}
Isolated(g) == Roots(g) \cap Leaves(g)

\* What cycles returns, by its outcome (the search itself is module OnCycle's): the
\* components of more than one dataset and the self-loops.
Cycles(g) ==
  LET knot(d) == {e \in g.nodes : HasPath(g, d, e) /\ HasPath(g, e, d)}
  IN  {knot(d) : d \in {x \in g.nodes : Cardinality(knot(x)) > 1}}
        \cup {{d} : d \in {x \in g.nodes : x \in Children(g, x)}}

Twisted(g, d) ==        \* d is on or below a cycle of several datasets
  \E c \in Cycles(g) : Cardinality(c) > 1 /\ c \cap Closure(g, d) # {}

ComponentOf(g, d) ==
  LET grown[n \in 0 .. Cardinality(g.nodes)] ==
        IF n = 0 THEN {d}
        ELSE grown[n - 1] \cup UNION {Neighbors(g, x) : x \in grown[n - 1]}
  IN  grown[Cardinality(g.nodes)]
ConnectedComponents(g) == {ComponentOf(g, d) : d \in g.nodes}

\* Graphs made of a graph: subgraph keeps the datasets named and the edges inside.
Subgraph(g, keep) ==
  [nodes |-> keep, edges |-> {e \in g.edges : e[1] \in keep /\ e[2] \in keep},
   spec |-> [d \in keep |-> SpecOf(g, d)]]
Without(g, drop)      == Subgraph(g, g.nodes \ drop)
UpstreamSubgraph(g, d)   == Subgraph(g, {d} \cup Ancestors(g, d))
DownstreamSubgraph(g, d) == Subgraph(g, {d} \cup Descendants(g, d))
Reversed(g) == [g EXCEPT !.edges = {<<e[2], e[1], e[3]>> : e \in @}]

\* merge_graphs: a real spec wins over none, two different real ones are refused.
SpecsGiven(gs, d) == {SpecOf(g, d) : g \in gs} \ {UNPARTITIONED}
Mergeable(gs)     == \A d \in UNION {g.nodes : g \in gs} : Cardinality(SpecsGiven(gs, d)) <= 1
MergeGraphs(gs) ==
  LET nodes == UNION {g.nodes : g \in gs}
  IN  [nodes |-> nodes, edges |-> UNION {g.edges : g \in gs},
       spec |-> [d \in nodes |-> IF SpecsGiven(gs, d) = {} THEN UNPARTITIONED
                                 ELSE CHOOSE s \in SpecsGiven(gs, d) : TRUE]]

\* Graph.add_edge after link's add_dataset: endpoints are registered, known specs win.
Linked(g, a, b, via, spec) ==
  LET own(d, given) == IF SpecOf(g, d) # UNPARTITIONED THEN SpecOf(g, d) ELSE given
  IN  [nodes |-> g.nodes \cup {a, b}, edges |-> g.edges \cup {<<a, b, via>>},
       spec |-> [d \in g.nodes \cup {a, b} |->
                   IF d = b THEN own(b, spec) ELSE SpecOf(g, d)]]

-----------------------------------------------------------------------------
\* metrics.py: one sweep with a bit set per dataset on acyclic graphs, a walk per
\* dataset on the others.
ReachabilityCounts(g, down) ==
  IF Cycles(g) # {}
  THEN [d \in g.nodes |-> Cardinality(IF down THEN Descendants(g, d) ELSE Ancestors(g, d))]
  ELSE LET order == IF down THEN Reverse(TopologicalOrder(g)) ELSE TopologicalOrder(g)
           after[i \in 0 .. Len(order)] ==
             IF i = 0 THEN [d \in g.nodes |-> {}]
             ELSE LET reach == after[i - 1]  d == order[i]
                  IN  [reach EXCEPT ![d] =
                         UNION {reach[x] \cup {x} : x \in Steps(g, {d}, down)}]
           reach == after[Len(order)]
       IN  [d \in g.nodes |-> Cardinality(reach[d])]

ReachScore(g) == ReachabilityCounts(g, TRUE)
Bottleneck(g) ==
  LET up == ReachabilityCounts(g, FALSE)  down == ReachabilityCounts(g, TRUE)
  IN  [d \in {x \in g.nodes : up[x] > 0 /\ down[x] > 0} |-> up[d] * down[d]]

\* longest_chain: back from the deepest dataset, one level at a time.
ChainBack(g, depth, rank) ==
  LET deepest == CHOOSE d \in g.nodes :
                   \A e \in g.nodes : depth[e] < depth[d] \/ (depth[e] = depth[d] /\ d <= e)
      above(d) == {p \in Parents(g, d) \ {d} : depth[p] = depth[d] - 1 /\ rank[p] < rank[d]}
      longer(chain, from) == IF depth[Head(chain)] = 0 \/ from = {} THEN chain ELSE <<Min(from)>> \o chain
      back[n \in 0 .. Cardinality(g.nodes)] ==
        IF n = 0 THEN <<deepest>> ELSE longer(back[n - 1], above(Head(back[n - 1])))
  IN  back[Cardinality(g.nodes)]
LongestChain(g) ==
  IF g.nodes = {} THEN << >> ELSE ChainBack(g, Depths(g), Rank(TopologicalOrder(g)))

GraphStats(g) ==
  [datasets |-> Cardinality(g.nodes), edges |-> Cardinality(g.edges),
   roots |-> Cardinality(Roots(g)), leaves |-> Cardinality(Leaves(g)),
   isolated |-> Cardinality(Isolated(g)), components |-> Cardinality(ConnectedComponents(g)),
   cycles |-> Cardinality(Cycles(g)), depth |-> Max({0} \cup DOMAIN Levels(g)),
   width |-> Max({0} \cup {Cardinality(l) : l \in Range(Levels(g))})]
=============================================================================
