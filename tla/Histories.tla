----------------------------- MODULE Histories -----------------------------
(***************************************************************************)
(* graph/history.py and graph/diff.py: editors load the graph, change it   *)
(* and record what they changed; the revisions are handed to the store,    *)
(* some of them again (store/sqlite.py); and an incident is read off both. *)
(* A graph is [specs, edges], an edge [src, dst, evidence, mapping,        *)
(* columns], columns a set of pairs; a digest is the contents it is        *)
(* computed from.  An editor may be the unnamed one, "".                   *)
(***************************************************************************)
EXTENDS Mappings, SequencesExt

CONSTANTS Versions,          \* the graphs an editor may record
          Editors,
          ClockOf,           \* editor -> the time its revisions carry; clocks may differ
          DirtySeeds,        \* dataset -> keys, to ask what a version makes stale
          ReadLimit,         \* how many revisions the store reads back, 500 in the source
          MaxRevisions       \* bound: recorded revisions

VARIABLES log,               \* History.revisions
          held,              \* history: the graph each revision describes
          base,              \* editor -> number of the revision it loaded
          kept,              \* the revision table, by ordinal
          handed             \* how many revisions were given to the store
historyVars == <<log, held, base, kept, handed>>

GraphDigest(g) ==
  [specs |-> g.specs,
   edges |-> [e \in ToSet(g.edges) |-> Cardinality({i \in DOMAIN g.edges : g.edges[i] = e})]]

\* edge_key, and the edge a dict has under it: the last one.
EdgeKey(e)    == <<e.src, e.dst, e.evidence>>
EdgeKeys(g)   == {EdgeKey(e) : e \in ToSet(g.edges)}
EdgeAt(g, k)  == g.edges[CHOOSE i \in DOMAIN g.edges : EdgeKey(g.edges[i]) = k
                           /\ \A j \in DOMAIN g.edges : EdgeKey(g.edges[j]) = k => j <= i]

MappingWidened(before, after)  == Leq(before, after) /\ ~Leq(after, before)
MappingNarrowed(before, after) == Leq(after, before) /\ ~Leq(before, after)

\* diff_graphs.  Edges of one key differ by mapping or by their columns as a set.
DiffGraphs(before, after) ==
  LET both == EdgeKeys(before) \cap EdgeKeys(after)
  IN  [added     |-> DOMAIN after.specs \ DOMAIN before.specs,
       removed   |-> DOMAIN before.specs \ DOMAIN after.specs,
       addedEdges   |-> EdgeKeys(after) \ EdgeKeys(before),
       removedEdges |-> EdgeKeys(before) \ EdgeKeys(after),
       changedEdges |-> {[key |-> k, before |-> EdgeAt(before, k).mapping, after |-> EdgeAt(after, k).mapping] :
                           k \in {x \in both : \/ EdgeAt(before, x).mapping # EdgeAt(after, x).mapping
                                               \/ EdgeAt(before, x).columns # EdgeAt(after, x).columns}},
       changedSpecs |-> {d \in DOMAIN before.specs \cap DOMAIN after.specs : before.specs[d] # after.specs[d]}]

NoDiff == [added |-> {}, removed |-> {}, addedEdges |-> {}, removedEdges |-> {}, changedEdges |-> {},
           changedSpecs |-> {}]

Narrowings(diff) == {c \in diff.changedEdges : MappingNarrowed(c.before, c.after)}
IsSafe(diff)     == Narrowings(diff) = {} /\ diff.removedEdges = {}
AnyNarrowing(diffs) == \E d \in diffs : Narrowings(d) # {}
ChangedDatasets(diff) ==
  diff.added \cup diff.removed \cup diff.changedSpecs
    \cup UNION {{k[1], k[2]} : k \in diff.addedEdges \cup diff.removedEdges
                                       \cup {c.key : c \in diff.changedEdges}}

\* diff_plans: what one plan dirties and the other does not.
KeysIn(plan, d) == IF d \in DOMAIN plan THEN plan[d] ELSE {}
DiffPlans(before, after) ==
  LET ds == DOMAIN before \cup DOMAIN after
      sum(plan) == FoldSet(LAMBDA d, n : n + Cardinality(plan[d]), 0, DOMAIN plan)
  IN  [onlyBefore |-> [d \in {x \in ds : KeysIn(before, x) \ KeysIn(after, x) # {}} |->
                         KeysIn(before, d) \ KeysIn(after, d)],
       onlyAfter  |-> [d \in {x \in ds : KeysIn(after, x) \ KeysIn(before, x) # {}} |->
                         KeysIn(after, d) \ KeysIn(before, d)],
       delta      |-> sum(after) - sum(before)]

-----------------------------------------------------------------------------
Initially(g, author, at) ==
  [digest |-> GraphDigest(g), at |-> at, author |-> author, diff |-> NoDiff, parent |-> << >>]
HeadOfLog == log[Len(log)]

RefusesStale(previous) == GraphDigest(previous) # HeadOfLog.digest

\* An editor loads the graph of the newest revision.
Load(p) ==
  /\ log # << >> /\ base[p] # Len(log)
  /\ base' = [base EXCEPT ![p] = Len(log)]
  /\ UNCHANGED <<log, held, kept, handed>>

\* record: an unchanged graph is the head again, and nothing is written; one derived from
\* another graph than the head's, or from none, is refused.
Record(p, g) ==
  /\ Len(log) < MaxRevisions
  /\ IF log = << >>
     THEN log' = <<Initially(g, p, ClockOf[p])>>
     ELSE /\ GraphDigest(g) # HeadOfLog.digest
          /\ base[p] # 0 /\ ~RefusesStale(held[base[p]])
          /\ log' = Append(log, [Initially(g, p, ClockOf[p]) EXCEPT !.diff = DiffGraphs(held[base[p]], g),
                                                            !.parent = HeadOfLog.digest])
  /\ held' = Append(held, g)
  /\ base' = [base EXCEPT ![p] = Len(log) + 1]
  /\ UNCHANGED <<kept, handed>>

\* _verb, and _changes_of: one row for each edge a revision touched.
Verb(c) == IF MappingNarrowed(c.before, c.after) THEN "narrowed"
           ELSE IF MappingWidened(c.before, c.after) THEN "widened" ELSE "changed"
ChangesOf(diff) ==
  {<<k, "added">> : k \in diff.addedEdges} \cup {<<k, "removed">> : k \in diff.removedEdges}
    \cup {<<c.key, Verb(c)>> : c \in diff.changedEdges}

\* record_revision, in order and again: a digest the table has is ignored.
Persist(i) ==
  /\ i \in 1 .. Len(log) /\ i <= handed + 1
  /\ handed' = IF i > handed THEN i ELSE handed
  /\ kept' = IF \E j \in DOMAIN kept : kept[j].digest = log[i].digest THEN kept
             ELSE Append(kept, [digest |-> log[i].digest, parent |-> log[i].parent, author |-> log[i].author,
                                safe |-> IsSafe(log[i].diff), changes |-> ChangesOf(log[i].diff)])
  /\ UNCHANGED <<log, held, base>>

HistoryInit ==
  log = << >> /\ held = << >> /\ base = [p \in Editors |-> 0] /\ kept = << >> /\ handed = 0
HistoryNext ==
  \/ \E p \in Editors : Load(p) \/ \E g \in Versions : Record(p, g)
  \/ \E i \in DOMAIN log : Persist(i)

-----------------------------------------------------------------------------
\* What an incident asks.  Revisions are given by their numbers.
Unsafe == {i \in DOMAIN log : log[i].parent # << >> /\ ~IsSafe(log[i].diff)}
RevisionsTouching(s, d) ==
  UNION {{<<i, c[2]>> : c \in {x \in ChangesOf(log[i].diff) : x[1][1] = s /\ x[1][2] = d}} : i \in DOMAIN log}
NarrowingsOf(s, d) ==
  {i \in DOMAIN log : \E c \in Narrowings(log[i].diff) : c.key[1] = s /\ c.key[2] = d}
AuthorsOf(s, d) == {log[t[1]].author : t \in RevisionsTouching(s, d)} \ {""}
Since(t)        == {i \in DOMAIN log : log[i].at > t}
DigestAt(t)     == {log[i].digest : i \in {x \in DOMAIN log : /\ log[x].at <= t
                                             /\ \A j \in DOMAIN log : log[j].at <= t => j <= x}}

\* replay of the revisions first .. last: datasets that came and went cancel.  They come and go
\* by turns, so that no list has one twice; of edges only what there is matters.
Replay(first, last) ==
  FoldLeft(LAMBDA acc, r :
      [added   |-> (acc.added \ r.diff.removed) \cup (r.diff.added \ acc.removed),
       removed |-> (acc.removed \ r.diff.added) \cup (r.diff.removed \ acc.added),
       addedEdges   |-> acc.addedEdges \cup r.diff.addedEdges,
       removedEdges |-> acc.removedEdges \cup r.diff.removedEdges,
       changedEdges |-> acc.changedEdges \cup r.diff.changedEdges,
       changedSpecs |-> acc.changedSpecs \cup r.diff.changedSpecs],
    NoDiff, SubSeq(log, first, last))

\* The table: edge_changes reads all of it, revisions and what asks it the first ReadLimit.
EdgeChanges(s, d, verbs) ==
  UNION {{<<i, c[2]>> : c \in {x \in kept[i].changes : x[1][1] = s /\ x[1][2] = d /\ x[2] \in verbs}} : i \in DOMAIN kept}
Revisions       == SubSeq(kept, 1, Min({ReadLimit, Len(kept)}))
HeadRevision    == Last(Revisions).digest
UnsafeRevisions == {i \in DOMAIN Revisions : ~kept[i].safe /\ kept[i].parent # << >>}

-----------------------------------------------------------------------------
\* Reference: the keys a version derives from the seeds; these versions have no cycle.
Derived(g) ==
  LET start == [d \in DOMAIN g.specs |-> KeysIn(DirtySeeds, d)]
      after[n \in 0 .. Cardinality(DOMAIN g.specs)] ==
        IF n = 0 THEN start
        ELSE [d \in DOMAIN g.specs |->
                after[n - 1][d] \cup UNION {UNION {Apply(e.mapping, k, g.specs[d]) : k \in after[n - 1][e.src]} :
                                              e \in {x \in ToSet(g.edges) : x.dst = d}}]
      all == after[Cardinality(DOMAIN g.specs)]
  IN  [d \in DOMAIN all |-> {k \in all[d] : ~CoveredBy(all[d] \ {k}, k)}]

\* One edge for each key, as a stored graph has them.
Simple(g) == Cardinality(EdgeKeys(g)) = Len(g.edges)
Spotless(i, j) == \A n \in i .. j : Simple(held[n])

\* Reachable from the datasets a diff touched, in either version.
Touched(diff, g, h) ==
  LET edges == ToSet(g.edges) \cup ToSet(h.edges)
      reach[n \in 0 .. 3] == IF n = 0 THEN ChangedDatasets(diff)
                             ELSE reach[n - 1] \cup {e.dst : e \in {x \in edges : x.src \in reach[n - 1]}}
  IN  reach[3]

\* GraphDiff.is_safe, "the condition a merge gate should use": after a safe revision the graph
\* makes stale whatever it made stale before, unless a mapping was exchanged for one that leq
\* does not compare, or a dataset partitioned anew; widening always passes; and a plan can
\* only differ below what the diff says was touched.
SafeChangesLoseNothing ==
  \A i \in {Len(log)} \ {0, 1} : Spotless(i - 1, i) =>
    LET diff == log[i].diff
        now   == Derived(held[i])
        plans == DiffPlans(Derived(held[i - 1]), now)
        comparable == \A c \in diff.changedEdges : Leq(c.before, c.after) \/ Leq(c.after, c.before)
    IN  /\ IsSafe(diff) /\ diff.changedSpecs = {} /\ comparable =>
             \A d \in DOMAIN plans.onlyBefore : \A k \in plans.onlyBefore[d] : CoveredBy(now[d], k)
        /\ diff.removedEdges = {} /\ (\A c \in diff.changedEdges : Leq(c.before, c.after)) => IsSafe(diff)
        /\ DOMAIN plans.onlyBefore \cup DOMAIN plans.onlyAfter \subseteq Touched(diff, held[i - 1], held[i])

\* revisions_touching, authors_of, narrowings_of: whatever an edge claims now and did not claim
\* then, some revision in between is known to have touched it, and whose it was; and one that
\* claims less, or is gone, did not get there by widenings alone.
ChangesAreExplained ==
  \A j \in {Len(log)}, i \in DOMAIN log : i < j /\ Spotless(i, j) =>
    \A k \in EdgeKeys(held[i]) \cup EdgeKeys(held[j]) :
      LET told == {t \in RevisionsTouching(k[1], k[2]) : t[1] \in i + 1 .. j}
          stays == k \in EdgeKeys(held[i]) /\ k \in EdgeKeys(held[j])
      IN  /\ ~stays \/ EdgeAt(held[i], k) # EdgeAt(held[j], k) =>
               told # {} /\ (j = i + 1 => log[j].author \in AuthorsOf(k[1], k[2]) \cup {""})
          /\ stays /\ MappingNarrowed(EdgeAt(held[i], k).mapping, EdgeAt(held[j], k).mapping) =>
               \/ NarrowingsOf(k[1], k[2]) \cap (i + 1 .. j) # {}
               \/ \E t \in told : t[2] \in {"removed", "changed"}
          /\ k \notin EdgeKeys(held[j]) => (i + 1 .. j) \cap Unsafe # {}

\* replay: a release note folded from the revisions names the datasets that came and that
\* went, and is alarming exactly if one of the revisions is.
ReplayIsNet ==
  \A j \in {Len(log)}, i \in DOMAIN log : i < j =>
    LET all == Replay(i + 1, j)
        net == DiffGraphs(held[i], held[j])
    IN  /\ all.added = net.added /\ all.removed = net.removed
        /\ net.addedEdges \subseteq all.addedEdges /\ net.removedEdges \subseteq all.removedEdges
        /\ IsSafe(all) <=> Unsafe \cap (i + 1 .. j) = {}
        /\ (Narrowings(all) # {}) <=> AnyNarrowing({log[n].diff : n \in i + 1 .. j})

\* record, since, digest_at, edge_changes: the log is one chain of real changes although several
\* editors write it; while times do not run backwards, what was recorded since a moment follows
\* the graph in force then; and until a graph returns to an earlier form the table tells the
\* same story as the log, of its head and what was unsafe as far as it is read.
HistoriesAgree ==
  /\ \A i \in DOMAIN log \ {1} : /\ log[i].parent = log[i - 1].digest
                                 /\ log[i].diff = DiffGraphs(held[i - 1], held[i])
  /\ (\A i \in DOMAIN log \ {1} : log[i - 1].at <= log[i].at) =>
       \A t \in {ClockOf[p] : p \in Editors} : Since(t) # DOMAIN log =>
         DigestAt(t) = {log[Len(log) - Cardinality(Since(t))].digest}
  /\ handed = Len(log) /\ log # << >> /\ IsInjective([i \in DOMAIN log |-> log[i].digest]) =>
       /\ HeadRevision = log[Min({ReadLimit, Len(log)})].digest
       /\ UnsafeRevisions = Unsafe \cap (1 .. ReadLimit)
       /\ \A k \in UNION {EdgeKeys(held[i]) : i \in DOMAIN held} :
            EdgeChanges(k[1], k[2], {"added", "removed", "narrowed", "widened", "changed"}) = RevisionsTouching(k[1], k[2])

HistoryIsTrue == SafeChangesLoseNothing /\ ChangesAreExplained /\ ReplayIsNet /\ HistoriesAgree

\* graph/diff.py:182, docs/guide/cookbook.md: "Narrowing and removal are the two ways a graph
\* edit serves stale data".  Not so: a window that moves, or another of two edges with one
\* key, leaves partitions out and passes as safe.
SafeMeansNothingMissed ==
  \A i \in DOMAIN log \ {1} : IsSafe(log[i].diff) =>
    LET plans == DiffPlans(Derived(held[i - 1]), Derived(held[i]))
    IN  \A d \in DOMAIN plans.onlyBefore : \A k \in plans.onlyBefore[d] : CoveredBy(Derived(held[i])[d], k)

\* cli/main.py:1098, fathom history --unsafe: "Only revisions that narrowed or removed an
\* edge".  With --edge it asks for narrowings alone, and a removed edge has no history.
UnsafeEdgesAreShown ==
  \A k \in UNION {EdgeKeys(held[i]) : i \in DOMAIN held} :
    {c[1] : c \in EdgeChanges(k[1], k[2], {"narrowed"})}
      = {c[1] : c \in EdgeChanges(k[1], k[2], {"narrowed", "removed"})}
=============================================================================
