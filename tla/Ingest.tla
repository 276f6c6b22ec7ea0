------------------------------- MODULE Ingest -------------------------------
(***************************************************************************)
(* fathom ingest: Project.ingest and Project._record_revision of           *)
(* cli/project.py over the Store of store/sqlite.py, run by any number of  *)
(* processes at once.                                                      *)
(*                                                                         *)
(* A store method that opens a transaction (save_graph, set_token,         *)
(* record_revision: BEGIN IMMEDIATE) is one step, and so is each SELECT    *)
(* outside one; between two steps other processes write, files and the     *)
(* configuration are edited, and the run can end (a crash, or any error    *)
(* that leaves ingest: an unreadable source, a database locked too long).  *)
(***************************************************************************)
EXTENDS Integers, Sequences, FiniteSets, SequencesExt

(***************************************************************************)
(* Graphs as ingest builds them (graph/model.py, ingest/events.py), as the *)
(* store keeps them, and as the revision history compares them             *)
(* (graph/history.py, graph/diff.py).                                      *)
(*                                                                         *)
(* A graph under construction is [specs, edges]: its datasets' partition   *)
(* specs, and the sequence of its edges, parallel ones included.  The      *)
(* store has one row per dataset and one per edge key, so its edges are a  *)
(* set.  An edge is [src, dst, evidence, detail]; detail stands for its    *)
(* mapping and columns.                                                    *)
(***************************************************************************)

CONSTANTS Unpartitioned      \* the spec of a dataset nothing is known about

EmptyGraph == [specs |-> << >>, edges |-> << >>]

Key(e)    == <<e.src, e.dst, e.evidence>>        \* edge_key; the primary key of edge
Keys(E)   == {Key(e) : e \in E}
EndsOf(E) == UNION {{e.src, e.dst} : e \in E}

\* Graph.add_edge registers endpoints it has not seen as unpartitioned.
Registered(specs, ds) ==
  [d \in DOMAIN specs \cup ds |-> IF d \in DOMAIN specs THEN specs[d] ELSE Unpartitioned]

\* graph_from_queries, graph_from_lineage and their siblings add what a source
\* reports to the graph they are given.  They start from "graph or Graph()", and a
\* graph without datasets is false: then a graph of their own gets the edges, and
\* the caller's stays empty.
MergedInto(g, es) ==
  IF DOMAIN g.specs = {} THEN g
  ELSE [specs |-> Registered(g.specs, EndsOf(ToSet(es))), edges |-> g.edges \o es]

-----------------------------------------------------------------------------
\* save_graph: the rows of regenerated evidence are deleted, then every dataset
\* and edge is upserted, the last of several edges with one key winning.
LastOfEachKey(es) ==
  {es[i] : i \in {j \in DOMAIN es : \A k \in DOMAIN es : k > j => Key(es[k]) # Key(es[j])}}

SavedEdges(rows, es, replaced) ==
  LET new == LastOfEachKey(es)
  IN  {e \in rows : e.evidence \notin replaced /\ Key(e) \notin Keys(new)} \cup new

\* Mutants: the first spec is kept for ever; the last one wins, unpartitioned or not.
SavedSpecsFirstWins(rows, specs) ==
  [d \in DOMAIN rows \cup DOMAIN specs |-> IF d \in DOMAIN rows THEN rows[d] ELSE specs[d]]
SavedSpecsLastWins(rows, specs) ==
  [d \in DOMAIN rows \cup DOMAIN specs |-> IF d \in DOMAIN specs THEN specs[d] ELSE rows[d]]

\* _dataset_id: a stored spec only gives way to a partitioned one.
SavedSpecs(rows, specs) ==
  [d \in DOMAIN rows \cup DOMAIN specs |->
     IF d \notin DOMAIN specs THEN rows[d]
     ELSE IF d \notin DOMAIN rows \/ specs[d] # Unpartitioned THEN specs[d]
     ELSE rows[d]]

-----------------------------------------------------------------------------
\* graph_digest covers every dataset, spec and edge, parallel edges included, and
\* no order: the digest is what it covers.  A loaded graph has its edges as a set.
Digest(g)       == [specs |-> g.specs, edges |-> ToBag(g.edges)]
DigestOfRows(g) == [specs |-> g.specs, edges |-> [e \in g.edges |-> 1]]

EdgesOf(digest) == DOMAIN digest.edges

\* diff_graphs, as the edge keys it lists: of parallel edges with one key, the last
\* is compared.
Diff(before, es) ==
  LET after == Keys(ToSet(es))
  IN  [added   |-> after \ Keys(before),
       removed |-> Keys(before) \ after,
       changed |-> (after \cap Keys(before)) \ {Key(e) : e \in LastOfEachKey(es) \cap before}]

-----------------------------------------------------------------------------
(***************************************************************************)
(* The runs of fathom ingest.                                              *)
(***************************************************************************)

CONSTANTS Procs,
          Adapter,        \* the source read through an adapter, in increments
          Projects,       \* the projects considered, see IngestAssumption
          FetchLimit,     \* the adapter's row limit
          RevisionLimit,  \* the row limit of Store.revisions
          None

FilesOf(prj) == ToSet(prj.sources) \ {Adapter}

\* A project is
\*   sources       the lineage block: a sequence of files and Adapter
\*   versions[f]   the contents file f may have, each a sequence of [src, dst, detail]
\*   declarations  the specs its configuration may declare
\*   event[t]      the dependency the platform observes at time t
\*   lag           how long an event takes, at most, to reach the platform's log
\*   platform      which adapter reads that log
\*   columns       the times at which Databricks' record names columns; there, detail
\*                 is the set of columns
\* and the bounds of its run: how many ingests overlap, how often the world is
\* edited, how often an ingest ends early.
ASSUME IngestAssumption ==
  /\ IsFiniteSet(Procs)
  /\ FetchLimit \in Nat \ {0} /\ RevisionLimit \in Nat \ {0}
  /\ \A prj \in Projects :
       /\ prj.columns \subseteq DOMAIN prj.event
       /\ prj.platform \in {"snowflake", "databricks", "bigquery"}
       /\ prj.sources \in Seq(ToSet(prj.sources)) /\ FilesOf(prj) = DOMAIN prj.versions
       /\ \A f \in FilesOf(prj) : \A c \in prj.versions[f] : c \in Seq(ToSet(c))
       /\ DOMAIN prj.event = 1 .. Len(prj.event) /\ Len(prj.event) \in Nat
       /\ {prj.lag, prj.overlap, prj.edits, prj.breaks} \subseteq Nat
       /\ \A s \in prj.declarations : \A d \in DOMAIN s : s[d] # Unpartitioned

VARIABLES project,                          \* the project being run
          content, declared, now, landed,   \* the world: files, configuration, platform
          rows, token, revisions,           \* the store
          run,                              \* the ingest each process has under way
          edits, breaks, cut, versions, fetched, undisturbed,   \* bounds and history
          crowded         \* history: rows a limit left out of what a cursor then passed

world  == <<project, content, declared, now, landed>>
store  == <<rows, token, revisions>>
ghosts == <<edits, breaks, cut, versions, fetched, undisturbed, crowded>>
vars   == <<world, store, run, ghosts>>

-----------------------------------------------------------------------------
Sources  == project.sources
Files    == FilesOf(project)
Versions == project.versions
Event    == project.event
Times    == DOMAIN Event
Lag      == project.lag

\* The locals of an ingest, dropped when nothing reads them any more.
Idle == [pc |-> "idle", at |-> 1, current |-> EmptyGraph, since |-> 0,
         native |-> {}, previous |-> None, revision |-> None]

\* An edge a source reports, with the evidence it is filed under.
Edge(report, evidence) ==
  [src |-> report.src, dst |-> report.dst, detail |-> report.detail, evidence |-> evidence]

FileEdges(f, reports) == [i \in DOMAIN reports |-> Edge(reports[i], f)]

\* The times of a set, one after the other.
InOrder(times) ==
  [i \in 1 .. Cardinality(times) |-> CHOOSE t \in times : Cardinality({u \in times : u <= t}) = i]

\* graph_from_lineage and graph_from_queries over events in the order observed.
EventEdges(times, evidence) ==
  LET ordered == InOrder(times)
  IN  [i \in DOMAIN ordered |-> Edge(Event[ordered[i]], evidence)]

AccessHistory == "access_history"
UnityCatalog  == "unity_catalog"
JobOf(t)      == <<"jobs", t>>          \* BigQuery's evidence names the execution
QueryLog      == "query_log"

\* Evidence of files starts with sql:, dbt: or openlineage:, and the adapters' does not.  A
\* project lists a file once.
ASSUME EvidenceAssumption ==
  \A prj \in Projects :
    /\ \A f \in FilesOf(prj) : /\ f \notin {AccessHistory, UnityCatalog, QueryLog}
                              /\ \A t \in DOMAIN prj.event : f # JobOf(t)
    /\ \A i, j \in DOMAIN prj.sources : prj.sources[i] = prj.sources[j] /\ i # j => prj.sources[i] = Adapter

EvidenceOf(t) ==
  CASE project.platform = "snowflake"  -> AccessHistory
    [] project.platform = "databricks" -> UnityCatalog
    [] project.platform = "bigquery"   -> JobOf(t)

\* Mutant: the newest rows instead of the oldest.
OldestAsNewest(log, since) ==
  {t \in log : t > since /\ Cardinality({u \in log : u > t}) < FetchLimit}

\* A query of the log: what has landed after the token, the oldest FetchLimit of it.
Oldest(log, since) ==
  {t \in log : t > since /\ Cardinality({u \in log : since < u /\ u < t}) < FetchLimit}

\* fetch_lineage.  Databricks asks two tables, the columns and all dependencies.
ColumnRows(since) == Oldest(landed \cap project.columns, since)
Rows(since) ==
  Oldest(landed, since) \cup IF project.platform = "databricks" THEN ColumnRows(since) ELSE {}

\* Databricks: one edge for two datasets, with the columns of all their rows.
UnityEdges(times) ==
  SetToSeq({[src |-> Event[t].src, dst |-> Event[t].dst, evidence |-> UnityCatalog,
             detail |-> UNION {Event[u].detail : u \in {v \in times \cap project.columns :
                           Event[v].src = Event[t].src /\ Event[v].dst = Event[t].dst}}] :
              t \in times})

\* BigQuery: one edge for each reference of each job, in the order of the jobs.
JobEdges(times) ==
  LET ordered == InOrder(times)
  IN  [i \in DOMAIN ordered |-> [Edge(Event[ordered[i]], JobOf(ordered[i])) EXCEPT !.detail = "tables"]]

NativeEdges(times) ==
  CASE project.platform = "snowflake"  -> EventEdges(times, AccessHistory)
    [] project.platform = "databricks" -> UnityEdges(times)
    [] project.platform = "bigquery"   -> JobEdges(times)

\* The rows whose times lineage_token sees: Databricks does not read those of the table
\* of dependencies, and the BigQuery adapter has no lineage_token.
Dated(times) ==
  CASE project.platform = "snowflake"  -> times
    [] project.platform = "databricks" -> times \cap project.columns
    [] project.platform = "bigquery"   -> {}

\* fetch_queries: Snowflake's and Databricks' histories have a statement as soon as it ran,
\* BigQuery's is the log that fetch_lineage read.
History == IF project.platform = "bigquery" THEN landed ELSE 1 .. now
Queries(since) == Oldest(History, since)

\* Mutant: the oldest row seen.
LineageTokenOldest(times) == Min(times) - Lag

\* lineage_token, held back by the lag.
LineageToken(times) == Max(times) - Lag

Source(p) == Sources[run[p].at]

-----------------------------------------------------------------------------
Init ==
  /\ project \in Projects
  /\ content \in [Files -> UNION {Versions[f] : f \in Files}]
  /\ \A f \in Files : content[f] \in Versions[f]
  /\ declared \in project.declarations
  /\ now = 0 /\ landed = {}
  /\ rows = [specs |-> << >>, edges |-> {}] /\ token = 0 /\ revisions = << >>
  /\ run = [p \in Procs |-> Idle]
  /\ edits = 0 /\ breaks = 0 /\ cut = FALSE /\ fetched = {} /\ crowded = {}
  /\ versions = [f \in Files |-> {content[f]}]
  /\ undisturbed = [p \in Procs |-> FALSE]

\* The world moves on.
EditFile(f) ==
  /\ edits < project.edits
  /\ \E c \in Versions[f] \ {content[f]} :
       /\ content' = [content EXCEPT ![f] = c]
       /\ versions' = [versions EXCEPT ![f] = @ \cup {c}]
  /\ edits' = edits + 1 /\ undisturbed' = [p \in Procs |-> FALSE]
  /\ UNCHANGED <<project, declared, now, landed, store, run, breaks, cut, fetched, crowded>>

EditConfig ==
  /\ edits < project.edits
  /\ declared' \in project.declarations \ {declared}
  /\ edits' = edits + 1 /\ undisturbed' = [p \in Procs |-> FALSE]
  /\ UNCHANGED <<project, content, now, landed, store, run, breaks, cut, versions, fetched, crowded>>

Observe ==
  /\ now + 1 \in Times
  /\ \A t \in 1 .. now : t + Lag <= now + 1 => t \in landed
  /\ now' = now + 1
  /\ UNCHANGED <<project, content, declared, landed, store, run, ghosts>>

Land(t) ==
  /\ t \in (1 .. now) \ landed
  /\ landed' = landed \cup {t}
  /\ UNCHANGED <<project, content, declared, now, store, run, ghosts>>

-----------------------------------------------------------------------------
\* A fathom ingest command starts: Project.load reads the configuration, ingest
\* puts the declared specs into an empty graph.
Start(p) ==
  /\ run[p].pc = "idle"
  /\ Cardinality({q \in Procs : run[q].pc # "idle"}) < project.overlap
  /\ run' = [run EXCEPT ![p] = [Idle EXCEPT !.pc = "read", !.current.specs = declared]]
  /\ undisturbed' = [q \in Procs |-> q = p /\ \A o \in Procs \ {p} : run[o].pc = "idle"]
  /\ UNCHANGED <<world, store, edits, breaks, cut, versions, fetched, crowded>>

ReadFile(p) ==
  /\ run[p].pc = "read" /\ run[p].at <= Len(Sources) /\ Source(p) # Adapter
  /\ run' = [run EXCEPT ![p].current =
                          MergedInto(@, FileEdges(Source(p), content[Source(p)])),
                        ![p].at = @ + 1]
  /\ UNCHANGED <<world, store, ghosts>>

GetToken(p) ==
  /\ run[p].pc = "read" /\ run[p].at <= Len(Sources) /\ Source(p) = Adapter
  /\ run' = [run EXCEPT ![p].since = token, ![p].pc = "fetch"]
  /\ UNCHANGED <<world, store, ghosts>>

FetchLineage(p) ==
  /\ run[p].pc = "fetch" /\ Rows(run[p].since) # {}
  /\ LET native == Rows(run[p].since)
         merged == MergedInto(run[p].current, NativeEdges(native))
         dated  == Dated(native)
     IN  /\ \/ /\ dated # {}
               /\ run' = [run EXCEPT ![p].current = merged, ![p].native = dated, ![p].pc = "advance"]
            \/ /\ dated = {}
               /\ run' = [run EXCEPT ![p].current = merged, ![p].since = 0, ![p].pc = "read",
                                     ![p].at = @ + 1]
         /\ fetched' = fetched \cup native
         /\ crowded' = crowded \cup
              {t \in landed \ native : run[p].since < t /\ dated # {} /\ t <= LineageToken(dated)}
  /\ UNCHANGED <<world, store, edits, breaks, cut, versions, undisturbed>>

\* No native lineage: the query log is parsed instead, and the token stays.
FetchQueries(p) ==
  /\ run[p].pc = "fetch" /\ Rows(run[p].since) = {}
  /\ run' = [run EXCEPT ![p].pc = "read", ![p].at = @ + 1, ![p].since = 0,
               ![p].current = MergedInto(@, EventEdges(Queries(run[p].since), QueryLog))]
  /\ UNCHANGED <<world, store, ghosts>>

SetToken(p) ==
  /\ run[p].pc = "advance"
  /\ token' = LineageToken(run[p].native)
  /\ run' = [run EXCEPT ![p].pc = "read", ![p].at = @ + 1, ![p].since = 0, ![p].native = {}]
  /\ UNCHANGED <<world, rows, revisions, ghosts>>

\* previous = store.load_graph(), its two SELECTs.
LoadDatasets(p) ==
  /\ run[p].pc = "read" /\ run[p].at > Len(Sources)
  /\ run' = [run EXCEPT ![p].previous = [specs |-> rows.specs, edges |-> {}],
                        ![p].pc = "edges"]
  /\ UNCHANGED <<world, store, ghosts>>

LoadEdges(p) ==
  /\ run[p].pc = "edges" /\ EndsOf(rows.edges) \subseteq DOMAIN run[p].previous.specs
  /\ run' = [run EXCEPT ![p].previous.edges = rows.edges, ![p].pc = "save"]
  /\ UNCHANGED <<world, store, ghosts>>

\* by_id[...] has no entry for a dataset inserted since the first SELECT.
LoadFails(p) ==
  /\ run[p].pc = "edges" /\ ~(EndsOf(rows.edges) \subseteq DOMAIN run[p].previous.specs)
  /\ run' = [run EXCEPT ![p].pc = "KeyError"]
  /\ cut' = TRUE
  /\ UNCHANGED <<world, store, edits, breaks, versions, fetched, undisturbed, crowded>>

Replaced == Files     \* regenerated: the evidence of every source read in full

SaveGraph(p) ==
  /\ run[p].pc = "save"
  /\ LET g == run[p].current
     IN  rows' = [specs |-> SavedSpecs(rows.specs, g.specs),
                  edges |-> SavedEdges(rows.edges, g.edges, Replaced)]
  /\ run' = [run EXCEPT ![p].pc = "log"]
  /\ undisturbed' = [q \in Procs |-> q = p /\ undisturbed[p]]
  /\ UNCHANGED <<world, token, revisions, edits, breaks, cut, versions, fetched, crowded>>

-----------------------------------------------------------------------------
\* _record_revision.
Newest(log) == IF log = << >> THEN None ELSE Last(log)

\* Store.revisions: the oldest RevisionLimit.
ReadLog == SubSeq(revisions, 1, Min({RevisionLimit, Len(revisions)}))

NeverStale(head, previous) == FALSE        \* mutant: any head is appended to

StaleHead(head, previous) == head.digest # DigestOfRows(previous)

\* record: the revision to append, or None when nothing changed or the head is not
\* the graph this process loaded.
Recorded(head, previous, g) ==
  IF head = None
  THEN [digest |-> Digest(g), parent |-> None, diff |-> Diff({}, << >>)]
  ELSE IF head.digest = Digest(g) \/ StaleHead(head, previous) THEN None
  ELSE [digest |-> Digest(g), parent |-> head.digest, diff |-> Diff(previous.edges, g.edges)]

ReadRevisions(p) ==
  /\ run[p].pc = "log"
  /\ LET revision == Recorded(Newest(ReadLog), run[p].previous, run[p].current)
     IN  run' = [run EXCEPT ![p] = IF revision = None THEN Idle
                                   ELSE [Idle EXCEPT !.revision = revision, !.pc = "append"]]
  /\ UNCHANGED <<world, store, ghosts>>

\* Store.record_revision: a digest already in the log is not appended again.
AppendRevision(p) ==
  /\ run[p].pc = "append"
  /\ revisions' = IF \E i \in DOMAIN revisions : revisions[i].digest = run[p].revision.digest
                  THEN revisions ELSE Append(revisions, run[p].revision)
  /\ run' = [run EXCEPT ![p] = Idle]
  /\ UNCHANGED <<world, rows, token, ghosts>>

\* The error ends the command.
Exit(p) ==
  /\ run[p].pc = "KeyError"
  /\ run' = [run EXCEPT ![p] = Idle]
  /\ UNCHANGED <<world, store, ghosts>>

\* The run ends early.
Break(p) ==
  /\ run[p].pc \notin {"idle", "KeyError"} /\ breaks < project.breaks
  /\ breaks' = breaks + 1 /\ cut' = TRUE
  /\ run' = [run EXCEPT ![p] = Idle]
  /\ UNCHANGED <<world, store, edits, versions, fetched, undisturbed, crowded>>

-----------------------------------------------------------------------------
Step(p) ==
  \/ Start(p) \/ ReadFile(p) \/ GetToken(p) \/ FetchLineage(p) \/ FetchQueries(p)
  \/ SetToken(p) \/ LoadDatasets(p) \/ LoadEdges(p) \/ LoadFails(p) \/ SaveGraph(p)
  \/ ReadRevisions(p) \/ AppendRevision(p) \/ Exit(p)

World ==
  \/ \E f \in Files : EditFile(f)
  \/ EditConfig \/ Observe
  \/ \E t \in Times : Land(t)

Next == World \/ \E p \in Procs : Step(p) \/ Break(p)

Spec == Init /\ [][Next]_vars

\* Every process keeps running ingests (a scheduler starts them), and no ingest
\* stops half-way for ever.  Nothing obliges the world to change.
FairSpec == Spec /\ \A p \in Procs : WF_vars(Step(p))

-----------------------------------------------------------------------------
Phases == {"idle", "read", "fetch", "advance", "edges", "save", "log", "append", "KeyError"}

\* One row per edge key and one dataset row per endpoint; the token is a time held
\* back by the lag; a running ingest is at a known step.
TypeOK ==
  /\ \A e, x \in rows.edges : Key(e) = Key(x) => e = x
  /\ EndsOf(rows.edges) \subseteq DOMAIN rows.specs
  /\ token \in Int /\ token <= now
  /\ landed \subseteq 1 .. now /\ fetched \subseteq landed
  /\ \A p \in Procs : run[p].pc \in Phases /\ run[p].at \in 1 .. Len(Sources) + 1

Idling == \A p \in Procs : run[p].pc = "idle"

StoredOf(f) == {e \in rows.edges : e.evidence = f}

\* What a version of a file says of each dependency: the last of its statements.
Stated(f, c) == LastOfEachKey(FileEdges(f, c))

\* save_graph replaces regenerated evidence in one transaction: what the store holds
\* for a file is always what one version of that file said, never a mixture of two,
\* whoever interleaves or crashes.
OneVersionPerFile ==
  \A f \in Files :
    StoredOf(f) = {} \/ \E c \in versions[f] : StoredOf(f) = Stated(f, c)

\* An ingest that nothing overlaps (no other ingest since it started, no edit)
\* leaves the store with exactly what its files and its configuration say.
UndisturbedIngestIsExact ==
  \A p \in Procs : undisturbed[p] /\ run[p].pc \in {"log", "append"} =>
    /\ \A f \in Files : StoredOf(f) = Stated(f, content[f])
    /\ \A d \in DOMAIN declared : rows.specs[d] = declared[d]

\* Merging never loses detail: a dataset row stays, a partitioned spec never goes
\* back to unpartitioned, and what increments taught is never deleted.
MergeOnlyLearns ==
  [][ /\ \A d \in DOMAIN rows.specs :
           /\ d \in DOMAIN rows'.specs
           /\ rows.specs[d] # Unpartitioned => rows'.specs[d] # Unpartitioned
      /\ \A e \in rows.edges : e.evidence \notin Files => Key(e) \in Keys(rows'.edges)
    ]_rows

\* The cursor waits for late rows: whatever lies at or before the token has been
\* fetched by some ingest, though rows reach the log out of order.  The exception is
\* Databricks, whose cursor follows one table while the limit cuts off another
\* (see NothingIsCrowdedOut).
CursorWaitsForLateRows ==
  \A t \in 1 .. now : t <= token =>
    t \in fetched \/ (project.platform = "databricks" /\ t \in crowded \ project.columns)

\* As long as no ingest ended early, the store holds all lineage that was ever fetched
\* whenever none is running: with CursorWaitsForLateRows, all up to the token.
NothingSkipped ==
  ~cut /\ Idling => \A t \in fetched : Key(Edge(Event[t], EvidenceOf(t))) \in Keys(rows.edges)

\* adapters/engines/snowflake.py: the cursor passes neither late rows nor rows past the limit.
CursorIsSafe == CursorWaitsForLateRows /\ NothingSkipped

\* The difference a revision records is the one between its parent's graph and its
\* own: no change is attributed to whoever committed next.
TrueAttribution ==
  \A i \in DOMAIN revisions : revisions[i].parent # None =>
    /\ \E j \in 1 .. i - 1 : revisions[j].digest = revisions[i].parent
    /\ LET before == EdgesOf(revisions[i].parent)  after == EdgesOf(revisions[i].digest)
       IN  /\ revisions[i].diff.added = Keys(after) \ Keys(before)
           /\ revisions[i].diff.removed = Keys(before) \ Keys(after)

\* "Revisions form a chain": when ingests run one after the other, interrupted ones
\* included, each revision's parent is the one recorded before it, as long as one read
\* returns the whole log.
RevisionsFormAChain ==
  project.overlap = 1 => \A i \in DOMAIN revisions : i <= RevisionLimit + 1 =>
    revisions[i].parent = IF i = 1 THEN None ELSE revisions[i - 1].digest

\* store/sqlite.py: a source's rows are of one of its versions, and every revision records
\* what its own run changed, in a chain while runs do not overlap.
RevisionsTellTheTruth == OneVersionPerFile /\ TrueAttribution /\ RevisionsFormAChain

\* "so what the store holds for that source is exactly what the source now says":
\* once the files stand still, every ingest that runs leaves the store equal to
\* them, and after finitely many overlapping ones it stays so.
Converges ==
  <>[](\A f \in Files : StoredOf(f) = Stated(f, content[f]))

\* The cursor makes progress: once the platform's log stands still, all of it is fetched,
\* late rows and rows past one fetch's limit included.
AllLineageIsFetched == <>[](landed \subseteq fetched)

-----------------------------------------------------------------------------
\* What the documentation says of ingest and the code does not do (see README).

\* store/sqlite.py: "Ingest runs get interrupted, replayed, and run twice
\* concurrently; none of that should corrupt the graph": all lineage up to the token
\* is in the store whenever no ingest runs, interrupted ones included.
InterruptionLosesNothing ==
  Idling =>
    \A t \in 1 .. now : t <= token => Key(Edge(Event[t], EvidenceOf(t))) \in Keys(rows.edges)

\* store/sqlite.py: "what the store holds for that source is exactly what the source now
\* says": after an undisturbed ingest every statement of every file is in the store.  Of
\* several statements of one file that read one dataset for one target, only what the
\* last one does to partitions is.
EveryStatementCounts ==
  \A p \in Procs : undisturbed[p] /\ run[p].pc \in {"log", "append"} =>
    \A f \in Files : ToSet(FileEdges(f, content[f])) \subseteq StoredOf(f)

\* adapters/engines/databricks.py: "held back by system-table lag so nothing is skipped":
\* no dependency without columns is left out of a fetch whose columns reach past it.
NothingIsCrowdedOut == crowded = {}

\* store/sqlite.py, of sources that report only what changed: "for those, merge is the
\* correct behaviour".  A row that is written again has the columns of the last fetch only.
ColumnsAccumulate ==
  [][ \A e \in rows.edges, x \in rows'.edges :
        Key(e) = Key(x) /\ e.evidence = UnityCatalog => e.detail \subseteq x.detail ]_rows

\* ingest/events.py: a job's id in the evidence "makes the same dependency a brand-new
\* edge on every run"; BigQuery's fetch_lineage puts it there.
OneRowPerDependency ==
  project.platform = "bigquery" => \A e, x \in rows.edges :
    e.src = x.src /\ e.dst = x.dst /\ {e.evidence, x.evidence} \cap Files = {} => e = x
=============================================================================
