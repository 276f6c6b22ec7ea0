----------------------------- MODULE MCSchedule -----------------------------
(***************************************************************************)
(* What a plan rests on and what must come to an end: the composed mapping *)
(* of a path, the search for the datasets on a cycle, the batches and waves*)
(* a plan is rebuilt in, ingests that keep running until the graph is what *)
(* the sources say, and the record of how the graph changed.  They share no*)
(* state: each is checked in the behaviours in which it alone acts.                                      *)
(*                                                                         *)
(* For MappingWalk: the real Gregorian calendar of 2020 to 2029, seeds on  *)
(* the days where month, leap-day and year boundaries are, and hops that use *)
(* every form of mapping between hours, days, months and years.            *)
(***************************************************************************)
EXTENDS MappingWalk, MCRebuild

CONSTANTS emea, apac

MCLabels == {emea, apac}
MCFields == {"dt", "region"}

\* Days before each month from January 2020, a leap year, to January 2030.
MCDaysBefore ==
  <<0, 31, 60, 91, 121, 152, 182, 213, 244, 274, 305, 335,
    366, 397, 425, 456, 486, 517, 547, 578, 609, 639, 670, 700,
    731, 762, 790, 821, 851, 882, 912, 943, 974, 1004, 1035, 1065,
    1096, 1127, 1155, 1186, 1216, 1247, 1277, 1308, 1339, 1369, 1400, 1430,
    1461, 1492, 1521, 1552, 1582, 1613, 1643, 1674, 1705, 1735, 1766, 1796,
    1827, 1858, 1886, 1917, 1947, 1978, 2008, 2039, 2070, 2100, 2131, 2161,
    2192, 2223, 2251, 2282, 2312, 2343, 2373, 2404, 2435, 2465, 2496, 2526,
    2557, 2588, 2616, 2647, 2677, 2708, 2738, 2769, 2800, 2830, 2861, 2891,
    2922, 2953, 2982, 3013, 3043, 3074, 3104, 3135, 3166, 3196, 3227, 3257,
    3288, 3319, 3347, 3378, 3408, 3439, 3469, 3500, 3531, 3561, 3592, 3622, 3653>>

Common == <<31, 28, 31, 30, 31, 30, 31, 31, 30, 31, 30, 31>>
ASSUME GregorianAssumption ==
  \A i \in 1 .. 120 :
    MCDaysBefore[i + 1] - MCDaysBefore[i]
      = IF i % 48 = 2 THEN 29 ELSE Common[((i - 1) % 12) + 1]

\* The hour h of a date, months counted from January 2020.
At(year, month, day, h) ==
  24 * (MonthStart(12 * (year - 2020) + month - 1) + day - 1) + h

Times == {At(2024, 1, 31, 23), At(2024, 2, 29, 0), At(2025, 1, 1, 0), At(2023, 2, 28, 5)}

MCSeedKeys == {[dt |-> t, region |-> emea] : t \in Times \cup {ANY}}
              \cup {[dt |-> At(2024, 2, 29, 0), region |-> ANY], [dt |-> apac, region |-> emea]}

TimeField(g)  == [name |-> "dt", kind |-> "time", grain |-> g]
Region        == [name |-> "region", kind |-> "value", grain |-> HOUR]
Table(g)      == <<TimeField(g), Region>>

Window(lo, hi, from, to) ==
  [dt |-> TimeWindow("dt", lo, hi, from, to), region |-> Passthrough("region")]

One(m, table) == [mappings |-> <<m>>, spec |-> table]

MCHops ==
  {One(Rollup(Table(f), Table(t)), Table(t)) : f \in {HOUR, DAY}, t \in {DAY, MONTH}}
  \cup {One(Window(-2, 3, DAY, DAY), Table(DAY)),
        One(Window(0, 6, DAY, DAY), Table(DAY)),
        One(Window(-1, 1, MONTH, MONTH), Table(MONTH)),
        One(Rollup(Table(MONTH), Table(YEAR)), Table(YEAR)),
        One(Window(-1, 0, YEAR, YEAR), Table(YEAR)),
        One([dt |-> Passthrough("dt"), region |-> UNBOUNDED], Table(HOUR)),
        One([region |-> Passthrough("region")], <<Region>>),
        One([region |-> Passthrough("dt"), dt |-> TimeWindow("region", 0, 0, DAY, DAY)],
            Table(DAY)),
        One([dt |-> TimeWindow("dt", 0, 2, DAY, DAY), region |-> TimeWindow("dt", -1, 2, DAY, DAY)],
            <<TimeField(DAY), [Region EXCEPT !.kind = "time", !.grain = DAY]>>),
        [mappings |-> <<Window(0, 1, DAY, DAY), Window(-3, -2, DAY, DAY)>>,
         spec |-> Table(DAY)],
        [mappings |-> <<Window(0, 1, DAY, DAY), Identity(Table(HOUR))>>,
         spec |-> Table(DAY)]}

-----------------------------------------------------------------------------
CONSTANT MaxEdges      \* bound: edges of a graph given to _on_cycle

VARIABLES part, out, index, low, stack, found, work, roots,
          project, content, declared, now, landed, rows, token, revisions, run,
          edits, breaks, cut, versions, fetched, undisturbed, crowded,
          log, held, base, kept, handed

\* Every directed graph of up to MaxEdges edges over four datasets, self-loops included.
Listed(S) == SelectSeq(ByName, LAMBDA d : d \in S)
EdgeLists ==
  {[a |-> Listed(t[1]), b |-> Listed(t[2]), c |-> Listed(t[3]), d |-> Listed(t[4])] :
     t \in {u \in (SUBSET MCDatasets) \X (SUBSET MCDatasets) \X (SUBSET MCDatasets) \X (SUBSET MCDatasets) :
              Cardinality(u[1]) + Cardinality(u[2]) + Cardinality(u[3]) + Cardinality(u[4]) <= MaxEdges}}

Cycles == INSTANCE OnCycle WITH Datasets <- MCDatasets, SpecOrder <- ByName, Graphs <- EdgeLists

-----------------------------------------------------------------------------
\* Two processes read a file that is edited; one that ends early resumes from the
\* cursor of a platform whose rows land late, more of them than one fetch returns.
Report(src) == [src |-> src, dst |-> "c", detail |-> "narrow"]
NoProject ==
  [sources |-> << >>, versions |-> << >>, declarations |-> {<< >>}, event |-> << >>,
   lag |-> 1, overlap |-> 0, edits |-> 0, breaks |-> 0, platform |-> "snowflake", columns |-> {}]
Declared == {[d \in {"a", "b", "c"} |-> "day"]}
Edited ==
  [NoProject EXCEPT !.sources = <<"model">>, !.declarations = Declared, !.overlap = 2,
     !.edits = 1, !.versions = [f \in {"model"} |-> {<< >>, <<Report("a")>>}]]
Resumed ==
  [NoProject EXCEPT !.sources = <<"lineage">>, !.declarations = Declared, !.overlap = 1,
     !.breaks = 1, !.event = <<Report("a"), Report("b"), Report("b")>>]

Procs   == {"p", "q"}
Ingests == INSTANCE Ingest
             WITH Adapter <- "lineage", Projects <- {NoProject, Edited, Resumed},
                  FetchLimit <- 2, RevisionLimit <- 500, None <- none, Unpartitioned <- none

-----------------------------------------------------------------------------
\* Versions of a graph: windows that narrow, widen and move, edges that come and go with
\* and without their datasets, a spec that changes, two edges of one key, and columns.
OneField == <<TimeField(DAY)>>
Claim(s, d, evidence, mapping) == [src |-> s, dst |-> d, evidence |-> evidence, mapping |-> mapping, columns |-> {}]
OffsetBy(lo, hi) == [dt |-> TimeWindow("dt", lo, hi, DAY, DAY)]
Plain(ds) == [d \in ds |-> OneField]
IntoC == Claim("b", "c", "sql", OffsetBy(0, 0))
MCVersions ==
  {[specs |-> Plain({"a", "b", "c"}), edges |-> es] :
     es \in {<<Claim("a", "b", "sql", OffsetBy(0, 1)), IntoC>>, <<Claim("a", "b", "sql", OffsetBy(0, 0)), IntoC>>,
             <<Claim("a", "b", "sql", OffsetBy(-1, 0)), IntoC>>, <<IntoC>>,
             <<Claim("a", "b", "sql", OffsetBy(0, 1)), Claim("a", "b", "sql", OffsetBy(0, 0)), IntoC>>,
             <<Claim("a", "b", "sql", Unknown(OneField)), [IntoC EXCEPT !.columns = {<<"x", "y">>}]>>}}
  \cup {[specs |-> Plain({"a", "b"}),
         edges |-> <<Claim("a", "b", "sql", OffsetBy(0, 0)), Claim("a", "b", "dbt", OffsetBy(-1, 1))>>],
        [specs |-> [Plain({"a", "b", "c"}) EXCEPT !.c = <<TimeField(MONTH)>>],
         edges |-> <<Claim("a", "b", "sql", OffsetBy(0, 1)),
                     Claim("b", "c", "sql", Rollup(OneField, <<TimeField(MONTH)>>))>>]}

Histories == INSTANCE Histories
               WITH Versions <- MCVersions, Editors <- {"ann", ""}, ClockOf <- ("ann" :> 1) @@ ("" :> 2),
                    ReadLimit <- 2, MaxRevisions <- 3,
                    DirtySeeds <- [a |-> {[dt |-> At(2024, 2, 29, 0), region |-> ANY]}]
-----------------------------------------------------------------------------
NoPlan == [edges |-> {}, dirty |-> [d \in MCDatasets |-> {}], order |-> << >>]
NoWave == [d \in MCDatasets |-> 0]

ScheduleInit ==
  /\ part \in {"walk", "cycles", "rebuild", "ingest", "history"}
  /\ IF part = "rebuild" THEN Init
     ELSE /\ plan = NoPlan /\ flavor = "tasks" /\ next = 1 /\ grouped = {} /\ count = 0
          /\ placed = NoWave /\ wave = NoWave /\ status = << >> /\ failures = 0 /\ pc = "place"
  /\ IF part = "walk" THEN WalkInit
     ELSE seed = << >> /\ at = << >> /\ spec = << >> /\ composed = << >> /\ length = 0
  /\ IF part = "cycles" THEN Cycles!Init
     ELSE /\ out = [d \in MCDatasets |-> << >>] /\ index = << >> /\ low = << >> /\ stack = << >>
          /\ found = {} /\ work = << >> /\ roots = << >>
  /\ Ingests!Init /\ Histories!HistoryInit
  /\ part = "ingest" <=> project # NoProject

cyclesVars   == <<out, index, low, stack, found, work, roots>>
ingestVars   == <<project, content, declared, now, landed, rows, token, revisions, run,
                  edits, breaks, cut, versions, fetched, undisturbed, crowded>>
historyVars  == <<log, held, base, kept, handed>>
scheduleVars == <<part, vars, walkVars, cyclesVars, ingestVars, historyVars>>

CyclesStep  == part = "cycles" /\ Cycles!Next /\ UNCHANGED <<part, vars, walkVars, ingestVars, historyVars>>
RebuildStep == part = "rebuild" /\ Progress /\ UNCHANGED <<part, walkVars, cyclesVars, ingestVars, historyVars>>
IngestStep(p) ==
  part = "ingest" /\ Ingests!Step(p) /\ UNCHANGED <<part, vars, walkVars, cyclesVars, historyVars>>

Mishap == \E b \in Batches : Fail(b) \/ Retry(b)
Breaks == \E p \in Procs : Ingests!Break(p)

ScheduleNext ==
  \/ part = "walk" /\ Hop /\ UNCHANGED <<part, vars, cyclesVars, ingestVars, historyVars>>
  \/ CyclesStep
  \/ RebuildStep
  \/ part = "rebuild" /\ Mishap /\ UNCHANGED <<part, walkVars, cyclesVars, ingestVars, historyVars>>
  \/ \E p \in Procs : IngestStep(p)
  \/ /\ part = "ingest" /\ (Ingests!World \/ Breaks)
     /\ UNCHANGED <<part, vars, walkVars, cyclesVars, historyVars>>
  \/ part = "history" /\ Histories!HistoryNext /\ UNCHANGED <<part, vars, walkVars, cyclesVars, ingestVars>>

\* Fairness as in modules OnCycle, Rebuild and Ingest.
ScheduleSpec ==
  /\ ScheduleInit /\ [][ScheduleNext]_scheduleVars
  /\ WF_scheduleVars(CyclesStep) /\ WF_scheduleVars(RebuildStep)
  /\ \A p \in Procs : WF_scheduleVars(IngestStep(p))

-----------------------------------------------------------------------------
\* core/partitions.py, along whole paths: what walking the edges one at a time makes
\* dirty is covered by the composed mapping; a join, and a mapping leq calls wider,
\* really claim more; a lower max_keys widens and drops nothing.
PathsClaimEnough ==
  part = "walk" => ComposedCoversWalk /\ WiderClaimsMore /\ CapOnlyWidens

\* graph/history.py, diff.py: the log of a graph's changes is true, explains every claim that
\* was lost, and what it calls safe, with the exceptions named there, loses none.
ClaimsAreKept == PathsClaimEnough /\ (part = "history" => Histories!HistoryIsTrue)

\* graph/model.py _on_cycle: exactly the datasets that can reach themselves are found,
\* and a component leaves the stack whole.
CyclesAreFound == Cycles!FindsTheCyclic /\ Cycles!ComponentsPopWhole

\* Whatever the graph, _on_cycle comes to an end; and "a cycle the planner widened around
\* does not become a scheduler deadlock": unless a batch that failed is left so, every
\* batch of every plan is rebuilt.
WorkComesToItsEnd == (part = "cycles" => <>(Cycles!Done)) /\ EverythingIsRebuilt

\* cli/project.py: once the files stand still the store follows, and what is published is
\* fetched in the end.
EverythingArrives == Ingests!Converges /\ Ingests!AllLineageIsFetched
=============================================================================
