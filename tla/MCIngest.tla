------------------------------ MODULE MCIngest ------------------------------
(***************************************************************************)
(* Small projects for module Ingest: datasets a and b feed c; two model    *)
(* files and a platform whose log reports the same dependencies.           *)
(***************************************************************************)
EXTENDS Ingest, TLC

CONSTANTS p, q, model, manifest, lineage, a, b, c, unpartitioned, none

Report(src, detail) == [src |-> src, dst |-> c, detail |-> detail]

Model    == model :> {<< >>, <<Report(a, "narrow")>>}
Manifest == manifest :> {<<Report(b, "narrow")>>, <<Report(a, "wide")>>}

OneSpec  == {(a :> "day") @@ (b :> "day") @@ (c :> "day")}
TwoSpecs == {a :> "day", (a :> "month") @@ (c :> "month")}

Observed == <<Report(a, "x"), Report(b, "x"), Report(b, "x")>>

\* Two overlapping ingests of two files, an edit and an interruption.
Overlapping ==
  [sources |-> <<model, manifest>>, versions |-> Model @@ Manifest, declarations |-> TwoSpecs,
   event |-> << >>, lag |-> 1, overlap |-> 2, edits |-> 1, breaks |-> 1,
   platform |-> "snowflake", columns |-> {}]

\* Two overlapping ingests that resume from one cursor.
Resuming ==
  [sources |-> <<lineage>>, versions |-> << >>, declarations |-> OneSpec,
   event |-> Observed, lag |-> 2, overlap |-> 2, edits |-> 0, breaks |-> 0,
   platform |-> "snowflake", columns |-> {}]

\* Ingests of a file and the platform, one after the other.
Alone ==
  [sources |-> <<model, lineage>>, versions |-> Model, declarations |-> OneSpec,
   event |-> SubSeq(Observed, 1, 2), lag |-> 1, overlap |-> 1, edits |-> 3, breaks |-> 1,
   platform |-> "snowflake", columns |-> {}]

\* Unity Catalog: dependencies without columns between two that have them, more of them
\* than one fetch returns; and jobs of BigQuery, whose cursor stands still.
Catalogued == [Resuming EXCEPT !.event = <<Report(a, {"x"}), Report(b, {}), Report(b, {}), Report(a, {"y"})>>,
                 !.lag = 1, !.platform = "databricks", !.columns = {1, 4}]
Jobs == [Resuming EXCEPT !.event = <<Report(b, "x"), Report(b, "x"), Report(a, "x")>>,
           !.lag = 1, !.platform = "bigquery"]

MCProjects == {Overlapping, Resuming, Alone, Catalogued, Jobs}

\* For the violations: an adapter that is interrupted; a file in a project that declares
\* no dataset; a file of two statements that read a for c.
Interrupted == {[Resuming EXCEPT !.lag = 1, !.overlap = 1, !.breaks = 1]}
Undeclared  == {[sources |-> <<model>>, versions |-> Model, declarations |-> {<< >>},
                 event |-> << >>, lag |-> 1, overlap |-> 1, edits |-> 1, breaks |-> 0,
                 platform |-> "snowflake", columns |-> {}]}

Repeated    == {[Alone EXCEPT !.sources = <<model>>, !.event = << >>,
                  !.versions = model :> {<<Report(a, "wide"), Report(a, "narrow")>>, << >>}]}

Interchangeable == Permutations(Procs)

=============================================================================
