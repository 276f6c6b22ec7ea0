---------------------------- MODULE MCOperations ----------------------------
(***************************************************************************)
(* What runs beside the graph: change detection, the store's migrations and *)
(* shadow runs.  Each desk is checked in the behaviours in which it alone  *)
(* acts: they share no state.                                              *)
(*                                                                         *)
(* For change detection: one source of each kind under two commands that   *)
(* overlap, and two sources under one that ends early.                     *)
(***************************************************************************)
EXTENDS Detect, TLC, Migrations, Shadow

CONSTANTS p, q, x, y, whole, none

Kinds == {"storage", "delta", "iceberg", "bigquery", "watermark", "altered"}

Single(kind, overlap, writes) ==
  [sources |-> <<kind>>, commands |-> {"detect"}, overlap |-> overlap, breaks |-> 0,
   writes |-> writes]

MCProjects ==
  {Single(kind, 1, 3) : kind \in Kinds} \cup {Single(kind, 2, 2) : kind \in Kinds}
  \cup {[sources |-> <<"untimed", "delta">>, commands |-> {"detect", "plan"},
         overlap |-> 1, breaks |-> 1, writes |-> 1],
        [sources |-> <<"delta">>, commands |-> {"plan"}, overlap |-> 1, breaks |-> 0, writes |-> 2]}

Interchangeable == Permutations(Procs) \cup Permutations(Partitions)

-----------------------------------------------------------------------------
VARIABLE desk
operationVars == <<desk, vars, migrationVars, shadowVars>>

MCBuilds == {[v \in {1, 2} |-> "a"], [v \in {1, 2} |-> IF v = 1 THEN "b" ELSE "a"]}
MCRowSets == {{1}}

MCOrders == {<<1, 2>>, <<2, 1>>}

OperationsInit ==
  /\ desk \in {"detect", "migrations", "shadow"}
  /\ Init /\ MigrationsInit /\ ShadowInit
  /\ desk # "detect" => project = Single("storage", 1, 3)
  /\ desk # "shadow" =>
       /\ content = [d \in Rebuilt \cup {0} |-> [s \in ShadowParts |-> Absent]]
       /\ planned = [d \in Rebuilt |-> {}] /\ remaining = <<1, 2>>

OperationsNext ==
  /\ UNCHANGED desk
  /\ \/ desk = "detect" /\ Next /\ UNCHANGED <<migrationVars, shadowVars>>
     \/ desk = "migrations" /\ MigrationsNext /\ UNCHANGED <<vars, shadowVars>>
     \/ desk = "shadow" /\ ShadowNext /\ UNCHANGED <<vars, migrationVars>>

OperationsSpec == OperationsInit /\ [][OperationsNext]_operationVars

-----------------------------------------------------------------------------
\* cli/project.py, adapters, observe/shadow.py, regression.py: no answer omits a change
\* outside the known gaps, a source nobody wrote to is quiet, and a plan graded sound by
\* full rebuilds left nothing out.
AnswersAreRight ==
  /\ desk = "detect" => OmitsOnlyInGaps /\ QuietSourceIsSilent
  /\ desk = "shadow" => SoundMeansThePlanSufficed /\ GradesAgreeWithRegressions

\* store/migrations.py: whoever migrates or is killed, the ledger tells the schema, and a
\* backup from before the migration is there while it runs.
StoreIsWhole == desk = "migrations" => MigrationsAreWhole /\ BackupsComeFirst
=============================================================================
