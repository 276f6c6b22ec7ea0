----------------------------- MODULE Migrations -----------------------------
(***************************************************************************)
(* store/migrations.py on a SQLite file in WAL mode: several processes     *)
(* plan, back up and migrate one store, any of which may be killed at any  *)
(* point; backups are restored, dumps are imported.                        *)
(*                                                                         *)
(* SQLite is external: the store is a file of pages and a write-ahead log  *)
(* of pages committed since, which a reader sees over the file.  A commit  *)
(* writes its pages to the log; a checkpoint moves them into the file.     *)
(***************************************************************************)
EXTENDS Integers, Sequences, FiniteSets, SequencesExt

CONSTANTS Migrators, Builds,        \* Builds: what a deployment defines, version -> its text
          Versions, MaxBackups, RowSets,
          Careful                   \* a backup is restored only over a store without a log

ASSUME MigrationsAssumption ==
  /\ Versions \subseteq Nat /\ MaxBackups \in Nat
  /\ \A b \in Builds : DOMAIN b \subseteq Versions

VARIABLES file, wal,       \* pages; wal is a partial function of pages
          jobs,            \* process -> [pc, build, steps, work]
          locked,          \* the process inside a transaction, or {}
          backups,         \* the saved copies, oldest first
          dump,            \* what export_store wrote last
          traces          \* history: whose backup is where, which hold a later one of the same
                          \* second, and what was mixed into the store
migrationVars == <<file, wal, jobs, locked, backups, dump, traces>>

\* The ledger is schema_migration; the schema page tells which texts have run on it.
Seen(page) == IF page \in DOMAIN wal THEN wal[page] ELSE file[page]
Store      == [schema |-> Seen("schema"), ledger |-> Seen("ledger"), rows |-> Seen("rows")]
Fresh0     == [schema |-> [v \in Versions |-> << >>], ledger |-> << >>, rows |-> {}]
With(f, k, x) == [y \in DOMAIN f \cup {k} |-> IF y = k THEN x ELSE f[y]]

CurrentVersion(db) == IF DOMAIN db.ledger = {} THEN 0 ELSE CHOOSE v \in DOMAIN db.ledger : \A u \in DOMAIN db.ledger : u <= v
Pending(db, build) == DOMAIN build \ DOMAIN db.ledger
First(steps) == CHOOSE v \in steps : \A u \in steps : v <= u         \* the steps are run in order

\* A migration edited or dropped from the build after it ran.
Problems(db, build) == {v \in DOMAIN db.ledger : v \notin DOMAIN build \/ build[v] # db.ledger[v]}

AtRest == [pc |-> "idle", build |-> << >>, steps |-> {}, ran |-> {}, work |-> Fresh0]
MigrationsInit ==
  /\ file = Fresh0 /\ wal = << >>
  /\ jobs = [p \in Migrators |-> AtRest]
  /\ locked = {} /\ backups = << >> /\ dump = << >>
  /\ traces = [taken |-> [p \in Migrators |-> 0], shared |-> {}, foreign |-> FALSE, mixed |-> FALSE]

Set(p, job) == jobs' = [jobs EXCEPT ![p] = job]
GoTo(p, pc) == Set(p, [jobs[p] EXCEPT !.pc = pc])

\* migrate: plan_migration reads the ledger before any lock is taken; edited history
\* refuses, nothing pending returns.
Plan(p, build) ==
  /\ jobs[p].pc = "idle"
  /\ Problems(Store, build) = {} /\ Pending(Store, build) # {}
  /\ Set(p, [AtRest EXCEPT !.pc = "planned", !.build = build, !.steps = Pending(Store, build)])
  /\ UNCHANGED <<file, wal, locked, backups, dump, traces>>

\* backup: SQLite's backup API reads a committed snapshot, log included, into a file
\* named by the second: a second backup in the same second goes into the same file.
SnapshotOfFile == file      \* mutant: a copy of the file
Snapshot == Store
Backup(p, sameSecond) ==
  /\ jobs[p].pc = "planned"
  /\ IF sameSecond THEN backups # << >> ELSE Len(backups) < MaxBackups
  /\ backups' = (IF sameSecond THEN Front(backups) ELSE backups) \o <<Snapshot>>
  /\ GoTo(p, "saved")
  /\ traces' = [traces EXCEPT !.taken[p] = Len(backups'),
                              !.shared = IF sameSecond THEN @ \cup {Len(backups')} ELSE @]
  /\ UNCHANGED <<file, wal, locked, dump>>

\* BEGIN IMMEDIATE: one writer; a process that waits too long gives up outside the try.
Begin(p) ==
  /\ jobs[p].pc = "saved" /\ locked = {}
  /\ locked' = {p}
  /\ Set(p, [jobs[p] EXCEPT !.pc = "open", !.work = Store])
  /\ UNCHANGED <<file, wal, backups, dump, traces>>
LockTimeout(p) ==
  /\ jobs[p].pc = "saved" /\ locked # {}
  /\ Set(p, AtRest)
  /\ UNCHANGED <<file, wal, locked, backups, dump, traces>>

\* The statements and apply, seen by nobody else before the commit.
Execute(p) ==
  /\ jobs[p].pc = "open"
  /\ LET v == First(jobs[p].steps) IN
       Set(p, [jobs[p] EXCEPT !.pc = "executed", !.work.schema[v] = Append(@, jobs[p].build[v])])
  /\ UNCHANGED <<file, wal, locked, backups, dump, traces>>

\* The ledger's primary key refuses a version another process recorded meanwhile.
MayRecord(db, v)    == v \notin DOMAIN db.ledger
Commit(p) ==
  LET job == jobs[p]  v == First(job.steps) IN
  /\ job.pc = "executed" /\ MayRecord(job.work, v)
  /\ wal' = With(With(wal, "schema", job.work.schema), "ledger", With(job.work.ledger, v, job.build[v]))
  /\ locked' = {}
  /\ Set(p, IF job.steps = {v} THEN AtRest
            ELSE [job EXCEPT !.steps = @ \ {v}, !.ran = @ \cup {v}, !.work = Fresh0, !.pc = "saved"])
  /\ UNCHANGED <<file, backups, dump, traces>>

\* A statement fails, or the ledger refuses: ROLLBACK, and MigrationError.
Fail(p) ==
  /\ jobs[p].pc \in {"open", "executed"}
  /\ locked' = {}
  /\ Set(p, AtRest)
  /\ UNCHANGED <<file, wal, backups, dump, traces>>

\* A process is killed: SQLite rolls its transaction back, the log stays.
Crash(p) ==
  /\ jobs[p].pc # "idle"
  /\ locked' = locked \ {p}
  /\ Set(p, AtRest)
  /\ UNCHANGED <<file, wal, backups, dump, traces>>

\* SQLite: a checkpoint, or the last connection closing.
FoldWal ==
  /\ wal # << >> /\ locked = {}
  /\ file' = Store /\ wal' = << >>
  /\ UNCHANGED <<jobs, locked, backups, dump, traces>>

\* restore copies the file and does not look at the log beside it.
Restore(i) ==
  /\ \A p \in Migrators : jobs[p].pc = "idle"
  /\ Careful => wal = << >>
  /\ file' = backups[i]
  /\ traces' = [traces EXCEPT !.mixed = @ \/ wal # << >>]
  /\ UNCHANGED <<wal, jobs, locked, backups, dump>>

\* What the application stores between migrations.
SaveRows(rows) ==
  /\ locked = {}
  /\ wal' = With(wal, "rows", rows)
  /\ UNCHANGED <<file, jobs, locked, backups, dump, traces>>

Export ==
  /\ dump' = <<[ledger |-> Store.ledger, rows |-> Store.rows]>>
  /\ UNCHANGED <<file, wal, jobs, locked, backups, traces>>

\* import_store: with replace the rows of every table but the ledger are deleted, each
\* by itself, before the transaction; the load replaces ledger rows as well; an export
\* with a table this store lacks, or a bad line, rolls the load back, and the load only.
Deleted(replace) == IF replace THEN With(wal, "rows", {}) ELSE wal
ImportFails(replace) ==
  /\ locked = {} /\ dump # << >>
  /\ wal' = Deleted(replace)
  /\ UNCHANGED <<file, jobs, locked, backups, dump, traces>>
Loaded(replace) == dump[1].rows \cup (IF replace THEN {} ELSE Store.rows)
Import(replace) ==
  /\ locked = {} /\ dump # << >>
  /\ LET d == dump[1] IN
       /\ wal' = With(With(wal, "rows", Loaded(replace)), "ledger",
                      [v \in DOMAIN Store.ledger \cup DOMAIN d.ledger |->
                         IF v \in DOMAIN d.ledger THEN d.ledger[v] ELSE Store.ledger[v]])
       /\ traces' = [traces EXCEPT !.foreign = @ \/ \E v \in DOMAIN d.ledger :
                        v \notin DOMAIN Store.ledger \/ Store.ledger[v] # d.ledger[v]]
  /\ UNCHANGED <<file, jobs, locked, backups, dump>>

MigrationsNext ==
  \/ \E p \in Migrators :
       \/ \E b \in Builds : Plan(p, b)
       \/ \E same \in BOOLEAN : Backup(p, same)
       \/ Begin(p) \/ LockTimeout(p) \/ Execute(p) \/ Commit(p) \/ Fail(p) \/ Crash(p)
  \/ FoldWal \/ Export
  \/ \E i \in DOMAIN backups : Restore(i)
  \/ \E rows \in RowSets : SaveRows(rows)
  \/ \E replace \in BOOLEAN : Import(replace) \/ ImportFails(replace)

-----------------------------------------------------------------------------
LedgerIsTrue(db) ==
  \A v \in Versions : db.schema[v] = IF v \in DOMAIN db.ledger THEN <<db.ledger[v]>> ELSE << >>

\* Whoever migrates at once, is killed, fails or is rolled back to a backup: the ledger
\* says exactly which migrations the schema has, each having run once, and every backup
\* is such a store.  (Importing a dump of a store at another version writes that
\* store's ledger over this schema; restoring over a log mixes two stores.)
MigrationsAreWhole ==
  ~traces.foreign /\ ~traces.mixed =>
    LedgerIsTrue(Store) /\ \A i \in DOMAIN backups : LedgerIsTrue(backups[i])

Found(job) == DOMAIN job.build \ (job.steps \cup job.ran)       \* applied when it looked

\* While a process migrates, the backup it took is there, log included: it has every
\* migration the process found applied, and none it applied since, unless there was another
\* backup in the same second after it.
BackupsComeFirst ==
  \A p \in Migrators : jobs[p].pc \in {"saved", "open", "executed"} =>
    LET at == traces.taken[p]
        found == Found(jobs[p])
    IN  /\ at \in DOMAIN backups /\ found \subseteq DOMAIN backups[at].ledger
        /\ at \in traces.shared \/ jobs[p].ran \cap DOMAIN backups[at].ledger = {}

\* restore: "Put a backup back."  (store/migrations.py:241)
BackupIsPutBack == \A i \in DOMAIN backups : Restore(i) => Store' = backups[i]
RestorePutsTheBackupBack == [][BackupIsPutBack]_migrationVars
=============================================================================
