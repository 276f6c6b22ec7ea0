-------------------------- MODULE OperationsProofs --------------------------
(***************************************************************************)
(* Migrations of one store, for any number of processes, builds, versions  *)
(* and backups: whatever is killed, rolled back or imported, the ledger    *)
(* tells the schema and the backup of who migrates is a backup.  Then      *)
(* change detection, for any projects, commands, writes and contents, and  *)
(* shadow runs, for any datasets, partitions and orders.                   *)
(***************************************************************************)
EXTENDS MCOperations, Rounds, SequenceTheorems

Texts   == UNION {{b[v] : v \in DOMAIN b} : b \in Builds}
Schemas == [Versions -> Seq(Texts)]
Ledgers == UNION {[V -> Texts] : V \in SUBSET Versions}
Rows    == SUBSET (UNION RowSets)
Databases == [schema : Schemas, ledger : Ledgers, rows : Rows]
Jobs == [pc : {"idle", "planned", "saved", "open", "executed"}, build : Builds \cup {<< >>},
         steps : SUBSET Versions, ran : SUBSET Versions, work : Databases]

MigrationsTypeOK ==
  /\ file \in Databases
  /\ "schema" \in DOMAIN wal => wal["schema"] \in Schemas
  /\ "ledger" \in DOMAIN wal => wal["ledger"] \in Ledgers
  /\ "rows" \in DOMAIN wal => wal["rows"] \in Rows
  /\ jobs \in [Migrators -> Jobs]
  /\ locked = {} \/ \E m \in Migrators : locked = {m}
  /\ backups \in Seq(Databases)
  /\ dump # << >> => dump[1].ledger \in Ledgers /\ dump[1].rows \in Rows
  /\ traces \in [taken : [Migrators -> Nat], shared : SUBSET Nat, foreign : BOOLEAN, mixed : BOOLEAN]

\* What a process has in hand: steps of its build left to do, all that it found applied
\* still in the ledger, the store as it is from BEGIN to COMMIT, with one step done, and a
\* backup that knows no more than the store: the ledger only grows while anybody migrates.
InHand(m) ==
  LET job == jobs[m]  v == First(job.steps) IN
  /\ job.pc # "idle" =>
       /\ job.build \in Builds /\ job.steps # {} /\ job.steps \subseteq DOMAIN job.build
       /\ Found(job) \subseteq DOMAIN Store.ledger
  /\ job.pc = "planned" => job.ran = {}
  /\ job.pc \in {"open", "executed"} <=> locked = {m}
  /\ job.pc \in {"open", "executed"} => job.work.ledger = Store.ledger
  /\ job.pc = "open" => job.work.schema = Store.schema
  /\ job.pc = "executed" => job.work.schema = [Store.schema EXCEPT ![v] = Append(@, job.build[v])]
  /\ job.pc \in {"saved", "open", "executed"} =>
       LET at == traces.taken[m] IN
       /\ at \in DOMAIN backups /\ Found(job) \subseteq DOMAIN backups[at].ledger
       /\ at \in traces.shared \/ job.ran \cap DOMAIN backups[at].ledger = {}
       /\ DOMAIN backups[at].ledger \subseteq DOMAIN Store.ledger

MigrationsInv == MigrationsTypeOK /\ (\A m \in Migrators : InHand(m)) /\ MigrationsAreWhole

-----------------------------------------------------------------------------
LEMMA FirstIsAStep ==
  ASSUME NEW steps \in SUBSET Versions, steps # {}
  PROVE  First(steps) \in steps
  BY LeastNumber, MigrationsAssumption DEF First, MigrationsAssumption

LEMMA StoreType ==
  ASSUME MigrationsTypeOK
  PROVE  Store \in Databases
  BY DEF Store, Seen, MigrationsTypeOK, Databases

\* The inductive invariant says what the run checks.
LEMMA WholeAtDesk == MigrationsInv => StoreIsWhole
  BY DEF MigrationsInv, StoreIsWhole, BackupsComeFirst, InHand

LEMMA FreshType == Fresh0 \in Databases
  <1>1. << >> \in Seq(Texts) /\ {} \in Rows
    BY DEF Rows
  <1>2. << >> \in Ledgers
    <2>1. << >> \in [{} -> Texts]
      OBVIOUS
    <2> QED BY <2>1 DEF Ledgers
  <1> QED BY <1>1, <1>2 DEF Fresh0, Databases, Schemas

LEMMA MigrationsInvInit == MigrationsInit => MigrationsInv
  <1> SUFFICES ASSUME MigrationsInit PROVE MigrationsInv
    OBVIOUS
  <1> USE DEF MigrationsInit
  <1>1. Fresh0 \in Databases
    BY FreshType
  <1>2. AtRest \in Jobs
    BY <1>1 DEF AtRest, Jobs
  <1>3. MigrationsTypeOK
    BY <1>1, <1>2 DEF MigrationsTypeOK
  <1>4. \A m \in Migrators : InHand(m)
    BY DEF InHand, AtRest
  <1>5. MigrationsAreWhole
    BY DEF MigrationsAreWhole, LedgerIsTrue, Store, Seen, Fresh0
  <1> QED BY <1>3, <1>4, <1>5 DEF MigrationsInv

-----------------------------------------------------------------------------
\* A process that does not move keeps what it has in hand, if the ledger only grows, the
\* store stands still while it is inside its transaction, and its backup is left alone or
\* replaced by a later one of the same second.
LEMMA HandKept ==
  ASSUME NEW m \in Migrators, MigrationsTypeOK, InHand(m),
         jobs'[m] = jobs[m],
         DOMAIN Store.ledger \subseteq DOMAIN Store'.ledger,
         jobs[m].pc \in {"open", "executed"} => Store'.ledger = Store.ledger /\ Store'.schema = Store.schema,
         (locked' = {m}) <=> (locked = {m}),
         traces'.taken[m] = traces.taken[m], traces.shared \subseteq traces'.shared,
         DOMAIN backups \subseteq DOMAIN backups',
         jobs[m].pc \in {"saved", "open", "executed"} =>
           LET at == traces.taken[m] IN
             \/ backups'[at] = backups[at]
             \/ /\ at \in traces'.shared
                /\ Found(jobs[m]) \subseteq DOMAIN backups'[at].ledger
                /\ DOMAIN backups'[at].ledger \subseteq DOMAIN Store'.ledger
  PROVE  InHand(m)'
  BY DEF InHand, Found

\* The same when only the file or its log are touched, between transactions.
LEMMA HandsKept ==
  ASSUME MigrationsTypeOK, \A m \in Migrators : InHand(m),
         UNCHANGED <<jobs, locked, backups>>,
         traces'.taken = traces.taken, traces'.shared = traces.shared,
         DOMAIN Store.ledger \subseteq DOMAIN Store'.ledger,
         locked # {} => Store'.ledger = Store.ledger /\ Store'.schema = Store.schema
  PROVE  \A m \in Migrators : InHand(m)'
  <1> TAKE m \in Migrators
  <1>1. jobs[m].pc \in {"open", "executed"} => locked # {}
    BY DEF InHand
  <1> QED BY <1>1, HandKept

\* What a process has in hand goes on when it is at rest.
LEMMA HandAtRest ==
  ASSUME NEW m \in Migrators, jobs'[m] = AtRest, locked' # {m}
  PROVE  InHand(m)'
  BY DEF InHand, AtRest

-----------------------------------------------------------------------------
LEMMA PlanStep ==
  ASSUME MigrationsInv, NEW m \in Migrators, NEW b \in Builds, Plan(m, b)
  PROVE  MigrationsInv'
  <1> USE DEF Plan, Set, GoTo
  <1>1. Store \in Databases /\ Store' = Store
    BY StoreType DEF MigrationsInv, Store, Seen
  <1>2. DOMAIN b \subseteq Versions /\ Pending(Store, b) \in SUBSET Versions
    BY MigrationsAssumption DEF MigrationsAssumption, Pending
  <1>3. AtRest \in Jobs /\ jobs \in [Migrators -> Jobs]
    BY FreshType DEF MigrationsInv, MigrationsTypeOK, Jobs, AtRest
  <1>4. jobs' \in [Migrators -> Jobs]
    BY <1>2, <1>3 DEF Jobs, AtRest
  <1>5. MigrationsTypeOK'
    BY <1>4 DEF MigrationsInv, MigrationsTypeOK
  <1>6. \A n \in Migrators : InHand(n)'
    <2> TAKE n \in Migrators
    <2>1. CASE n = m
      <3>1. jobs'[m] = [AtRest EXCEPT !.pc = "planned", !.build = b, !.steps = Pending(Store, b)]
        BY <1>3
      <3>2. Found(jobs'[m]) \subseteq DOMAIN Store.ledger
        <4>1. jobs'[m].build = b /\ jobs'[m].steps = DOMAIN b \ DOMAIN Store.ledger /\ jobs'[m].ran = {}
          BY <3>1 DEF Pending, AtRest
        <4> QED BY <4>1 DEF Found
      <3>3. locked # {m}
        BY DEF MigrationsInv, InHand
      <3> QED BY <1>1, <2>1, <3>1, <3>2, <3>3 DEF InHand, Found, Pending, AtRest
    <2>2. CASE n # m
      <3>1. jobs'[n] = jobs[n]
        BY <1>3, <2>2
      <3> QED BY <1>1, <3>1, HandKept DEF MigrationsInv
    <2> QED BY <2>1, <2>2
  <1>7. MigrationsAreWhole'
    BY <1>1 DEF MigrationsInv, MigrationsAreWhole, LedgerIsTrue
  <1> QED BY <1>5, <1>6, <1>7 DEF MigrationsInv

\* Nothing but one job changes, and it comes to rest outside a transaction.
LEMMA RestStep ==
  ASSUME MigrationsInv, NEW m \in Migrators, Set(m, AtRest),
         locked' = locked \ {m}, UNCHANGED <<file, wal, backups, dump, traces>>
  PROVE  MigrationsInv'
  <1>1. Store' = Store
    BY DEF Store, Seen
  <1>2. AtRest \in Jobs
    BY FreshType DEF Jobs, AtRest
  <1>3. jobs \in [Migrators -> Jobs] /\ jobs' = [jobs EXCEPT ![m] = AtRest]
    BY DEF MigrationsInv, MigrationsTypeOK, Set
  <1>4. MigrationsTypeOK'
    BY <1>2, <1>3 DEF MigrationsInv, MigrationsTypeOK
  <1>5. \A n \in Migrators : InHand(n)'
    <2> TAKE n \in Migrators
    <2>1. CASE n = m
      BY <1>3, <2>1, HandAtRest
    <2>2. CASE n # m
      <3>1. jobs'[n] = jobs[n] /\ ((locked' = {n}) <=> (locked = {n}))
        BY <1>3, <2>2 DEF MigrationsInv, MigrationsTypeOK
      <3> QED BY <1>1, <3>1, HandKept DEF MigrationsInv
    <2> QED BY <2>1, <2>2
  <1>6. MigrationsAreWhole'
    BY <1>1 DEF MigrationsInv, MigrationsAreWhole, LedgerIsTrue
  <1> QED BY <1>4, <1>5, <1>6 DEF MigrationsInv

LEMMA BackupStep ==
  ASSUME MigrationsInv, NEW m \in Migrators, NEW same \in BOOLEAN, Backup(m, same)
  PROVE  MigrationsInv'
  <1> USE DEF Backup, Set, GoTo
  <1> DEFINE last == Len(backups')
  <1>1. Store \in Databases /\ Store' = Store
    BY StoreType DEF MigrationsInv, Store, Seen
  <1>2. /\ jobs \in [Migrators -> Jobs] /\ jobs' = [jobs EXCEPT ![m] = [jobs[m] EXCEPT !.pc = "saved"]]
        /\ jobs' \in [Migrators -> Jobs]
    <2>1. jobs \in [Migrators -> Jobs] /\ jobs[m] \in Jobs
      BY DEF MigrationsInv, MigrationsTypeOK
    <2>2. [jobs[m] EXCEPT !.pc = "saved"] \in Jobs
      BY <2>1 DEF Jobs
    <2> QED BY <2>1, <2>2
  <1>3. backups \in Seq(Databases)
    BY DEF MigrationsInv, MigrationsTypeOK
  <1>4. /\ backups' \in Seq(Databases) /\ last \in Nat \ {0}
        /\ last = (IF same THEN Len(backups) ELSE Len(backups) + 1)
        /\ backups'[last] = Store
        /\ \A i \in 1 .. last - 1 : backups'[i] = backups[i]
    <2>1. CASE ~same
      <3>1. backups' = backups \o <<Store>>
        BY <2>1 DEF Snapshot
      <3> QED BY <1>1, <1>3, <2>1, <3>1
    <2>2. CASE same
      <3>1. backups # << >> /\ backups' = Front(backups) \o <<Store>>
        BY <2>2 DEF Snapshot
      <3>2. /\ Front(backups) \in Seq(Databases) /\ Len(Front(backups)) = Len(backups) - 1
            /\ \A i \in 1 .. Len(backups) - 1 : Front(backups)[i] = backups[i]
        BY <1>3, <3>1 DEF Front
      <3> QED BY <1>1, <1>3, <2>2, <3>1, <3>2
    <2> QED BY <2>1, <2>2
  <1>5. /\ DOMAIN backups \subseteq 1 .. last /\ DOMAIN backups' = 1 .. last
        /\ \A i \in DOMAIN backups : backups'[i] = backups[i] \/ (same /\ i = last)
    BY <1>3, <1>4
  <1>6. /\ traces'.taken = [traces.taken EXCEPT ![m] = last]
        /\ traces'.shared = IF same THEN traces.shared \cup {last} ELSE traces.shared
        /\ traces'.foreign = traces.foreign /\ traces'.mixed = traces.mixed
        /\ traces' \in [taken : [Migrators -> Nat], shared : SUBSET Nat, foreign : BOOLEAN, mixed : BOOLEAN]
        /\ traces.taken \in [Migrators -> Nat]
    BY <1>4 DEF MigrationsInv, MigrationsTypeOK
  <1>7. MigrationsTypeOK'
    BY <1>2, <1>4, <1>6 DEF MigrationsInv, MigrationsTypeOK
  <1>8. \A n \in Migrators : InHand(n)'
    <2> HIDE DEF last
    <2> TAKE n \in Migrators
    <2>1. CASE n = m
      <3>1. /\ jobs[m].pc = "planned" /\ jobs'[m] = [jobs[m] EXCEPT !.pc = "saved"]
            /\ jobs'[m].pc = "saved" /\ jobs'[m].build = jobs[m].build
            /\ jobs'[m].steps = jobs[m].steps /\ jobs'[m].ran = jobs[m].ran
        BY <1>2 DEF Jobs
      <3>2. traces'.taken[m] = last /\ last \in DOMAIN backups' /\ backups'[last] = Store
        BY <1>4, <1>5, <1>6
      <3>3. /\ Found(jobs[m]) \subseteq DOMAIN Store.ledger /\ jobs[m].ran = {} /\ locked # {m}
            /\ jobs[m].build \in Builds /\ jobs[m].steps # {} /\ jobs[m].steps \subseteq DOMAIN jobs[m].build
        BY <3>1 DEF MigrationsInv, InHand
      <3> QED BY <1>1, <2>1, <3>1, <3>2, <3>3 DEF InHand, Found
    <2>2. CASE n # m
      <3>1. jobs'[n] = jobs[n] /\ traces'.taken[n] = traces.taken[n] /\ traces.shared \subseteq traces'.shared
        BY <1>2, <1>6, <2>2
      <3>2. jobs[n].pc \in {"saved", "open", "executed"} =>
              LET at == traces.taken[n] IN
                \/ backups'[at] = backups[at]
                \/ /\ at \in traces'.shared
                   /\ Found(jobs[n]) \subseteq DOMAIN backups'[at].ledger
                   /\ DOMAIN backups'[at].ledger \subseteq DOMAIN Store'.ledger
        <4>1. SUFFICES ASSUME jobs[n].pc \in {"saved", "open", "executed"}
                       PROVE  LET at == traces.taken[n] IN
                                \/ backups'[at] = backups[at]
                                \/ /\ at \in traces'.shared
                                   /\ Found(jobs[n]) \subseteq DOMAIN backups'[at].ledger
                                   /\ DOMAIN backups'[at].ledger \subseteq DOMAIN Store'.ledger
          OBVIOUS
        <4>2. traces.taken[n] \in DOMAIN backups /\ Found(jobs[n]) \subseteq DOMAIN Store.ledger
          BY <4>1 DEF MigrationsInv, InHand
        <4>3. CASE backups'[traces.taken[n]] = backups[traces.taken[n]]
          BY <4>3
        <4>4. CASE same /\ traces.taken[n] = last
          BY <1>1, <1>4, <1>6, <4>2, <4>4
        <4> QED BY <1>5, <4>2, <4>3, <4>4
      <3> QED BY <1>1, <1>5, <3>1, <3>2, HandKept DEF MigrationsInv
    <2> QED BY <2>1, <2>2
  <1>9. MigrationsAreWhole'
    <2>1. SUFFICES ASSUME ~traces'.foreign, ~traces'.mixed
                   PROVE  LedgerIsTrue(Store') /\ \A i \in DOMAIN backups' : LedgerIsTrue(backups'[i])
      BY DEF MigrationsAreWhole, LedgerIsTrue
    <2>2. LedgerIsTrue(Store) /\ \A i \in DOMAIN backups : LedgerIsTrue(backups[i])
      BY <1>6, <2>1 DEF MigrationsInv, MigrationsAreWhole
    <2>3. \A i \in 1 .. last - 1 : i \in DOMAIN backups
      BY <1>3, <1>4
    <2>4. \A i \in DOMAIN backups' : i = last \/ i \in 1 .. last - 1
      BY <1>4, <1>5
    <2> HIDE DEF last
    <2> QED BY <1>1, <1>4, <2>2, <2>3, <2>4
  <1> QED BY <1>7, <1>8, <1>9 DEF MigrationsInv

LEMMA BeginStep ==
  ASSUME MigrationsInv, NEW m \in Migrators, Begin(m)
  PROVE  MigrationsInv'
  <1> USE DEF Begin, Set
  <1>1. Store \in Databases /\ Store' = Store
    BY StoreType DEF MigrationsInv, Store, Seen
  <1>2. /\ jobs \in [Migrators -> Jobs]
        /\ jobs' = [jobs EXCEPT ![m] = [jobs[m] EXCEPT !.pc = "open", !.work = Store]]
        /\ jobs' \in [Migrators -> Jobs]
    <2>1. jobs \in [Migrators -> Jobs] /\ jobs[m] \in Jobs
      BY DEF MigrationsInv, MigrationsTypeOK
    <2>2. [jobs[m] EXCEPT !.pc = "open", !.work = Store] \in Jobs
      BY <1>1, <2>1 DEF Jobs
    <2> QED BY <2>1, <2>2
  <1>3. MigrationsTypeOK'
    BY <1>2 DEF MigrationsInv, MigrationsTypeOK
  <1>4. \A n \in Migrators : InHand(n)'
    <2> TAKE n \in Migrators
    <2>1. CASE n = m
      <3>1. /\ jobs[m].pc = "saved" /\ jobs'[m].pc = "open" /\ jobs'[m].build = jobs[m].build
            /\ jobs'[m].steps = jobs[m].steps /\ jobs'[m].ran = jobs[m].ran /\ jobs'[m].work = Store
        BY <1>2 DEF Jobs
      <3>2. InHand(m)
        BY DEF MigrationsInv
      <3> QED BY <1>1, <2>1, <3>1, <3>2 DEF InHand, Found
    <2>2. CASE n # m
      <3>1. jobs'[n] = jobs[n] /\ locked = {} /\ locked' # {n}
        BY <1>2, <2>2
      <3> QED BY <1>1, <3>1, HandKept DEF MigrationsInv
    <2> QED BY <2>1, <2>2
  <1>5. MigrationsAreWhole'
    BY <1>1 DEF MigrationsInv, MigrationsAreWhole, LedgerIsTrue
  <1> QED BY <1>3, <1>4, <1>5 DEF MigrationsInv

LEMMA ExecuteStep ==
  ASSUME MigrationsInv, NEW m \in Migrators, Execute(m)
  PROVE  MigrationsInv'
  <1> USE DEF Execute, Set
  <1> DEFINE v == First(jobs[m].steps)
             t == jobs[m].build[v]
             schema == [jobs[m].work.schema EXCEPT ![v] = Append(@, t)]
  <1>1. Store \in Databases /\ Store' = Store
    BY StoreType DEF MigrationsInv, Store, Seen
  <1>2. jobs \in [Migrators -> Jobs] /\ jobs[m] \in Jobs /\ InHand(m) /\ jobs[m].pc = "open"
    BY DEF MigrationsInv, MigrationsTypeOK
  <1>3. /\ jobs[m].build \in Builds /\ v \in jobs[m].steps /\ v \in DOMAIN jobs[m].build /\ v \in Versions
        /\ t \in Texts
    BY <1>2, FirstIsAStep DEF InHand, Jobs, Texts
  <1>4. schema \in Schemas
    BY <1>2, <1>3 DEF Jobs, Databases, Schemas
  <1>5. jobs' = [jobs EXCEPT ![m] = [jobs[m] EXCEPT !.pc = "executed",
                                       !.work.schema[v] = Append(jobs[m].work.schema[v], t)]]
    OBVIOUS
  <1>6. /\ jobs'[m].pc = "executed" /\ jobs'[m].build = jobs[m].build /\ jobs'[m].steps = jobs[m].steps
        /\ jobs'[m].ran = jobs[m].ran /\ jobs'[m].work.schema = schema
        /\ jobs'[m].work.ledger = jobs[m].work.ledger /\ jobs'[m] \in Jobs
    <2>1. jobs[m].work \in Databases /\ jobs[m].work.schema \in Schemas
      BY <1>2 DEF Jobs, Databases
    <2>2. jobs'[m] = [jobs[m] EXCEPT !.pc = "executed", !.work = [jobs[m].work EXCEPT !.schema = schema]]
      BY <1>2, <1>5, <2>1 DEF Jobs, Databases, Schemas
    <2> HIDE DEF schema
    <2> DEFINE work == [jobs[m].work EXCEPT !.schema = schema]
    <2>3. work \in Databases /\ work.schema = schema /\ work.ledger = jobs[m].work.ledger
      BY <1>4, <2>1 DEF Databases
    <2> HIDE DEF work
    <2>4. [jobs[m] EXCEPT !.pc = "executed", !.work = work] \in Jobs
      BY <1>2, <2>3 DEF Jobs
    <2> QED BY <1>2, <2>2, <2>3, <2>4 DEF Jobs, work
  <1>7. \A n \in Migrators : n # m => jobs'[n] = jobs[n]
    BY <1>2, <1>5
  <1>8. MigrationsTypeOK'
    <2>1. jobs' \in [Migrators -> Jobs]
      BY <1>2, <1>5, <1>6
    <2> QED BY <2>1 DEF MigrationsInv, MigrationsTypeOK
  <1>9. \A n \in Migrators : InHand(n)'
    <2> TAKE n \in Migrators
    <2>1. CASE n = m
      BY <1>1, <1>2, <1>6, <2>1 DEF InHand, Found
    <2>2. CASE n # m
      BY <1>1, <1>7, <2>2, HandKept DEF MigrationsInv
    <2> QED BY <2>1, <2>2
  <1>10. MigrationsAreWhole'
    BY <1>1 DEF MigrationsInv, MigrationsAreWhole, LedgerIsTrue
  <1> QED BY <1>8, <1>9, <1>10 DEF MigrationsInv

\* The step that is recorded ran once more than the ledger told, and that was not at all.
LEMMA CommitStep ==
  ASSUME MigrationsInv, NEW m \in Migrators, Commit(m)
  PROVE  MigrationsInv'
  <1> DEFINE job == jobs[m]
             v == First(job.steps)
             t == job.build[v]
             ledger == With(job.work.ledger, v, t)
             after == IF job.steps = {v} THEN AtRest
                      ELSE [job EXCEPT !.steps = job.steps \ {v}, !.ran = job.ran \cup {v},
                                       !.work = Fresh0, !.pc = "saved"]
  <1>1. /\ job.pc = "executed" /\ v \notin DOMAIN job.work.ledger
        /\ wal' = With(With(wal, "schema", job.work.schema), "ledger", ledger)
        /\ locked' = {} /\ jobs' = [jobs EXCEPT ![m] = after]
        /\ UNCHANGED <<file, backups, dump, traces>>
    BY DEF Commit, MayRecord, Set
  <1>2. Store \in Databases /\ jobs \in [Migrators -> Jobs] /\ job \in Jobs /\ InHand(m)
    BY StoreType DEF MigrationsInv, MigrationsTypeOK
  <1>3. /\ job.build \in Builds /\ v \in job.steps /\ job.steps \subseteq DOMAIN job.build /\ v \in Versions
        /\ t \in Texts
    BY <1>1, <1>2, FirstIsAStep DEF InHand, Jobs, Texts
  <1>4. /\ job.work.ledger = Store.ledger /\ locked = {m}
        /\ job.work.schema = [Store.schema EXCEPT ![v] = Append(Store.schema[v], t)]
        /\ job.work.schema \in Schemas
    BY <1>1, <1>2 DEF InHand, Jobs, Databases
  <1>5. /\ ledger \in Ledgers /\ DOMAIN ledger = DOMAIN Store.ledger \cup {v} /\ ledger[v] = t
        /\ \A u \in DOMAIN Store.ledger : u # v => ledger[u] = Store.ledger[u]
    <2>1. PICK V \in SUBSET Versions : Store.ledger \in [V -> Texts]
      BY <1>2 DEF Databases, Ledgers
    <2>2. ledger \in [V \cup {v} -> Texts]
      BY <1>3, <1>4, <2>1 DEF With
    <2>3. ledger \in Ledgers
      <3> HIDE DEF ledger, v
      <3> QED BY <1>3, <2>2 DEF Ledgers
    <2>4. /\ DOMAIN ledger = DOMAIN Store.ledger \cup {v} /\ ledger[v] = t
          /\ \A u \in DOMAIN Store.ledger : u # v => ledger[u] = Store.ledger[u]
      BY <1>4 DEF With
    <2> QED BY <2>3, <2>4
  <1>6. /\ "schema" \in DOMAIN wal' /\ wal'["schema"] = job.work.schema
        /\ "ledger" \in DOMAIN wal' /\ wal'["ledger"] = ledger
        /\ ("rows" \in DOMAIN wal') <=> ("rows" \in DOMAIN wal)
        /\ "rows" \in DOMAIN wal => wal'["rows"] = wal["rows"]
    <2> HIDE DEF ledger
    <2> QED BY <1>1 DEF With
  <1>7. Store'.schema = job.work.schema /\ Store'.ledger = ledger
    <2> HIDE DEF ledger
    <2> QED BY <1>6 DEF Store, Seen
  <1>8. after \in Jobs
    <2>1. AtRest \in Jobs /\ Fresh0 \in Databases
      BY FreshType DEF Jobs, AtRest
    <2>2. [job EXCEPT !.steps = job.steps \ {v}, !.ran = job.ran \cup {v}, !.work = Fresh0, !.pc = "saved"] \in Jobs
      BY <1>2, <1>3, <2>1 DEF Jobs
    <2> QED BY <2>1, <2>2
  <1>9. MigrationsTypeOK'
    <2>1. jobs' \in [Migrators -> Jobs]
      BY <1>1, <1>2, <1>8
    <2> HIDE DEF ledger, after
    <2> QED BY <1>1, <1>4, <1>5, <1>6, <2>1 DEF MigrationsInv, MigrationsTypeOK
  <1>10. \A n \in Migrators : InHand(n)'
    <2> TAKE n \in Migrators
    <2>1. CASE n = m /\ job.steps = {v}
      BY <1>1, <1>2, <2>1, HandAtRest
    <2>2. CASE n = m /\ job.steps # {v}
      <3>1. /\ jobs'[m].pc = "saved" /\ jobs'[m].build = job.build
            /\ jobs'[m].steps = job.steps \ {v} /\ jobs'[m].ran = job.ran \cup {v}
        BY <1>1, <1>2, <2>2 DEF Jobs
      <3>2. jobs'[m].steps # {} /\ Found(jobs'[m]) = Found(job)
        BY <1>3, <2>2, <3>1 DEF Found
      <3>3. LET at == traces.taken[m] IN
              /\ at \in DOMAIN backups /\ Found(job) \subseteq DOMAIN backups[at].ledger
              /\ DOMAIN backups[at].ledger \subseteq DOMAIN Store.ledger
              /\ at \in traces.shared \/ (job.ran \cup {v}) \cap DOMAIN backups[at].ledger = {}
        <4>1. LET at == traces.taken[m] IN
                /\ at \in DOMAIN backups /\ Found(job) \subseteq DOMAIN backups[at].ledger
                /\ at \in traces.shared \/ job.ran \cap DOMAIN backups[at].ledger = {}
                /\ DOMAIN backups[at].ledger \subseteq DOMAIN Store.ledger
          BY <1>1, <1>2 DEF InHand
        <4>2. v \notin DOMAIN Store.ledger
          BY <1>1, <1>4
        <4> HIDE DEF v, job
        <4> QED BY <4>1, <4>2
      <3>4. Found(job) \subseteq DOMAIN Store.ledger
        BY <1>1, <1>2 DEF InHand
      <3> HIDE DEF ledger, after
      <3> QED BY <1>1, <1>3, <1>5, <1>7, <2>2, <3>1, <3>2, <3>3, <3>4 DEF InHand
    <2>3. CASE n # m
      <3>1. jobs'[n] = jobs[n]
        BY <1>1, <1>2, <2>3
      <3>2. jobs[n].pc \notin {"open", "executed"}
        BY <1>4, <2>3 DEF MigrationsInv, InHand
      <3> HIDE DEF ledger, after
      <3> QED BY <1>1, <1>4, <1>5, <1>7, <2>3, <3>1, <3>2, HandKept DEF MigrationsInv
    <2> QED BY <2>1, <2>2, <2>3
  <1>11. MigrationsAreWhole'
    <2>1. SUFFICES ASSUME ~traces.foreign, ~traces.mixed
                   PROVE  LedgerIsTrue(Store') /\ \A i \in DOMAIN backups : LedgerIsTrue(backups[i])
      BY <1>1 DEF MigrationsAreWhole, LedgerIsTrue
    <2>2. LedgerIsTrue(Store) /\ \A i \in DOMAIN backups : LedgerIsTrue(backups[i])
      BY <2>1 DEF MigrationsInv, MigrationsAreWhole
    <2>3. Store.schema[v] = << >> /\ Store.schema \in Schemas
      BY <1>1, <1>2, <1>3, <1>4, <2>2 DEF LedgerIsTrue, Databases
    <2>4. job.work.schema[v] = <<t>>
      BY <1>3, <1>4, <2>3 DEF Schemas
    <2>5. \A u \in Versions : u # v => job.work.schema[u] = Store.schema[u]
      BY <1>4, <2>3 DEF Schemas
    <2>6. LedgerIsTrue(Store')
      <3> HIDE DEF ledger, t, v, job
      <3> QED BY <1>5, <1>7, <2>2, <2>4, <2>5 DEF LedgerIsTrue
    <2> QED BY <2>2, <2>6
  <1> QED BY <1>9, <1>10, <1>11 DEF MigrationsInv

-----------------------------------------------------------------------------
\* SQLite's and the application's own writes, exports and imports are no step of a migrator,
\* and while one is inside its transaction the store stands still.
LEMMA LogStep ==
  ASSUME MigrationsInv, MigrationsTypeOK', UNCHANGED <<jobs, locked, backups>>,
         traces'.taken = traces.taken, traces'.shared = traces.shared,
         DOMAIN Store.ledger \subseteq DOMAIN Store'.ledger,
         locked # {} => Store'.ledger = Store.ledger /\ Store'.schema = Store.schema,
         ~traces'.foreign /\ ~traces'.mixed =>
           /\ ~traces.foreign /\ ~traces.mixed
           /\ LedgerIsTrue(Store) => LedgerIsTrue(Store')
  PROVE  MigrationsInv'
  <1>1. \A m \in Migrators : InHand(m)'
    BY HandsKept DEF MigrationsInv
  <1>2. MigrationsAreWhole'
    BY DEF MigrationsInv, MigrationsAreWhole, LedgerIsTrue
  <1> QED BY <1>1, <1>2 DEF MigrationsInv

LEMMA FoldWalStep ==
  ASSUME MigrationsInv, FoldWal
  PROVE  MigrationsInv'
  <1>1. Store \in Databases /\ file' = Store /\ wal' = << >> /\ DOMAIN wal' = {}
    BY StoreType DEF MigrationsInv, FoldWal
  <1>2. Store'.schema = Store.schema /\ Store'.ledger = Store.ledger
    BY <1>1 DEF Store, Seen
  <1>3. MigrationsTypeOK'
    BY <1>1 DEF FoldWal, MigrationsInv, MigrationsTypeOK
  <1> QED BY <1>2, <1>3, LogStep DEF FoldWal, LedgerIsTrue

LEMMA SaveRowsStep ==
  ASSUME MigrationsInv, NEW rows \in RowSets, SaveRows(rows)
  PROVE  MigrationsInv'
  <1>1. /\ "rows" \in DOMAIN wal' /\ wal'["rows"] = rows /\ rows \in Rows
        /\ ("schema" \in DOMAIN wal') <=> ("schema" \in DOMAIN wal)
        /\ "schema" \in DOMAIN wal => wal'["schema"] = wal["schema"]
        /\ ("ledger" \in DOMAIN wal') <=> ("ledger" \in DOMAIN wal)
        /\ "ledger" \in DOMAIN wal => wal'["ledger"] = wal["ledger"]
    BY DEF SaveRows, With, Rows
  <1>2. Store'.schema = Store.schema /\ Store'.ledger = Store.ledger
    BY <1>1 DEF SaveRows, Store, Seen
  <1>3. MigrationsTypeOK'
    BY <1>1 DEF SaveRows, MigrationsInv, MigrationsTypeOK
  <1> QED BY <1>2, <1>3, LogStep DEF SaveRows, LedgerIsTrue

LEMMA ExportStep ==
  ASSUME MigrationsInv, Export
  PROVE  MigrationsInv'
  <1>1. Store \in Databases /\ Store' = Store
    BY StoreType DEF MigrationsInv, Export, Store, Seen
  <1>2. dump'[1].ledger \in Ledgers /\ dump'[1].rows \in Rows
    BY <1>1 DEF Export, Databases
  <1>3. MigrationsTypeOK'
    BY <1>2 DEF Export, MigrationsInv, MigrationsTypeOK
  <1> QED BY <1>1, <1>3, LogStep DEF Export, LedgerIsTrue

LEMMA ImportFailsStep ==
  ASSUME MigrationsInv, NEW replace \in BOOLEAN, ImportFails(replace)
  PROVE  MigrationsInv'
  <1>1. /\ "rows" \in DOMAIN wal' => wal'["rows"] \in Rows
        /\ ("schema" \in DOMAIN wal') <=> ("schema" \in DOMAIN wal)
        /\ "schema" \in DOMAIN wal => wal'["schema"] = wal["schema"]
        /\ ("ledger" \in DOMAIN wal') <=> ("ledger" \in DOMAIN wal)
        /\ "ledger" \in DOMAIN wal => wal'["ledger"] = wal["ledger"]
    BY DEF ImportFails, Deleted, With, Rows, MigrationsInv, MigrationsTypeOK
  <1>2. Store'.schema = Store.schema /\ Store'.ledger = Store.ledger
    BY <1>1 DEF ImportFails, Store, Seen
  <1>3. MigrationsTypeOK'
    BY <1>1 DEF ImportFails, MigrationsInv, MigrationsTypeOK
  <1> QED BY <1>2, <1>3, LogStep DEF ImportFails, LedgerIsTrue

LEMMA ImportStep ==
  ASSUME MigrationsInv, NEW replace \in BOOLEAN, Import(replace)
  PROVE  MigrationsInv'
  <1> DEFINE d == dump[1]
             ledger == [v \in DOMAIN Store.ledger \cup DOMAIN d.ledger |->
                          IF v \in DOMAIN d.ledger THEN d.ledger[v] ELSE Store.ledger[v]]
             foreign == \E v \in DOMAIN d.ledger : v \notin DOMAIN Store.ledger \/ Store.ledger[v] # d.ledger[v]
  <1>1. /\ locked = {} /\ dump # << >>
        /\ wal' = With(With(wal, "rows", Loaded(replace)), "ledger", ledger)
        /\ traces' = [traces EXCEPT !.foreign = traces.foreign \/ foreign]
        /\ UNCHANGED <<file, jobs, locked, backups, dump>>
    BY DEF Import
  <1>2. Store \in Databases /\ d.ledger \in Ledgers /\ d.rows \in Rows
    BY <1>1, StoreType DEF MigrationsInv, MigrationsTypeOK
  <1>3. ledger \in Ledgers
    <2>1. PICK V \in SUBSET Versions : Store.ledger \in [V -> Texts]
      BY <1>2 DEF Databases, Ledgers
    <2>2. PICK U \in SUBSET Versions : d.ledger \in [U -> Texts]
      BY <1>2 DEF Ledgers
    <2>3. ledger \in [V \cup U -> Texts]
      BY <2>1, <2>2
    <2> QED BY <2>3 DEF Ledgers
  <1>4. Loaded(replace) \in Rows
    BY <1>2 DEF Loaded, Rows, Databases
  <1>5. /\ "ledger" \in DOMAIN wal' /\ wal'["ledger"] = ledger
        /\ "rows" \in DOMAIN wal' /\ wal'["rows"] \in Rows
        /\ ("schema" \in DOMAIN wal') <=> ("schema" \in DOMAIN wal)
        /\ "schema" \in DOMAIN wal => wal'["schema"] = wal["schema"]
    <2> HIDE DEF ledger
    <2> QED BY <1>1, <1>4 DEF With
  <1>6. Store'.schema = Store.schema /\ Store'.ledger = ledger
    <2> HIDE DEF ledger
    <2> QED BY <1>1, <1>5 DEF Store, Seen
  <1>7. /\ traces'.taken = traces.taken /\ traces'.shared = traces.shared
        /\ traces'.mixed = traces.mixed /\ traces'.foreign = (traces.foreign \/ foreign)
        /\ traces' \in [taken : [Migrators -> Nat], shared : SUBSET Nat, foreign : BOOLEAN, mixed : BOOLEAN]
    <2>1. foreign \in BOOLEAN /\ traces.foreign \in BOOLEAN
      BY DEF MigrationsInv, MigrationsTypeOK
    <2> HIDE DEF foreign
    <2> QED BY <1>1, <2>1 DEF MigrationsInv, MigrationsTypeOK
  <1>8. MigrationsTypeOK'
    <2> HIDE DEF ledger, foreign
    <2> QED BY <1>1, <1>3, <1>5, <1>7 DEF MigrationsInv, MigrationsTypeOK
  <1>9. ~foreign => \A v \in Versions :
          /\ (v \in DOMAIN ledger) <=> (v \in DOMAIN Store.ledger)
          /\ v \in DOMAIN ledger => ledger[v] = Store.ledger[v]
    OBVIOUS
  <1>10. ~foreign /\ LedgerIsTrue(Store) => LedgerIsTrue(Store')
    <2> HIDE DEF ledger, foreign
    <2> QED BY <1>6, <1>9 DEF LedgerIsTrue
  <1>11. DOMAIN Store.ledger \subseteq DOMAIN Store'.ledger
    BY <1>6
  <1> HIDE DEF ledger, foreign
  <1> QED BY <1>1, <1>7, <1>8, <1>10, <1>11, LogStep

\* A backup put back over a store without a log is the store; over a log it is a mixture,
\* which traces tell.  Everybody is at rest.
LEMMA RestoreStep ==
  ASSUME MigrationsInv, NEW i \in DOMAIN backups, Restore(i)
  PROVE  MigrationsInv'
  <1>1. backups[i] \in Databases /\ file' = backups[i]
    BY DEF Restore, MigrationsInv, MigrationsTypeOK
  <1>2. /\ traces'.taken = traces.taken /\ traces'.foreign = traces.foreign
        /\ traces'.mixed = (traces.mixed \/ wal # << >>)
        /\ traces' \in [taken : [Migrators -> Nat], shared : SUBSET Nat, foreign : BOOLEAN, mixed : BOOLEAN]
    BY DEF Restore, MigrationsInv, MigrationsTypeOK
  <1>3. MigrationsTypeOK'
    BY <1>1, <1>2 DEF Restore, MigrationsInv, MigrationsTypeOK
  <1>4. \A m \in Migrators : InHand(m)'
    <2> TAKE m \in Migrators
    <2>1. jobs'[m].pc = "idle" /\ jobs[m].pc = "idle" /\ locked' = locked /\ InHand(m)
      BY DEF Restore, MigrationsInv
    <2> QED BY <2>1 DEF InHand
  <1>5. MigrationsAreWhole'
    <2>1. SUFFICES ASSUME ~traces'.foreign, ~traces'.mixed
                   PROVE  LedgerIsTrue(Store') /\ \A k \in DOMAIN backups : LedgerIsTrue(backups[k])
      BY DEF MigrationsAreWhole, Restore, LedgerIsTrue
    <2>2. /\ \A k \in DOMAIN backups : LedgerIsTrue(backups[k])
          /\ wal' = << >> /\ DOMAIN wal' = {}
      BY <1>2, <2>1 DEF Restore, MigrationsInv, MigrationsAreWhole, MigrationsTypeOK
    <2>3. Store'.schema = backups[i].schema /\ Store'.ledger = backups[i].ledger
      BY <1>1, <2>2 DEF Store, Seen
    <2> QED BY <2>2, <2>3 DEF LedgerIsTrue
  <1> QED BY <1>3, <1>4, <1>5 DEF MigrationsInv

-----------------------------------------------------------------------------
LEMMA MigrationsInvNext ==
  ASSUME MigrationsInv, MigrationsNext
  PROVE  MigrationsInv'
  <1>1. ASSUME NEW m \in Migrators, NEW b \in Builds, Plan(m, b) PROVE MigrationsInv'
    BY <1>1, PlanStep
  <1>2. ASSUME NEW m \in Migrators, NEW same \in BOOLEAN, Backup(m, same) PROVE MigrationsInv'
    BY <1>2, BackupStep
  <1>3. ASSUME NEW m \in Migrators, Begin(m) \/ Execute(m) \/ Commit(m) PROVE MigrationsInv'
    BY <1>3, BeginStep, ExecuteStep, CommitStep
  <1>4. ASSUME NEW m \in Migrators, LockTimeout(m) \/ Fail(m) \/ Crash(m) PROVE MigrationsInv'
    <2>1. InHand(m)
      BY DEF MigrationsInv
    <2>2. locked' = locked \ {m}
      <3>1. CASE LockTimeout(m)
        <4>1. locked # {m} /\ (locked = {} \/ \E n \in Migrators : locked = {n})
          BY <2>1, <3>1 DEF LockTimeout, InHand, MigrationsInv, MigrationsTypeOK
        <4> QED BY <3>1, <4>1 DEF LockTimeout
      <3>2. CASE Fail(m)
        BY <2>1, <3>2 DEF Fail, InHand
      <3> QED BY <1>4, <3>1, <3>2 DEF Crash
    <2> QED BY <1>4, <2>2, RestStep DEF LockTimeout, Fail, Crash
  <1>5. ASSUME NEW i \in DOMAIN backups, Restore(i) PROVE MigrationsInv'
    BY <1>5, RestoreStep
  <1>6. ASSUME NEW rows \in RowSets, SaveRows(rows) PROVE MigrationsInv'
    BY <1>6, SaveRowsStep
  <1>7. ASSUME NEW replace \in BOOLEAN, Import(replace) \/ ImportFails(replace) PROVE MigrationsInv'
    BY <1>7, ImportStep, ImportFailsStep
  <1> QED BY <1>1, <1>2, <1>3, <1>4, <1>5, <1>6, <1>7, FoldWalStep, ExportStep DEF MigrationsNext

LEMMA MigrationsInvStutters ==
  ASSUME MigrationsInv, UNCHANGED migrationVars
  PROVE  MigrationsInv'
  <1>1. MigrationsTypeOK'
    BY DEF migrationVars, MigrationsInv, MigrationsTypeOK
  <1>2. Store' = Store
    BY DEF migrationVars, Store, Seen
  <1> QED BY <1>1, <1>2, LogStep DEF migrationVars, LedgerIsTrue

\* store/migrations.py: whoever migrates, is killed, fails, restores or imports, in whatever
\* order: the ledger says exactly what the schema has, in the store and in every backup,
\* unless a dump of another version or a restore over a log was mixed in; and while a
\* process migrates, its backup is one from before.
THEOREM MigrationsKeepTheStore == OperationsSpec => []StoreIsWhole
  <1>1. OperationsInit => MigrationsInv
    BY MigrationsInvInit DEF OperationsInit
  <1>2. MigrationsInv /\ [OperationsNext]_operationVars => MigrationsInv'
    BY MigrationsInvNext, MigrationsInvStutters DEF OperationsNext, operationVars
  <1> QED BY <1>1, <1>2, WholeAtDesk, PTL DEF OperationsSpec

-----------------------------------------------------------------------------
(***************************************************************************)
(* Change detection.  The lemmas say of one source and one token what a    *)
(* write, a checkpoint, a clean-up or an expiry leaves of the answer to    *)
(* the token, and what the token of an answer is answered with; the        *)
(* invariant DetectInv says it of every token that is stored or held.      *)
(***************************************************************************)
SourceKinds == {"storage", "untimed", "delta", "iceberg", "bigquery", "watermark", "altered"}
WriteLogs   == Seq(Writes)
SourceTypes == [log : WriteLogs, first : Nat, checkpoint : Nat, readable : BOOLEAN]
Boundaries  == [time : Nat, seen : SUBSET ({0} \cup Etags)]
Tokens      == {NoToken} \cup Nat \cup Boundaries
AnswerTypes == [parts : SUBSET (Partitions \cup {Whole}), complete : BOOLEAN, upto : Nat]
CommandTypes == [pc : {"idle", "next", "ask", "set"}, command : {"detect", "plan"},
                 at : Nat \ {0}, since : Tokens, answers : Seq(AnswerTypes)]

DetectTypeOK ==
  /\ project \in Projects /\ clock \in Nat \ {0}
  /\ source \in [Sources -> SourceTypes]
  /\ token \in [Sources -> Tokens]
  /\ run \in [Procs -> CommandTypes]
  /\ told \in [Sources -> SUBSET Nat] /\ asked \in [Sources -> Nat]
  /\ settled \subseteq Sources /\ gaps \subseteq Sources

\* What a source's log is: in the order of its clock, snapshots with an id each, commits
\* kept from the first or from before the checkpoint, removals only once there is a token.
LogOK(kind, src, now) ==
  /\ \A i \in DOMAIN src.log : src.log[i].time <= now /\ (src.log[i].gone => kind = "delta")
  /\ \A j \in DOMAIN src.log : \A i \in 1 .. j : src.log[i].time <= src.log[j].time
  /\ src.first \in 1 .. Len(src.log) + 1 /\ src.checkpoint <= Len(src.log)
  /\ kind = "delta" => src.first = 1 \/ src.first <= src.checkpoint
  /\ kind = "iceberg" =>
       /\ src.first = 1 \/ src.first <= Len(src.log)
       /\ \A i, j \in DOMAIN src.log : i # j => src.log[i].id # src.log[j].id

\* Snapshots in the order they were written.
InOrder(src) == \A j \in DOMAIN src.log : \A i \in 1 .. j - 1 : Earlier(src.log[i], src.log[j])

\* What a token of a source is, last being the instant it was last asked at.
TokenFits(kind, src, t, last) ==
  /\ kind = "untimed" => t = NoToken
  /\ t # NoToken =>
       /\ kind = "storage" => t \in Boundaries /\ t.time <= last
                              /\ t.seen \subseteq {src.log[i].etag : i \in DOMAIN src.log}
       /\ kind = "delta" => t \in 1 .. Len(src.log)
       /\ kind = "iceberg" => \E i \in DOMAIN src.log : src.log[i].id = t
       /\ kind \in {"bigquery", "watermark"} => t \in Nat /\ t <= last
       /\ kind = "altered" => t \in Nat /\ last > 0 /\ t <= Second(last)

Tells(a, w) == ~a.complete \/ Names(a.parts, w)

-----------------------------------------------------------------------------
LEMMA WriteTypes ==
  \A w \in Writes : w.time \in Nat \ {0} /\ w.id \in Nat /\ w.etag \in {0} \cup Etags /\ w.part \in Partitions
                 /\ w.gone \in BOOLEAN
  <1>1. MaxTime \in Nat
    BY DetectAssumption DEF DetectAssumption
  <1> QED BY <1>1 DEF Writes

LEMMA LastOfPart ==
  ASSUME NEW log \in WriteLogs, NEW n \in 0 .. Len(log), NEW i \in 1 .. n
  PROVE  \E j \in i .. n : log[j].part = log[i].part /\ \A k \in j + 1 .. n : log[k].part # log[j].part
  <1> DEFINE T == {j \in i .. n : log[j].part = log[i].part}
  <1>1. Len(log) \in Nat /\ n \in Nat /\ i \in Nat
    BY LenProperties DEF WriteLogs
  <1>2. T \in SUBSET Int /\ T # {} /\ IsFiniteSet(T)
    <2>1. i \in T
      BY <1>1
    <2>2. IsFiniteSet(i .. n)
      BY <1>1, FS_Interval
    <2>3. T \subseteq i .. n /\ i .. n \subseteq Int
      BY <1>1
    <2> HIDE DEF T
    <2> QED BY <2>1, <2>2, <2>3, FS_Subset
  <1>3. PICK j \in T : \A k \in T : k <= j
    <2> HIDE DEF T
    <2> QED BY <1>2, FiniteHasGreatest
  <1>4. \A k \in j + 1 .. n : log[k].part # log[j].part
    <2>1. SUFFICES ASSUME NEW k \in j + 1 .. n, log[k].part = log[j].part PROVE FALSE
      OBVIOUS
    <2>2. k \in T
      BY <1>1, <2>1
    <2> QED BY <1>1, <1>3, <2>2
  <1> QED BY <1>3, <1>4

LEMMA LatestAreWrites ==
  ASSUME NEW log \in WriteLogs, NEW n \in 0 .. Len(log)
  PROVE  /\ LatestUpTo(log, n) \subseteq {log[i] : i \in 1 .. n}
         /\ LatestUpTo(log, n) \subseteq Writes
  <1>1. Len(log) \in Nat /\ \A i \in 1 .. Len(log) : log[i] \in Writes
    BY LenProperties, ElementOfSeq DEF WriteLogs
  <1>2. \A i \in 1 .. n : log[i] \in Writes
    BY <1>1
  <1> QED BY <1>2 DEF LatestUpTo

\* Without removals every write is of a partition that has a latest write.
LEMMA LatestNamesAll ==
  ASSUME NEW log \in WriteLogs, NEW n \in 0 .. Len(log), NEW i \in 1 .. n,
         \A k \in 1 .. n : ~log[k].gone
  PROVE  log[i].part \in Parts(LatestUpTo(log, n))
  <1> DEFINE LastAt(j) == log[j].part = log[i].part /\ \A k \in j + 1 .. n : log[k].part # log[j].part
  <1>0. \E j \in i .. n : LastAt(j)
    BY ONLY LastOfPart, log \in WriteLogs, n \in 0 .. Len(log), i \in 1 .. n, SMTT(30)
  <1>1. PICK j \in i .. n : LastAt(j)
    BY <1>0
  <1>2. j \in 1 .. n
    BY LenProperties DEF WriteLogs
  <1>3. log[j] \in LatestUpTo(log, n)
    BY <1>1, <1>2 DEF LatestUpTo
  <1> QED BY <1>1, <1>3 DEF Parts

\* After a write that is no removal: it is the latest of its partition, and the others
\* are as they were.
LEMMA LatestAfterWrite ==
  ASSUME NEW log \in WriteLogs, NEW w \in Writes, ~w.gone
  PROVE  LET log2 == Append(log, w) IN
         /\ w \in LatestUpTo(log2, Len(log2))
         /\ \A r \in LatestUpTo(log, Len(log)) : r.part = w.part \/ r \in LatestUpTo(log2, Len(log2))
  <1> DEFINE log2 == Append(log, w)
  <1>1. Len(log) \in Nat /\ Len(log2) = Len(log) + 1 /\ log2[Len(log) + 1] = w
        /\ \A i \in 1 .. Len(log) : log2[i] = log[i]
    BY AppendProperties, LenProperties DEF WriteLogs
  <1>2. w \in LatestUpTo(log2, Len(log2))
    <2> HIDE DEF log2
    <2> QED BY <1>1 DEF LatestUpTo
  <1>3. ASSUME NEW r \in LatestUpTo(log, Len(log)), r.part # w.part
        PROVE  r \in LatestUpTo(log2, Len(log2))
    <2>1. PICK j \in 1 .. Len(log) : r = log[j] /\ ~log[j].gone /\ \A k \in j + 1 .. Len(log) : log[k].part # log[j].part
      BY DEF LatestUpTo
    <2>2. \A k \in j + 1 .. Len(log2) : log2[k].part # log2[j].part
      <3> HIDE DEF log2
      <3> QED BY <1>1, <1>3, <2>1
    <2> HIDE DEF log2
    <2> QED BY <1>1, <2>1, <2>2 DEF LatestUpTo
  <1> QED BY <1>2, <1>3

\* Asked without a token a source names every write, but for what a baseline or the
\* expired snapshots hide.
LEMMA NoTokenTellsAll ==
  ASSUME NEW kind \in SourceKinds, NEW src \in SourceTypes, NEW now \in Nat, LogOK(kind, src, now),
         NEW i \in DOMAIN src.log, kind = "iceberg" => src.first = 1,
         kind = "delta" /\ src.checkpoint > 0 /\ src.readable => \A j \in 1 .. src.checkpoint : ~src.log[j].gone
  PROVE  Tells(Changed(kind, src, NoToken), src.log[i])
  <1>1. src.log \in WriteLogs /\ Len(src.log) \in Nat /\ DOMAIN src.log = 1 .. Len(src.log) /\ src.first \in Nat
        /\ src.checkpoint \in Nat /\ i \in 1 .. Len(src.log)
    BY LenProperties DEF SourceTypes, WriteLogs
  <1>2. src.log # << >>
    BY <1>1
  <1> DEFINE log == src.log  part == src.log[i].part
  <1>3. kind # "delta" => part \in Parts(Latest(src))
    <2>1. ASSUME kind # "delta" PROVE \A k \in 1 .. Len(log) : ~log[k].gone
      BY <1>1, <2>1 DEF LogOK
    <2>2. Len(log) \in 0 .. Len(log)
      BY <1>1
    <2> QED BY <1>1, <2>1, <2>2, LatestNamesAll DEF Latest
  <1>4. CASE kind = "storage"
    <2>1. ObjectsAfter(Latest(src), NoToken) = Latest(src)
      BY DEF ObjectsAfter
    <2> QED BY <1>3, <1>4, <2>1 DEF Changed, StorageChanged, Answer, Tells, Names
  <1>5. CASE kind = "untimed"
    BY <1>3, <1>5 DEF Changed, UntimedChanged, Answer, Tells, Names
  <1>6. CASE kind = "delta"
    <2> DEFINE a == DeltaChanged(src, NoToken)
    <2>1. src.first = 1 \/ src.first <= src.checkpoint
      BY <1>6 DEF LogOK
    <2>2. CASE ~(src.checkpoint > 0)
      <3>1. src.first = 1 /\ ~Baseline(src, NoToken)
        BY <1>1, <2>1, <2>2, <1>6 DEF LogOK, Baseline
      <3>2. src.log[i] \in CommitsAfter(src, DeltaStart(src, NoToken))
        BY <1>1, <3>1 DEF CommitsAfter, DeltaStart
      <3>3. part \in a.parts
        BY <1>2, <3>1, <3>2 DEF DeltaChanged, Answer, Parts
      <3> QED BY <1>6, <3>3 DEF Changed, Tells, Names
    <2>3. CASE src.checkpoint > 0 /\ ~src.readable
      <3>1. a.complete = FALSE
        BY <1>2, <2>3 DEF DeltaChanged, Answer, Baseline
      <3> QED BY <1>6, <3>1 DEF Changed, Tells
    <2>4. CASE src.checkpoint > 0 /\ src.readable
      <3>1. Baseline(src, NoToken) /\ DeltaStart(src, NoToken) = src.checkpoint
        BY <2>4 DEF Baseline, DeltaStart
      <3>2. a.parts = Parts(LatestUpTo(src.log, src.checkpoint)) \cup Parts(CommitsAfter(src, src.checkpoint))
        BY <1>2, <2>4, <3>1 DEF DeltaChanged, Answer
      <3>3. src.checkpoint \in 0 .. Len(log)
        BY <1>1 DEF LogOK
      <3>4. CASE i <= src.checkpoint
        <4> DEFINE upto == src.checkpoint
        <4>0. upto \in 0 .. Len(log) /\ i \in 1 .. upto /\ \A k \in 1 .. upto : ~log[k].gone
          BY <1>1, <1>6, <2>4, <3>3, <3>4
        <4>1. part \in Parts(LatestUpTo(log, upto))
          <5> HIDE DEF upto
          <5> QED BY <1>1, <4>0, LatestNamesAll, SMTT(30)
        <4> QED BY <1>6, <3>2, <4>1 DEF Changed, Tells, Names
      <3>5. CASE i > src.checkpoint
        <4>1. i >= src.first
          BY <1>1, <2>1, <3>5
        <4>2. log[i] \in CommitsAfter(src, src.checkpoint)
          BY <1>1, <3>5, <4>1 DEF CommitsAfter
        <4>3. part \in a.parts
          BY <3>2, <4>2 DEF Parts
        <4> QED BY <1>6, <4>3 DEF Changed, Tells, Names
      <3> QED BY <1>1, <3>4, <3>5
    <2> QED BY <2>2, <2>3, <2>4
  <1>7. CASE kind = "iceberg"
    <2> DEFINE snapshots == {src.log[k] : k \in src.first .. Len(src.log)}
               later     == {s \in snapshots : \A k \in {l \in snapshots : l.id = NoToken} : Earlier(k, s)}
    <2>1. \A k \in snapshots : k \in Writes /\ k.id # NoToken
      <3>1. \A k \in 1 .. Len(log) : log[k] \in Writes
        BY <1>1, ElementOfSeq DEF WriteLogs
      <3>2. \A k \in snapshots : k \in Writes
        BY <1>1, <1>7, <3>1
      <3>3. \A k \in Writes : k.id \in Nat
        BY DetectAssumption DEF DetectAssumption, Writes
      <3> QED BY <3>2, <3>3, DetectAssumption DEF DetectAssumption
    <2>2. {l \in snapshots : l.id = NoToken} = {}
      BY <2>1
    <2>3. log[i] \in later
      BY <1>1, <1>7, <2>2
    <2>4. later = {s \in snapshots : \A k \in {l \in snapshots : l.id = NoToken} : Earlier(k, s)}
      OBVIOUS
    <2>5. part \in Parts(later) /\ snapshots # {}
      BY <2>3 DEF Parts
    <2>6. Changed(kind, src, NoToken).parts = Parts(later)
      BY <1>7, <2>5 DEF Changed, IcebergChanged, Answer
    <2> QED BY <2>5, <2>6 DEF Tells, Names
  <1>8. CASE kind = "bigquery"
    <2>1. {r \in Latest(src) : NoToken = NoToken \/ r.time > NoToken} = Latest(src)
      OBVIOUS
    <2> QED BY <1>3, <1>8, <2>1 DEF Changed, PartitionTimesChanged, Answer, Tells, Names
  <1>9. CASE kind = "watermark"
    <2>1. {r \in Latest(src) : NoToken = NoToken \/ r.time > NoToken} = Latest(src)
      OBVIOUS
    <2> QED BY <1>3, <1>9, <2>1 DEF Changed, WatermarkChanged, Answer, Tells, Names
  <1>10. CASE kind = "altered"
    BY <1>2, <1>10 DEF Changed, AlteredChanged, Answer, Tells, Names
  <1> QED BY <1>4, <1>5, <1>6, <1>7, <1>8, <1>9, <1>10 DEF SourceKinds

Second2 == \A a, b \in Nat : Second(a) \in Nat /\ Second(a) <= a /\ (a <= b => Second(a) <= Second(b))

LEMMA SecondsAreOrdered == Second2
  BY DEF Second, Second2

\* A write outside the gaps: what a token told it still tells, and the new write too.
MissesGap(kind, src, w, last) ==
  /\ kind = "storage" => \A i \in DOMAIN src.log : src.log[i].etag # w.etag
  /\ kind = "iceberg" => \A i \in DOMAIN src.log : ~(src.log[i].time = w.time /\ src.log[i].id > w.id)
  /\ kind \in {"bigquery", "watermark"} => last # w.time
  /\ kind = "altered" => ~(last > 0 /\ Second(last) = Second(w.time))

\* src2 is what a write makes of src.
WriteMakes(kind, src, w, src2) ==
  /\ src2 = [src EXCEPT !.log = Append(src.log, w)]
  /\ w.gone => kind = "delta"
  /\ kind = "iceberg" => \A i \in DOMAIN src.log : src.log[i].id # w.id

LEMMA WriteSeen ==
  ASSUME NEW kind \in SourceKinds, NEW src \in SourceTypes, NEW w \in Writes, NEW src2,
         WriteMakes(kind, src, w, src2)
  PROVE  /\ src2 \in SourceTypes /\ src2.first = src.first /\ src2.checkpoint = src.checkpoint
         /\ src2.readable = src.readable /\ src2.log = Append(src.log, w)
         /\ Len(src.log) \in Nat /\ DOMAIN src.log = 1 .. Len(src.log) /\ src2.log # << >>
         /\ Len(src2.log) = Len(src.log) + 1 /\ src2.log[Len(src2.log)] = w
         /\ DOMAIN src2.log = 1 .. Len(src.log) + 1
         /\ \A i \in 1 .. Len(src.log) : src2.log[i] = src.log[i] /\ src.log[i] \in Writes
  <1>1. src.log \in Seq(Writes)
    BY DEF SourceTypes, WriteLogs
  <1>2. src2 = [log |-> Append(src.log, w), first |-> src.first, checkpoint |-> src.checkpoint, readable |-> src.readable]
    BY DEF SourceTypes, WriteMakes
  <1>3. Len(src.log) \in Nat /\ DOMAIN src.log = 1 .. Len(src.log)
        /\ \A i \in 1 .. Len(src.log) : src.log[i] \in Writes
    BY <1>1, LenProperties, ElementOfSeq
  <1>4. Append(src.log, w) \in Seq(Writes) /\ Append(src.log, w) # << >> /\ Len(Append(src.log, w)) = Len(src.log) + 1
        /\ (\A i \in 1 .. Len(src.log) : Append(src.log, w)[i] = src.log[i])
        /\ Append(src.log, w)[Len(src.log) + 1] = w
    BY <1>1, AppendProperties
  <1>5. DOMAIN Append(src.log, w) = 1 .. Len(src.log) + 1
    BY <1>4, LenProperties
  <1> HIDE DEF WriteMakes
  <1> QED BY <1>2, <1>3, <1>4, <1>5 DEF SourceTypes, WriteLogs

\* Where what is told are the latest writes that pass a test the new one passes.
LEMMA FilteredWritesKept ==
  ASSUME NEW kind \in SourceKinds \ {"delta"}, NEW src \in SourceTypes, NEW w \in Writes, NEW src2,
         WriteMakes(kind, src, w, src2), NEW told1, NEW told2,
         \A r \in Latest(src) : r \in told1 => r \in told2 \/ r \notin Latest(src2),
         told1 \subseteq Latest(src), w \in told2
  PROVE  Parts(told1) \subseteq Parts(told2) /\ w.part \in Parts(told2)
  <1>1. ~w.gone
    BY DEF WriteMakes
  <1>2. \A r \in Latest(src) : r.part = w.part \/ r \in Latest(src2)
    <2>1. src.log \in WriteLogs /\ src2.log = Append(src.log, w)
      BY WriteSeen DEF SourceTypes
    <2> QED BY <1>1, <2>1, LatestAfterWrite DEF Latest
  <1>3. w.part \in Parts(told2)
    BY DEF Parts
  <1>4. ASSUME NEW r \in told1 PROVE r.part \in Parts(told2)
    <2>1. r \in Latest(src)
      OBVIOUS
    <2> QED BY <1>2, <1>3, <2>1 DEF Parts
  <1> QED BY <1>3, <1>4 DEF Parts

LEMMA WriteKeepsStorage ==
  ASSUME NEW src \in SourceTypes, NEW w \in Writes, NEW src2, NEW t \in Boundaries, NEW last \in Nat,
         WriteMakes("storage", src, w, src2), MissesGap("storage", src, w, last),
         TokenFits("storage", src, t, last), last <= w.time
  PROVE  LET a == Changed("storage", src, t)  b == Changed("storage", src2, t)
         IN  a.parts \subseteq b.parts /\ w.part \in b.parts
  <1>1. t # NoToken /\ t.time \in Nat /\ t.time <= w.time /\ w.etag \notin t.seen
    <2>1. t # NoToken /\ t.time \in Nat /\ w.time \in Nat
      BY DetectAssumption DEF DetectAssumption, Boundaries, Writes
    <2>2. t.time <= last /\ w.etag \notin t.seen
      BY <2>1 DEF TokenFits, MissesGap
    <2> QED BY <2>1, <2>2
  <1>2. w.time >= t.time
    BY <1>1 DEF Writes
  <1>3. ~w.gone /\ w \in Latest(src2)
    <2>1. ~w.gone
      BY DEF WriteMakes
    <2>2. src.log \in WriteLogs /\ src2.log = Append(src.log, w)
      BY WriteSeen DEF SourceTypes, SourceKinds
    <2> QED BY <2>1, <2>2, LatestAfterWrite DEF Latest
  <1>4. w \in ObjectsAfter(Latest(src2), t)
    BY <1>1, <1>2, <1>3 DEF ObjectsAfter
  <1>5. \A r \in Latest(src) : r \in ObjectsAfter(Latest(src), t) => r \in ObjectsAfter(Latest(src2), t) \/ r \notin Latest(src2)
    BY DEF ObjectsAfter
  <1>6. ObjectsAfter(Latest(src), t) \subseteq Latest(src)
    BY DEF ObjectsAfter
  <1>7. Changed("storage", src, t).parts = Parts(ObjectsAfter(Latest(src), t))
        /\ Changed("storage", src2, t).parts = Parts(ObjectsAfter(Latest(src2), t))
    BY DEF Changed, StorageChanged, Answer
  <1>8. "storage" \in SourceKinds \ {"delta"}
    BY DEF SourceKinds
  <1> QED BY <1>4, <1>5, <1>6, <1>7, <1>8, FilteredWritesKept

LEMMA WriteKeepsTimes ==
  ASSUME NEW kind \in {"bigquery", "watermark"}, NEW src \in SourceTypes, NEW w \in Writes, NEW src2,
         NEW t \in Nat, NEW last \in Nat, WriteMakes(kind, src, w, src2), MissesGap(kind, src, w, last),
         TokenFits(kind, src, t, last), last <= w.time
  PROVE  LET a == Changed(kind, src, t)  b == Changed(kind, src2, t)
         IN  a.parts \subseteq b.parts /\ w.part \in b.parts
  <1> DEFINE Past(s) == {r \in Latest(s) : t = NoToken \/ r.time > t}
  <1>1. t # NoToken /\ t <= last /\ last # w.time /\ w.time \in Nat
    <2>1. t # NoToken /\ w.time \in Nat
      BY DetectAssumption DEF DetectAssumption, Writes
    <2> QED BY <2>1 DEF TokenFits, MissesGap
  <1>2. w.time > t
    BY <1>1
  <1>3. w \in Latest(src2)
    <2>1. ~w.gone
      BY DEF WriteMakes
    <2>2. src.log \in WriteLogs /\ src2.log = Append(src.log, w)
      BY WriteSeen DEF SourceTypes, SourceKinds
    <2> QED BY <2>1, <2>2, LatestAfterWrite DEF Latest
  <1>4. w \in Past(src2) /\ Past(src) \subseteq Latest(src)
        /\ \A r \in Latest(src) : r \in Past(src) => r \in Past(src2) \/ r \notin Latest(src2)
    BY <1>2, <1>3
  <1>5. Changed(kind, src, t).parts = Parts(Past(src)) /\ Changed(kind, src2, t).parts = Parts(Past(src2))
    BY DEF Changed, PartitionTimesChanged, WatermarkChanged, Answer
  <1>6. kind \in SourceKinds \ {"delta"}
    BY DEF SourceKinds
  <1> HIDE DEF Past
  <1> QED BY <1>4, <1>5, <1>6, FilteredWritesKept

LEMMA WriteKeepsDelta ==
  ASSUME NEW src \in SourceTypes, NEW w \in Writes, NEW src2, NEW t \in Nat, NEW last,
         WriteMakes("delta", src, w, src2), TokenFits("delta", src, t, last),
         src.first <= Len(src.log) + 1
  PROVE  LET a == Changed("delta", src, t)  b == Changed("delta", src2, t)
         IN  a.parts \subseteq b.parts /\ w.part \in b.parts
  <1>1. t # NoToken
    BY DetectAssumption DEF DetectAssumption
  <1>2. t \in 1 .. Len(src.log)
    BY <1>1 DEF TokenFits
  <1>3. src2 \in SourceTypes /\ src2.first = src.first /\ Len(src.log) \in Nat /\ src2.log # << >>
        /\ Len(src2.log) = Len(src.log) + 1 /\ src2.log[Len(src2.log)] = w
        /\ (\A i \in 1 .. Len(src.log) : src2.log[i] = src.log[i])
    BY WriteSeen DEF SourceKinds
  <1>4. src.first \in Nat /\ src.log # << >>
    <2>1. src.log \in Seq(Writes) /\ src.first \in Nat
      BY DEF SourceTypes, WriteLogs
    <2> QED BY <1>2, <2>1
  <1>5. Changed("delta", src, t).parts = Parts(CommitsAfter(src, t))
        /\ Changed("delta", src2, t).parts = Parts(CommitsAfter(src2, t))
    BY <1>1, <1>3, <1>4 DEF Changed, DeltaChanged, Answer, Baseline, DeltaStart
  <1>6. CommitsAfter(src, t) \subseteq CommitsAfter(src2, t)
    <2>1. \A u \in src.first .. Len(src.log) : u > t => u \in src2.first .. Len(src2.log) /\ src2.log[u] = src.log[u]
      BY <1>2, <1>3, <1>4
    <2> QED BY <2>1 DEF CommitsAfter
  <1>7. w \in CommitsAfter(src2, t)
    <2>1. Len(src2.log) \in src2.first .. Len(src2.log) /\ Len(src2.log) > t
      BY <1>2, <1>3, <1>4
    <2> QED BY <1>3, <2>1 DEF CommitsAfter
  <1> QED BY <1>5, <1>6, <1>7 DEF Parts

LEMMA WriteKeepsAltered ==
  ASSUME NEW src \in SourceTypes, NEW w \in Writes, NEW src2, NEW t \in Nat, NEW last \in Nat,
         WriteMakes("altered", src, w, src2), MissesGap("altered", src, w, last),
         TokenFits("altered", src, t, last), last <= w.time
  PROVE  Whole \in Changed("altered", src2, t).parts
  <1>1. t # NoToken /\ w.time \in Nat
    BY DetectAssumption DEF DetectAssumption, Writes
  <1>2. t <= Second(last) /\ Second(last) # Second(w.time)
    BY <1>1 DEF TokenFits, MissesGap
  <1>3. ~(Second(w.time) <= t)
    <2>1. Second(last) \in Nat /\ Second(w.time) \in Nat /\ Second(last) <= Second(w.time)
      BY <1>1, SecondsAreOrdered DEF Second2
    <2> QED BY <1>2, <2>1
  <1>4. src2.log # << >> /\ Last(src2.log) = w
    BY WriteSeen DEF SourceKinds, Last
  <1> QED BY <1>1, <1>3, <1>4 DEF Changed, AlteredChanged, Answer

LEMMA WriteKeepsIceberg ==
  ASSUME NEW src \in SourceTypes, NEW w \in Writes, NEW src2, NEW t \in Nat, NEW last,
         WriteMakes("iceberg", src, w, src2), MissesGap("iceberg", src, w, last),
         TokenFits("iceberg", src, t, last), LogOK("iceberg", src, w.time)
  PROVE  LET a == Changed("iceberg", src, t)  b == Changed("iceberg", src2, t)
         IN  ~b.complete \/ (a.complete /\ a.parts \subseteq b.parts /\ w.part \in b.parts)
  <1> DEFINE Kept(s) == {s.log[k] : k \in s.first .. Len(s.log)}
             Known(s) == {k \in Kept(s) : k.id = t}
             Later(s) == {r \in Kept(s) : \A k \in Known(s) : Earlier(k, r)}
  <1>1. t # NoToken
    BY DetectAssumption DEF DetectAssumption
  <1>2. src2 \in SourceTypes /\ src2.first = src.first /\ Len(src.log) \in Nat /\ src2.log # << >>
        /\ Len(src2.log) = Len(src.log) + 1 /\ src2.log[Len(src2.log)] = w
        /\ DOMAIN src.log = 1 .. Len(src.log)
        /\ (\A i \in 1 .. Len(src.log) : src2.log[i] = src.log[i] /\ src.log[i] \in Writes)
    BY WriteSeen DEF SourceKinds
  <1>3. src.first \in 1 .. Len(src.log) + 1 /\ src.first \in Nat
    BY <1>2 DEF LogOK, SourceTypes
  <1>4. Kept(src2) = Kept(src) \cup {w} /\ \A r \in Kept(src) : \E i \in 1 .. Len(src.log) : r = src.log[i]
    <2>1. src2.first .. Len(src2.log) = (src.first .. Len(src.log)) \cup {Len(src2.log)}
      BY <1>2, <1>3
    <2>2. \A k \in src.first .. Len(src.log) : k \in 1 .. Len(src.log)
      BY <1>2, <1>3
    <2> QED BY <1>2, <2>1, <2>2
  <1>5. w.id # t
    <2>1. PICK i \in DOMAIN src.log : src.log[i].id = t
      BY <1>1 DEF TokenFits
    <2> QED BY <2>1 DEF WriteMakes
  <1>6. Known(src2) = Known(src)
    BY <1>4, <1>5
  <1>7. \A k \in Kept(src) : Earlier(k, w)
    <2>1. SUFFICES ASSUME NEW i \in 1 .. Len(src.log) PROVE Earlier(src.log[i], w)
      BY <1>4
    <2>2. src.log[i].time <= w.time
      BY <1>2 DEF LogOK
    <2>3. ~(src.log[i].time = w.time /\ src.log[i].id > w.id) /\ src.log[i].id # w.id
      BY <1>2 DEF MissesGap, WriteMakes
    <2>4. src.log[i].time \in Int /\ w.time \in Int /\ src.log[i].id \in Int /\ w.id \in Int
      BY <1>2, DetectAssumption DEF DetectAssumption, Writes
    <2> QED BY <2>2, <2>3, <2>4 DEF Earlier
  <1>8. Later(src) \subseteq Later(src2) /\ w \in Later(src2)
    <2>1. \A k \in Known(src2) : k \in Kept(src)
      BY <1>6
    <2> HIDE DEF Kept
    <2> QED BY <1>4, <1>6, <1>7, <2>1
  <1>9. Kept(src2) # {} /\ (Known(src) # {} => Kept(src) # {})
    BY <1>4
  <1>10. CASE Known(src) = {}
    <2>1. ~Changed("iceberg", src2, t).complete
      <3> HIDE DEF Kept
      <3> QED BY <1>1, <1>6, <1>9, <1>10 DEF Changed, IcebergChanged, Answer, Kept
    <2> QED BY <2>1
  <1>11. CASE Known(src) # {}
    <2>1. Kept(src) # {} /\ Known(src2) # {}
      <3> HIDE DEF Kept
      <3> QED BY <1>6, <1>11
    <2>2. Changed("iceberg", src, t).parts = Parts(Later(src))
      <3>1. "iceberg" # "storage" /\ Kept(src) = {src.log[i] : i \in src.first .. Len(src.log)}
        OBVIOUS
      <3> HIDE DEF Kept
      <3> QED BY <1>1, <1>11, <2>1, <3>1 DEF Changed, IcebergChanged, Answer
    <2>3. Changed("iceberg", src2, t).parts = Parts(Later(src2))
      <3>1. Kept(src2) = {src2.log[i] : i \in src2.first .. Len(src2.log)}
        OBVIOUS
      <3> HIDE DEF Kept
      <3> QED BY <1>1, <1>6, <1>9, <1>11, <2>1, <3>1 DEF Changed, IcebergChanged, Answer
    <2>4. Changed("iceberg", src, t).complete = TRUE
      <3>1. Kept(src) = {src.log[i] : i \in src.first .. Len(src.log)}
        OBVIOUS
      <3> HIDE DEF Kept
      <3> QED BY <1>1, <1>11, <2>1, <3>1 DEF Changed, IcebergChanged, Answer
    <2> HIDE DEF Later
    <2> QED BY <1>8, <2>2, <2>3, <2>4 DEF Parts
  <1> QED BY <1>10, <1>11

\* The types of the tokens of each kind.
LEMMA TokenTypes ==
  ASSUME NEW kind \in SourceKinds, NEW src \in SourceTypes, NEW t, t # NoToken, NEW last,
         TokenFits(kind, src, t, last)
  PROVE  /\ kind # "untimed" /\ (kind = "storage" => t \in Boundaries) /\ (kind # "storage" => t \in Nat)
         /\ t \in Tokens
  <1>1. CASE kind = "iceberg"
    <2>1. PICK i \in DOMAIN src.log : src.log[i].id = t
      BY <1>1 DEF TokenFits
    <2>2. src.log \in Seq(Writes)
      BY DEF SourceTypes, WriteLogs
    <2>3. src.log[i] \in Writes
      BY <2>2
    <2>4. t \in Nat
      BY <2>1, <2>3, DetectAssumption DEF DetectAssumption, Writes
    <2> QED BY <1>1, <2>4 DEF Tokens
  <1>2. CASE kind = "delta"
    <2>1. t \in 1 .. Len(src.log)
      BY <1>2 DEF TokenFits
    <2>2. Len(src.log) \in Nat
      BY LenProperties DEF SourceTypes, WriteLogs
    <2> QED BY <1>2, <2>1, <2>2 DEF Tokens
  <1>3. CASE kind \notin {"iceberg", "delta"}
    BY <1>3 DEF TokenFits, SourceKinds, Tokens
  <1> QED BY <1>1, <1>2, <1>3

LEMMA WriteTold ==
  ASSUME NEW kind \in SourceKinds, NEW src \in SourceTypes, NEW w \in Writes, NEW src2,
         NEW t, t # NoToken, NEW last \in Nat, last <= w.time,
         WriteMakes(kind, src, w, src2), MissesGap(kind, src, w, last),
         TokenFits(kind, src, t, last), LogOK(kind, src, w.time)
  PROVE  /\ \A v : Tells(Changed(kind, src, t), v) => Tells(Changed(kind, src2, t), v)
         /\ Tells(Changed(kind, src2, t), w)
  <1> DEFINE a == Changed(kind, src, t)
             b == Changed(kind, src2, t)
  <1>1. SUFFICES \/ ~b.complete
                 \/ Whole \in b.parts
                 \/ a.complete /\ a.parts \subseteq b.parts /\ w.part \in b.parts
    <2> HIDE DEF a, b
    <2>1. ASSUME ~b.complete \/ Whole \in b.parts \/ (a.complete /\ a.parts \subseteq b.parts /\ w.part \in b.parts)
          PROVE (\A v : Tells(a, v) => Tells(b, v)) /\ Tells(b, w)
      BY <2>1 DEF Tells, Names
    <2> QED BY <2>1 DEF a, b
  <1>2. CASE kind = "storage"
    <2>1. t \in Boundaries
      BY <1>2, TokenTypes
    <2>2. a.complete = TRUE
      BY <1>2 DEF Changed, StorageChanged, Answer
    <2> QED BY <1>2, <2>1, <2>2, WriteKeepsStorage
  <1>3. CASE kind \in {"bigquery", "watermark"}
    <2>1. t \in Nat
      BY <1>3, TokenTypes
    <2>2. a.complete = TRUE
      BY <1>3 DEF Changed, PartitionTimesChanged, WatermarkChanged, Answer
    <2> QED BY <1>3, <2>1, <2>2, WriteKeepsTimes
  <1>4. CASE kind = "delta"
    <2>1. t \in Nat /\ src.first <= Len(src.log) + 1
      <3>1. src.first \in 1 .. Len(src.log) + 1 /\ Len(src.log) \in Nat
        BY LenProperties DEF LogOK, SourceTypes, WriteLogs
      <3> QED BY <1>4, <3>1, TokenTypes
    <2>2. a.complete = TRUE
      BY <1>4 DEF Changed, DeltaChanged, Answer, Baseline
    <2> QED BY <1>4, <2>1, <2>2, WriteKeepsDelta
  <1>5. CASE kind = "altered"
    <2>1. t \in Nat
      BY <1>5, TokenTypes
    <2> QED BY <1>5, <2>1, WriteKeepsAltered
  <1>6. CASE kind = "iceberg"
    <2>1. t \in Nat
      BY <1>6, TokenTypes
    <2> QED BY <1>6, <2>1, WriteKeepsIceberg
  <1> QED BY <1>2, <1>3, <1>4, <1>5, <1>6, TokenTypes DEF SourceKinds

\* What a write leaves of the log and of the tokens.
LEMMA WriteFits ==
  ASSUME NEW kind \in SourceKinds, NEW src \in SourceTypes, NEW w \in Writes, NEW src2,
         WriteMakes(kind, src, w, src2), LogOK(kind, src, w.time)
  PROVE  /\ LogOK(kind, src2, w.time)
         /\ \A t, last : TokenFits(kind, src, t, last) => TokenFits(kind, src2, t, last)
         /\ kind = "iceberg" /\ MissesGap(kind, src, w, 0) /\ InOrder(src) => InOrder(src2)
  <1>1. src2 \in SourceTypes /\ src2.first = src.first /\ Len(src.log) \in Nat /\ src2.checkpoint = src.checkpoint
        /\ Len(src2.log) = Len(src.log) + 1 /\ src2.log[Len(src.log) + 1] = w
        /\ DOMAIN src.log = 1 .. Len(src.log) /\ DOMAIN src2.log = 1 .. Len(src.log) + 1
        /\ (\A i \in 1 .. Len(src.log) : src2.log[i] = src.log[i] /\ src.log[i] \in Writes)
        /\ src.first \in Nat /\ src.checkpoint \in Nat
    BY WriteSeen DEF SourceTypes
  <1>2. \A i \in 1 .. Len(src.log) : src.log[i].time \in Nat /\ src.log[i].id \in Nat /\ src.log[i].time <= w.time
    BY <1>1, WriteTypes DEF LogOK
  <1>3. w.time \in Nat /\ w.id \in Nat
    BY WriteTypes
  <1>4. DOMAIN src2.log = DOMAIN src.log \cup {Len(src.log) + 1} /\ Len(src.log) + 1 \notin DOMAIN src.log
    BY <1>1
  <1>5. \A i \in DOMAIN src2.log : src2.log[i].time <= w.time /\ (src2.log[i].gone => kind = "delta")
    BY <1>1, <1>3, <1>4 DEF LogOK, WriteMakes
  <1>6. \A j \in DOMAIN src2.log : \A i \in 1 .. j : src2.log[i].time <= src2.log[j].time
    <2>1. SUFFICES ASSUME NEW j \in 1 .. Len(src.log) + 1, NEW i \in 1 .. j
                   PROVE src2.log[i].time <= src2.log[j].time
      BY <1>1
    <2>2. CASE j = Len(src.log) + 1
      BY <1>1, <1>5, <2>2
    <2>3. CASE j # Len(src.log) + 1
      <3>1. j \in 1 .. Len(src.log) /\ i \in 1 .. Len(src.log)
        BY <1>1, <2>3
      <3>2. src.log[i].time <= src.log[j].time
        BY <1>1, <3>1 DEF LogOK
      <3> QED BY <1>1, <3>1, <3>2
    <2> QED BY <2>2, <2>3
  <1>7. src2.first \in 1 .. Len(src2.log) + 1 /\ src2.checkpoint <= Len(src2.log)
        /\ (kind = "delta" => src2.first = 1 \/ src2.first <= src2.checkpoint)
        /\ (kind = "iceberg" => src2.first = 1 \/ src2.first <= Len(src2.log))
    BY <1>1 DEF LogOK
  <1>8. ASSUME kind = "iceberg" PROVE \A i, j \in DOMAIN src2.log : i # j => src2.log[i].id # src2.log[j].id
    <2>1. \A i, j \in DOMAIN src.log : i # j => src2.log[i].id # src2.log[j].id
      BY <1>1, <1>8 DEF LogOK
    <2>2. \A i \in DOMAIN src.log : src2.log[i].id # w.id
      BY <1>1, <1>8 DEF WriteMakes
    <2> QED BY <1>1, <1>4, <2>1, <2>2
  <1>9. ASSUME NEW t, NEW last, TokenFits(kind, src, t, last) PROVE TokenFits(kind, src2, t, last)
    <2>1. {src.log[i].etag : i \in DOMAIN src.log} \subseteq {src2.log[i].etag : i \in DOMAIN src2.log}
      BY <1>1, <1>4
    <2>2. \A i \in DOMAIN src.log : i \in DOMAIN src2.log /\ src2.log[i].id = src.log[i].id
      BY <1>1, <1>4
    <2>3. \A n \in 1 .. Len(src.log) : n \in 1 .. Len(src2.log)
      BY <1>1
    <2> QED BY <1>9, <2>1, <2>2, <2>3 DEF TokenFits
  <1>10. ASSUME kind = "iceberg", MissesGap(kind, src, w, 0), InOrder(src) PROVE InOrder(src2)
    <2>1. SUFFICES ASSUME NEW j \in 1 .. Len(src.log) + 1, NEW i \in 1 .. j - 1
                   PROVE Earlier(src2.log[i], src2.log[j])
      BY <1>1 DEF InOrder
    <2>2. CASE j = Len(src.log) + 1
      <3>1. i \in 1 .. Len(src.log) /\ src2.log[i] = src.log[i] /\ src2.log[j] = w
        BY <1>1, <2>2
      <3>2. src.log[i].id # w.id /\ ~(src.log[i].time = w.time /\ src.log[i].id > w.id)
        BY <1>1, <1>10, <3>1 DEF MissesGap, WriteMakes
      <3> QED BY <1>2, <1>3, <3>1, <3>2 DEF Earlier
    <2>3. CASE j # Len(src.log) + 1
      <3>1. j \in 1 .. Len(src.log) /\ i \in 1 .. Len(src.log)
        BY <1>1, <2>3
      <3>2. Earlier(src.log[i], src.log[j])
        BY <1>1, <1>10, <3>1 DEF InOrder
      <3> QED BY <1>1, <3>1, <3>2
    <2> QED BY <2>2, <2>3
  <1> QED BY <1>5, <1>6, <1>7, <1>8, <1>9, <1>10 DEF LogOK

-----------------------------------------------------------------------------
\* The snapshots there are, the token's, and the ones after it.
Kept(src)         == {src.log[i] : i \in src.first .. Len(src.log)}
KnownBy(src, t)   == {k \in Kept(src) : k.id = t}
LaterThan(src, t) == {s \in Kept(src) : \A k \in KnownBy(src, t) : Earlier(k, s)}

LEMMA IcebergAnswers ==
  ASSUME NEW src, NEW t, Kept(src) # {}
  PROVE  /\ Changed("iceberg", src, t).complete = (t = NoToken \/ KnownBy(src, t) # {})
         /\ Changed("iceberg", src, t).parts =
              IF ~(t = NoToken \/ KnownBy(src, t) # {}) /\ Parts(LaterThan(src, t)) = {} THEN {Whole}
              ELSE Parts(LaterThan(src, t))
  BY DEF Changed, IcebergChanged, Answer, Kept, KnownBy, LaterThan

LEMMA DeltaAnswers ==
  ASSUME NEW src, NEW t, t # NoToken
  PROVE  Changed("delta", src, t) = IF src.log = << >> THEN Answer({}, t, TRUE)
                                    ELSE Answer(Parts(CommitsAfter(src, t)), Len(src.log), TRUE)
  <1>1. DeltaStart(src, t) = t /\ Baseline(src, t) = FALSE
    BY DEF Baseline, DeltaStart
  <1>2. Changed("delta", src, t) = DeltaChanged(src, t)
    BY DEF Changed
  <1>3. {} \cup Parts(CommitsAfter(src, t)) = Parts(CommitsAfter(src, t))
    OBVIOUS
  <1> QED BY <1>1, <1>2, <1>3 DEF DeltaChanged

\* What stays the same of a source, for a token, when its log is condensed.
AnswersAlike(kind, src, src2, t) ==
  /\ \A v : Tells(Changed(kind, src, t), v) => Tells(Changed(kind, src2, t), v)
  /\ Changed(kind, src, t).parts = {} => Changed(kind, src2, t).parts = {}

LEMMA CondensedFits ==
  ASSUME NEW kind \in SourceKinds, NEW src \in SourceTypes, NEW src2, src2.log = src.log
  PROVE  /\ \A t, last : TokenFits(kind, src, t, last) => TokenFits(kind, src2, t, last)
         /\ InOrder(src) => InOrder(src2)
  BY DEF TokenFits, InOrder

LEMMA CheckpointKeeps ==
  ASSUME NEW src \in SourceTypes, NEW readable \in BOOLEAN, NEW now, LogOK("delta", src, now),
         NEW src2, src2 = [src EXCEPT !.checkpoint = Len(src.log), !.readable = readable]
  PROVE  /\ src2 \in SourceTypes /\ src2.log = src.log /\ LogOK("delta", src2, now)
         /\ \A t : t # NoToken => AnswersAlike("delta", src, src2, t)
  <1>1. src2.log = src.log /\ src2.first = src.first /\ src2.checkpoint = Len(src.log) /\ src2 \in SourceTypes
        /\ Len(src.log) \in Nat /\ src.first \in Nat /\ src.checkpoint \in Nat
    <2>1. Len(src.log) \in Nat
      BY LenProperties DEF SourceTypes, WriteLogs
    <2> QED BY <2>1 DEF SourceTypes
  <1>2. LogOK("delta", src2, now)
    <2>1. src.first = 1 \/ src.first <= src.checkpoint
      BY DEF LogOK
    <2>2. src.checkpoint <= Len(src.log) /\ src.first \in 1 .. Len(src.log) + 1
      BY DEF LogOK
    <2>3. src2.first = 1 \/ src2.first <= src2.checkpoint
      BY <1>1, <2>1, <2>2
    <2> QED BY <1>1, <2>2, <2>3 DEF LogOK
  <1>3. ASSUME NEW t, t # NoToken PROVE Changed("delta", src2, t) = Changed("delta", src, t)
    <2>1. CommitsAfter(src2, t) = CommitsAfter(src, t)
      BY <1>1 DEF CommitsAfter
    <2>5. Changed("delta", src, t) = IF src.log = << >> THEN Answer({}, t, TRUE)
                                     ELSE Answer(Parts(CommitsAfter(src, t)), Len(src.log), TRUE)
      BY <1>3, DeltaAnswers
    <2>6. Changed("delta", src2, t) = IF src2.log = << >> THEN Answer({}, t, TRUE)
                                      ELSE Answer(Parts(CommitsAfter(src2, t)), Len(src2.log), TRUE)
      BY <1>3, DeltaAnswers
    <2> QED BY <1>1, <2>1, <2>5, <2>6
  <1> QED BY <1>1, <1>2, <1>3 DEF AnswersAlike

LEMMA CleanUpKeeps ==
  ASSUME NEW src \in SourceTypes, NEW now, LogOK("delta", src, now), src.first < src.checkpoint,
         NEW src2, src2 = [src EXCEPT !.first = src.first + 1]
  PROVE  /\ src2 \in SourceTypes /\ src2.log = src.log /\ LogOK("delta", src2, now)
         /\ \A t, last : t # NoToken /\ TokenFits("delta", src, t, last) /\ src.first <= t
                          => AnswersAlike("delta", src, src2, t)
  <1>1. src2.log = src.log /\ src2.first = src.first + 1 /\ src2.checkpoint = src.checkpoint /\ src2 \in SourceTypes
        /\ Len(src.log) \in Nat /\ src.first \in Nat /\ src.checkpoint \in Nat
    <2>1. Len(src.log) \in Nat
      BY LenProperties DEF SourceTypes, WriteLogs
    <2> QED BY <2>1 DEF SourceTypes
  <1>2. LogOK("delta", src2, now)
    <2>1. src.checkpoint <= Len(src.log) /\ src.first \in 1 .. Len(src.log) + 1
      BY DEF LogOK
    <2>2. src2.first <= src2.checkpoint /\ src2.first \in 1 .. Len(src.log) + 1
      BY <1>1, <2>1
    <2> QED BY <1>1, <2>1, <2>2 DEF LogOK
  <1>3. ASSUME NEW t, NEW last, t # NoToken, TokenFits("delta", src, t, last), src.first <= t
        PROVE  Changed("delta", src2, t) = Changed("delta", src, t)
    <2>1. t \in 1 .. Len(src.log)
      BY <1>3 DEF TokenFits
    <2>2. {u \in src2.first .. Len(src.log) : u > t} = {u \in src.first .. Len(src.log) : u > t}
      BY <1>1, <1>3, <2>1
    <2>3. CommitsAfter(src2, t) = CommitsAfter(src, t)
      BY <1>1, <2>2 DEF CommitsAfter
    <2>5. Changed("delta", src, t) = IF src.log = << >> THEN Answer({}, t, TRUE)
                                     ELSE Answer(Parts(CommitsAfter(src, t)), Len(src.log), TRUE)
      BY <1>3, DeltaAnswers
    <2>6. Changed("delta", src2, t) = IF src2.log = << >> THEN Answer({}, t, TRUE)
                                      ELSE Answer(Parts(CommitsAfter(src2, t)), Len(src2.log), TRUE)
      BY <1>3, DeltaAnswers
    <2> QED BY <1>1, <2>3, <2>5, <2>6
  <1> QED BY <1>1, <1>2, <1>3 DEF AnswersAlike

LEMMA ExpireKeeps ==
  ASSUME NEW src \in SourceTypes, NEW now, LogOK("iceberg", src, now), src.first < Len(src.log),
         NEW src2, src2 = [src EXCEPT !.first = src.first + 1]
  PROVE  /\ src2 \in SourceTypes /\ src2.log = src.log /\ LogOK("iceberg", src2, now)
         /\ \A t, last : t # NoToken /\ TokenFits("iceberg", src, t, last) /\ InOrder(src)
                          => AnswersAlike("iceberg", src, src2, t)
  <1>1. src2.log = src.log /\ src2.first = src.first + 1 /\ src2.checkpoint = src.checkpoint /\ src2 \in SourceTypes
        /\ Len(src.log) \in Nat /\ src.first \in Nat /\ src.checkpoint \in Nat /\ DOMAIN src.log = 1 .. Len(src.log)
        /\ \A i \in 1 .. Len(src.log) : src.log[i] \in Writes
    <2>1. src.log \in Seq(Writes)
      BY DEF SourceTypes, WriteLogs
    <2>2. Len(src.log) \in Nat /\ DOMAIN src.log = 1 .. Len(src.log) /\ \A i \in 1 .. Len(src.log) : src.log[i] \in Writes
      BY <2>1, LenProperties, ElementOfSeq
    <2> QED BY <2>2 DEF SourceTypes
  <1>2. src.checkpoint <= Len(src.log) /\ src.first \in 1 .. Len(src.log) + 1
    BY DEF LogOK
  <1>3. LogOK("iceberg", src2, now)
    <2>1. src2.first <= Len(src2.log) /\ src2.first \in 1 .. Len(src.log) + 1
      BY <1>1, <1>2
    <2>2. \A i, j \in DOMAIN src2.log : i # j => src2.log[i].id # src2.log[j].id
      BY <1>1 DEF LogOK
    <2>3. \A i \in DOMAIN src2.log : src2.log[i].time <= now /\ (src2.log[i].gone => "iceberg" = "delta")
      BY <1>1 DEF LogOK
    <2>4. \A j \in DOMAIN src2.log : \A i \in 1 .. j : src2.log[i].time <= src2.log[j].time
      BY <1>1 DEF LogOK
    <2> QED BY <1>1, <1>2, <2>1, <2>2, <2>3, <2>4 DEF LogOK
  <1>4. ASSUME NEW t, NEW last, t # NoToken, TokenFits("iceberg", src, t, last), InOrder(src)
        PROVE  AnswersAlike("iceberg", src, src2, t)
    <2> DEFINE Known(s) == KnownBy(s, t)
               Later(s) == LaterThan(s, t)
               oldest == src.log[src.first]
               newest == src.log[Len(src.log)]
    <2>1. Kept(src) = Kept(src2) \cup {oldest} /\ newest \in Kept(src2)
      <3>1. src.first .. Len(src.log) = (src2.first .. Len(src.log)) \cup {src.first} /\ Len(src.log) \in src2.first .. Len(src.log)
        BY <1>1, <1>2
      <3> QED BY <1>1, <3>1 DEF Kept
    <2>2. \A k \in Kept(src2) : Earlier(oldest, k) /\ k \in Writes
      <3>1. \A k \in src2.first .. Len(src.log) : k \in 1 .. Len(src.log) /\ src.first \in 1 .. k - 1
        BY <1>1, <1>2
      <3> QED BY <1>1, <1>4, <3>1 DEF InOrder, Kept
    <2>3. \A k \in Kept(src2) : k = newest \/ Earlier(k, newest)
      <3>1. \A k \in src2.first .. Len(src.log) : Len(src.log) \in 1 .. Len(src.log)
                                                 /\ (k = Len(src.log) \/ k \in 1 .. Len(src.log) - 1)
        BY <1>1, <1>2
      <3> QED BY <1>1, <1>4, <3>1 DEF InOrder, Kept
    <2>4. oldest \in Writes /\ newest \in Writes
      <3>1. src.first \in 1 .. Len(src.log) /\ Len(src.log) \in 1 .. Len(src.log)
        BY <1>1, <1>2
      <3> QED BY <1>1, <3>1
    <2>5. \A k, l \in Writes : ~(Earlier(k, l) /\ Earlier(l, k)) /\ ~Earlier(k, k)
      <3>1. \A k \in Writes : k.time \in Nat /\ k.id \in Nat
        BY WriteTypes
      <3> QED BY <3>1 DEF Earlier
    <2>6. /\ Changed("iceberg", src, t).complete = (Known(src) # {})
          /\ Changed("iceberg", src, t).parts = IF Known(src) = {} /\ Parts(Later(src)) = {} THEN {Whole} ELSE Parts(Later(src))
      <3>1. Kept(src) # {}
        BY <2>1
      <3> QED BY <1>4, <3>1, IcebergAnswers
    <2>7. /\ Changed("iceberg", src2, t).complete = (Known(src2) # {})
          /\ Changed("iceberg", src2, t).parts = IF Known(src2) = {} /\ Parts(Later(src2)) = {} THEN {Whole} ELSE Parts(Later(src2))
      <3>1. Kept(src2) # {}
        BY <2>1
      <3> QED BY <1>4, <3>1, IcebergAnswers
    <2>8. \A v : Tells(Changed("iceberg", src, t), v) => Tells(Changed("iceberg", src2, t), v)
      <3>1. CASE Known(src2) = {}
        BY <2>7, <3>1 DEF Tells
      <3>2. CASE Known(src2) # {}
        <4>1. Known(src2) \subseteq Known(src) /\ Known(src) # {}
          BY <2>1, <3>2 DEF KnownBy
        <4>2. Later(src) \subseteq Later(src2)
          <5>1. SUFFICES ASSUME NEW r \in Later(src) PROVE r \in Later(src2)
            OBVIOUS
          <5>2. PICK k \in Known(src2) : TRUE
            BY <3>2
          <5>3. Earlier(k, r) /\ Earlier(oldest, k) /\ k \in Writes
            BY <2>2, <4>1, <5>2 DEF KnownBy, LaterThan
          <5>4. r # oldest
            BY <2>4, <2>5, <5>3
          <5> QED BY <2>1, <4>1, <5>1, <5>4 DEF LaterThan
        <4>3. Parts(Later(src)) \subseteq Parts(Later(src2))
          <5> HIDE DEF Later
          <5> QED BY <4>2 DEF Parts
        <4> HIDE DEF Known, Later
        <4> QED BY <2>6, <2>7, <3>2, <4>1, <4>3 DEF Tells, Names
      <3> QED BY <3>1, <3>2
    <2>9. ASSUME Changed("iceberg", src, t).parts = {} PROVE Changed("iceberg", src2, t).parts = {}
      <3>1. Known(src) # {} /\ Later(src) = {}
        <4>1. Known(src) # {} /\ Parts(Later(src)) = {}
          <5> HIDE DEF Known, Later
          <5> QED BY <2>6, <2>9
        <4> HIDE DEF Known, Later
        <4> QED BY <4>1 DEF Parts
      <3>2. PICK k \in Known(src) : ~Earlier(k, newest)
        <4>1. newest \in Kept(src) /\ newest \notin Later(src)
          BY <2>1, <3>1
        <4> QED BY <4>1 DEF LaterThan
      <3>3. k = newest
        <4>1. k \in Kept(src) /\ (k \in Kept(src2) \/ k = oldest)
          BY <2>1 DEF KnownBy
        <4>2. Earlier(oldest, newest)
          BY <2>1, <2>2
        <4> QED BY <2>3, <3>2, <4>1, <4>2
      <3>4. newest \in Known(src2)
        BY <2>1, <3>3 DEF KnownBy
      <3>5. Later(src2) = {}
        <4>1. SUFFICES ASSUME NEW r \in Later(src2) PROVE FALSE
          OBVIOUS
        <4>2. r \in Kept(src2) /\ Earlier(newest, r)
          BY <3>4 DEF LaterThan
        <4> QED BY <2>2, <2>3, <2>4, <2>5, <4>2
      <3> HIDE DEF Known, Later
      <3> QED BY <2>7, <3>4, <3>5 DEF Parts
    <2> HIDE DEF Known, Later
    <2> QED BY <2>8, <2>9 DEF AnswersAlike
  <1> QED BY <1>1, <1>3, <1>4

-----------------------------------------------------------------------------
LEMMA MaxIs ==
  ASSUME NEW S \in SUBSET Int, S # {}, IsFiniteSet(S)
  PROVE  Max(S) \in S /\ \A n \in S : n <= Max(S)
  <1>1. \E m \in S : \A n \in S : n <= m
    BY FiniteHasGreatest
  <1>2. \E m \in S : \A n \in S : m >= n
    BY <1>1
  <1>3. Max(S) \in S /\ \A n \in S : Max(S) >= n
    BY <1>2 DEF Max
  <1>4. \A n \in S : n \in Int /\ Max(S) \in Int
    BY <1>3
  <1> QED BY <1>3, <1>4

\* The times of the latest writes, or of some of them.
LEMMA TimesAreKnown ==
  ASSUME NEW kind, NEW src \in SourceTypes, NEW now \in Nat, LogOK(kind, src, now),
         NEW rows, rows \subseteq Latest(src)
  PROVE  /\ IsFiniteSet(Times(rows)) /\ \A n \in Times(rows) : n \in Nat /\ n <= now
         /\ rows = {} <=> Times(rows) = {}
         /\ \A r \in rows : r.time \in Times(rows) /\ r.time \in Nat
                          /\ r.etag \in {src.log[i].etag : i \in DOMAIN src.log} /\ r.etag \in {0} \cup Etags
  <1>1. src.log \in WriteLogs /\ Len(src.log) \in Nat /\ DOMAIN src.log = 1 .. Len(src.log)
        /\ (\A i \in 1 .. Len(src.log) : src.log[i] \in Writes) /\ Len(src.log) \in 0 .. Len(src.log)
    <2>1. src.log \in Seq(Writes)
      BY DEF SourceTypes, WriteLogs
    <2>2. Len(src.log) \in Nat /\ DOMAIN src.log = 1 .. Len(src.log) /\ (\A i \in 1 .. Len(src.log) : src.log[i] \in Writes)
      BY <2>1, LenProperties, ElementOfSeq
    <2> QED BY <2>1, <2>2 DEF WriteLogs
  <1>2. Latest(src) \subseteq {src.log[i] : i \in 1 .. Len(src.log)}
    BY <1>1, LatestAreWrites DEF Latest
  <1> DEFINE f == [i \in 1 .. Len(src.log) |-> src.log[i].time]
  <1>3. IsFiniteSet({f[i] : i \in 1 .. Len(src.log)})
    <2>1. DOMAIN f = 1 .. Len(src.log)
      OBVIOUS
    <2> HIDE DEF f
    <2>2. IsFiniteSet(1 .. Len(src.log))
      BY <1>1, FS_Interval
    <2> QED BY <2>1, <2>2, ImageIsFinite
  <1>4. Times(rows) \subseteq {f[i] : i \in 1 .. Len(src.log)}
    <2>1. \A r \in rows : \E i \in 1 .. Len(src.log) : r = src.log[i]
      BY <1>2
    <2> QED BY <2>1 DEF Times
  <1>5. IsFiniteSet(Times(rows))
    <2> HIDE DEF f
    <2> QED BY <1>3, <1>4, FS_Subset
  <1>6. \A r \in rows : r.time \in Nat /\ r.time <= now
                       /\ r.etag \in {src.log[i].etag : i \in DOMAIN src.log} /\ r.etag \in {0} \cup Etags
    <2>1. SUFFICES ASSUME NEW i \in 1 .. Len(src.log)
                   PROVE  src.log[i].time \in Nat /\ src.log[i].time <= now
                          /\ src.log[i].etag \in {src.log[j].etag : j \in DOMAIN src.log} /\ src.log[i].etag \in {0} \cup Etags
      BY <1>2
    <2> QED BY <1>1, WriteTypes DEF LogOK
  <1> QED BY <1>5, <1>6 DEF Times

LEMMA NewestExists ==
  ASSUME NEW src \in SourceTypes, NEW now, LogOK("iceberg", src, now), Kept(src) # {}
  PROVE  \E s \in Kept(src) : \A o \in Kept(src) \ {s} : Earlier(o, s)
  <1> DEFINE S == src.first .. Len(src.log)
             f == [i \in S |-> src.log[i].time]
             g == [i \in S |-> src.log[i].id]
  <1>1. src.log \in Seq(Writes) /\ Len(src.log) \in Nat /\ DOMAIN src.log = 1 .. Len(src.log)
        /\ (\A i \in 1 .. Len(src.log) : src.log[i] \in Writes)
    <2>1. src.log \in Seq(Writes)
      BY DEF SourceTypes, WriteLogs
    <2> QED BY <2>1, LenProperties, ElementOfSeq
  <1>2. \A i \in S : i \in 1 .. Len(src.log)
    <2>1. src.first \in 1 .. Len(src.log) + 1
      BY DEF LogOK
    <2> QED BY <1>1, <2>1
  <1>3. \A i \in S : src.log[i].time \in Nat /\ src.log[i].id \in Nat
    BY <1>1, <1>2, WriteTypes
  <1>4. IsFiniteSet(S) /\ S # {}
    <2>1. src.first \in Int /\ Len(src.log) \in Int /\ S # {}
      BY <1>1 DEF SourceTypes, Kept
    <2>2. IsFiniteSet(src.first .. Len(src.log))
      BY <2>1, FS_Interval
    <2> QED BY <2>1, <2>2
  <1>5. PICK m \in {f[i] : i \in S} : \A n \in {f[i] : i \in S} : n <= m
    <2>0. \A i \in S : f[i] \in Int
      BY <1>3
    <2>1. DOMAIN f = S /\ {f[i] : i \in S} \in SUBSET Int /\ {f[i] : i \in S} # {}
      <3>1. DOMAIN f = S
        OBVIOUS
      <3> HIDE DEF f, S
      <3> QED BY <1>4, <2>0, <3>1
    <2> HIDE DEF f
    <2>2. IsFiniteSet({f[i] : i \in S})
      BY <1>4, <2>1, ImageIsFinite
    <2> QED BY <2>1, <2>2, FiniteHasGreatest
  <1>9. IsFiniteSet({g[i] : i \in S}) /\ \A i \in S : g[i] \in Int
    <2>1. DOMAIN g = S /\ \A i \in S : g[i] \in Int
      BY <1>3
    <2> HIDE DEF g, S
    <2> QED BY <1>4, <2>1, ImageIsFinite
  <1> DEFINE U == {j \in S : f[j] = m}
             ids == {g[i] : i \in U}
  <1>6. PICK n \in ids : \A l \in ids : l <= n
    <2>1. U # {} /\ U \subseteq S
      BY <1>5
    <2>2. ids # {} /\ ids \in SUBSET Int
      <3> HIDE DEF U, g
      <3> QED BY <1>9, <2>1
    <2>4. IsFiniteSet(ids)
      <3>1. ids \subseteq {g[i] : i \in S}
        <4> HIDE DEF U, g
        <4> QED BY <2>1
      <3> HIDE DEF ids
      <3> QED BY <1>9, <3>1, FS_Subset
    <2> HIDE DEF ids
    <2> QED BY <2>2, <2>4, FiniteHasGreatest
  <1>7. PICK k \in S : src.log[k].time = m /\ src.log[k].id = n
    BY <1>6
  <1>8. \A o \in S : o # k => Earlier(src.log[o], src.log[k])
    <2>1. SUFFICES ASSUME NEW o \in S, o # k PROVE Earlier(src.log[o], src.log[k])
      OBVIOUS
    <2>2. src.log[o].time <= m
      BY <1>5
    <2>3. src.log[o].time = m => src.log[o].id <= n
      <3>1. src.log[o].time = m => src.log[o].id \in ids
        OBVIOUS
      <3> HIDE DEF ids
      <3> QED BY <1>6, <3>1
    <2>4. src.log[o].id # src.log[k].id
      BY <1>1, <1>2, <2>1 DEF LogOK
    <2> QED BY <1>3, <1>7, <2>2, <2>3, <2>4 DEF Earlier
  <1>10. src.log[k] \in Kept(src)
    BY <1>7 DEF Kept
  <1>11. ASSUME NEW o \in Kept(src) \ {src.log[k]} PROVE Earlier(o, src.log[k])
    <2>1. PICK j \in S : o = src.log[j]
      BY DEF Kept
    <2> QED BY <1>8, <2>1
  <1> QED BY <1>10, <1>11

\* A write's partition is one, so the parts of an answer are partitions.
LEMMA PartsAre ==
  ASSUME NEW rows, rows \subseteq Writes
  PROVE  Parts(rows) \subseteq Partitions
  BY WriteTypes DEF Parts

LEMMA LatestIn ==
  ASSUME NEW src \in SourceTypes
  PROVE  Latest(src) \subseteq Writes /\ \A n \in 0 .. Len(src.log) : LatestUpTo(src.log, n) \subseteq Writes
  <1>1. src.log \in WriteLogs /\ Len(src.log) \in Nat
    BY LenProperties DEF SourceTypes, WriteLogs
  <1>2. \A n \in 0 .. Len(src.log) : LatestUpTo(src.log, n) \subseteq Writes
    BY <1>1, LatestAreWrites
  <1>3. Len(src.log) \in 0 .. Len(src.log)
    BY <1>1
  <1> QED BY <1>2, <1>3 DEF Latest

\* An answer: of the type of answers, its token a token asked at now; the same question with
\* that token is answered with nothing.
AnswerOK(kind, src, now, a) ==
  /\ a.parts \in SUBSET (Partitions \cup {Whole}) /\ a.complete \in BOOLEAN
  /\ a.token \in Tokens /\ TokenFits(kind, src, a.token, now)
  /\ kind # "watermark" /\ a.token # NoToken => Changed(kind, src, a.token).parts = {}

LEMMA AnswerIsOK ==
  ASSUME NEW kind, NEW src, NEW now, NEW parts \in SUBSET (Partitions \cup {Whole}), NEW complete \in BOOLEAN,
         NEW t \in Tokens, TokenFits(kind, src, t, now),
         kind # "watermark" /\ t # NoToken => Changed(kind, src, t).parts = {}
  PROVE  AnswerOK(kind, src, now, Answer(parts, t, complete))
  BY DEF AnswerOK, Answer

LEMMA UntouchedIsOK ==
  ASSUME NEW kind, NEW src, NEW now, NEW parts \in SUBSET (Partitions \cup {Whole}), NEW complete \in BOOLEAN
  PROVE  AnswerOK(kind, src, now, Answer(parts, NoToken, complete))
  BY DEF AnswerOK, Answer, Tokens, TokenFits

LEMMA StorageAnswer ==
  ASSUME NEW src \in SourceTypes, NEW now \in Nat, LogOK("storage", src, now), NEW t, NEW last \in Nat, last <= now,
         TokenFits("storage", src, t, last)
  PROVE  AnswerOK("storage", src, now, Changed("storage", src, t))
  <1> DEFINE rows == Latest(src)
             since == IF t = NoToken THEN {} ELSE {t.time}
             times == Times(rows) \cup since
  <1>1. Changed("storage", src, t) = Answer(Parts(ObjectsAfter(rows, t)), HighWater(rows, t), TRUE)
    BY DEF Changed, StorageChanged
  <1>2. /\ IsFiniteSet(Times(rows)) /\ \A n \in Times(rows) : n \in Nat /\ n <= now
        /\ \A r \in rows : r.time \in Times(rows) /\ r.time \in Nat
                         /\ r.etag \in {src.log[i].etag : i \in DOMAIN src.log} /\ r.etag \in {0} \cup Etags
    BY TimesAreKnown
  <1>3. IsFiniteSet(since) /\ \A n \in since : n \in Nat /\ n <= now
    <2>1. t # NoToken => t.time \in Nat /\ t.time <= last
      BY DEF TokenFits, Boundaries
    <2>2. IsFiniteSet({}) /\ IsFiniteSet({t.time})
      BY FS_EmptySet, FS_Singleton
    <2>3. IsFiniteSet(since)
      BY <2>2
    <2> QED BY <2>1, <2>3
  <1>4. IsFiniteSet(times) /\ \A n \in times : n \in Nat /\ n <= now
    <2> HIDE DEF since, rows
    <2> QED BY <1>2, <1>3, FS_Union
  <1>5. ObjectsAfter(rows, t) \subseteq rows /\ Parts(ObjectsAfter(rows, t)) \subseteq Partitions
    <2>1. ObjectsAfter(rows, t) \subseteq rows
      BY DEF ObjectsAfter
    <2> QED BY <2>1, LatestIn, PartsAre
  <1>6. CASE times = {}
    <2>1. HighWater(rows, t) = NoToken
      BY <1>6 DEF HighWater
    <2> HIDE DEF rows
    <2> QED BY <1>1, <1>5, <2>1, UntouchedIsOK
  <1>7. CASE times # {}
    <2> DEFINE high == [time |-> Max(times), seen |-> {o.etag : o \in {x1 \in rows : x1.time = Max(times)}}]
    <2>1. HighWater(rows, t) = high
      BY <1>7 DEF HighWater
    <2>2. Max(times) \in times /\ \A n \in times : n <= Max(times)
      <3> HIDE DEF times
      <3>1. times \in SUBSET Int
        BY <1>4
      <3> QED BY <1>4, <1>7, <3>1, MaxIs
    <2>3. Max(times) \in Nat /\ Max(times) <= now
      <3> HIDE DEF times
      <3> QED BY <1>4, <2>2
    <2>4. high.seen \subseteq {src.log[i].etag : i \in DOMAIN src.log} /\ high.seen \subseteq {0} \cup Etags
      <3> HIDE DEF times, rows
      <3> QED BY <1>2
    <2>5. high \in Boundaries /\ high # NoToken /\ high.time = Max(times)
      <3>1. high \in [time : Nat, seen : SUBSET ({0} \cup Etags)]
        <4> HIDE DEF times, rows
        <4> QED BY <2>3, <2>4
      <3> QED BY <3>1, DetectAssumption DEF DetectAssumption, Boundaries
    <2>6. TokenFits("storage", src, high, now)
      <3> HIDE DEF times, rows
      <3> QED BY <2>3, <2>4, <2>5 DEF TokenFits
    <2>7. ObjectsAfter(rows, high) = {}
      <3>1. SUFFICES ASSUME NEW o \in rows, o.time >= Max(times) PROVE o.etag \in high.seen
        BY <2>5 DEF ObjectsAfter
      <3>2. o.time <= Max(times) /\ o.time \in Nat
        BY <1>2, <2>2
      <3>3. o.time = Max(times)
        BY <2>3, <3>1, <3>2
      <3> QED BY <3>3
    <2>8. Changed("storage", src, high).parts = {}
      <3>1. Parts(ObjectsAfter(rows, high)) = {}
        <4> HIDE DEF high
        <4> QED BY <2>7 DEF Parts
      <3>2. Changed("storage", src, high) = Answer(Parts(ObjectsAfter(rows, high)), HighWater(rows, high), TRUE)
        BY DEF Changed, StorageChanged
      <3> HIDE DEF high, rows
      <3> QED BY <3>1, <3>2 DEF Answer
    <2>9. high \in Tokens
      BY <2>5 DEF Tokens
    <2> HIDE DEF high, rows
    <2> QED BY <1>1, <1>5, <2>1, <2>6, <2>8, <2>9, AnswerIsOK
  <1> QED BY <1>6, <1>7

LEMMA DeltaAnswer ==
  ASSUME NEW src \in SourceTypes, NEW now \in Nat, LogOK("delta", src, now), NEW t, NEW last,
         TokenFits("delta", src, t, last)
  PROVE  AnswerOK("delta", src, now, Changed("delta", src, t))
  <1>1. src.log \in Seq(Writes) /\ Len(src.log) \in Nat /\ DOMAIN src.log = 1 .. Len(src.log)
        /\ (\A i \in 1 .. Len(src.log) : src.log[i] \in Writes) /\ src.first \in 1 .. Len(src.log) + 1
        /\ src.checkpoint \in 0 .. Len(src.log)
    <2>1. src.log \in Seq(Writes) /\ src.checkpoint \in Nat
      BY DEF SourceTypes, WriteLogs
    <2>2. Len(src.log) \in Nat
      BY <2>1, LenProperties
    <2> QED BY <2>1, <2>2, LenProperties, ElementOfSeq DEF LogOK
  <1>2. CASE src.log = << >>
    <2>1. Len(src.log) = 0
      BY <1>2
    <2>2. t = NoToken
      BY <2>1 DEF TokenFits
    <2>3. Changed("delta", src, t) = Answer({}, NoToken, TRUE)
      BY <1>2, <2>2 DEF Changed, DeltaChanged
    <2> QED BY <2>3, UntouchedIsOK
  <1>3. CASE src.log # << >>
    <2> DEFINE baseline == IF Baseline(src, t) /\ src.readable THEN Parts(LatestUpTo(src.log, src.checkpoint)) ELSE {}
               begin == DeltaStart(src, t)
    <2>1. Changed("delta", src, t) = Answer(baseline \cup Parts(CommitsAfter(src, begin)), Len(src.log), ~(Baseline(src, t) /\ ~src.readable))
      BY <1>3 DEF Changed, DeltaChanged
    <2>3. CommitsAfter(src, begin) \subseteq Writes
      <3>1. \A u \in src.first .. Len(src.log) : u \in 1 .. Len(src.log)
        BY <1>1
      <3> HIDE DEF begin
      <3> QED BY <1>1, <3>1 DEF CommitsAfter
    <2>4. baseline \subseteq Partitions /\ Parts(CommitsAfter(src, begin)) \subseteq Partitions
      BY <1>1, <2>3, LatestIn, PartsAre
    <2>5. Len(src.log) \in 1 .. Len(src.log)
      BY <1>1, <1>3
    <2>6. TokenFits("delta", src, Len(src.log), now)
      BY <2>5 DEF TokenFits
    <2>7. Len(src.log) # NoToken
      BY <1>1, DetectAssumption DEF DetectAssumption
    <2>8. Changed("delta", src, Len(src.log)).parts = {}
      <3>1. CommitsAfter(src, Len(src.log)) = {}
        BY <1>1 DEF CommitsAfter
      <3>2. Changed("delta", src, Len(src.log)) = Answer(Parts(CommitsAfter(src, Len(src.log))), Len(src.log), TRUE)
        BY <1>3, <2>7, DeltaAnswers
      <3> QED BY <3>1, <3>2 DEF Parts, Answer
    <2>9. Len(src.log) \in Tokens
      BY <1>1 DEF Tokens
    <2>11. (~(Baseline(src, t) /\ ~src.readable)) \in BOOLEAN
      BY DEF Baseline
    <2> HIDE DEF baseline, begin
    <2>10. baseline \cup Parts(CommitsAfter(src, begin)) \in SUBSET (Partitions \cup {Whole})
      BY <2>4
    <2> QED BY <2>1, <2>6, <2>8, <2>9, <2>10, <2>11, AnswerIsOK
  <1> QED BY <1>2, <1>3

LEMMA IcebergAnswer ==
  ASSUME NEW src \in SourceTypes, NEW now \in Nat, LogOK("iceberg", src, now), NEW t, NEW last,
         TokenFits("iceberg", src, t, last)
  PROVE  AnswerOK("iceberg", src, now, Changed("iceberg", src, t))
  <1>1. src.log \in Seq(Writes) /\ Len(src.log) \in Nat /\ DOMAIN src.log = 1 .. Len(src.log)
        /\ (\A i \in 1 .. Len(src.log) : src.log[i] \in Writes) /\ src.first \in 1 .. Len(src.log) + 1
        /\ (src.first = 1 \/ src.first <= Len(src.log))
    <2>1. src.log \in Seq(Writes)
      BY DEF SourceTypes, WriteLogs
    <2> QED BY <2>1, LenProperties, ElementOfSeq DEF LogOK
  <1>2. \A r \in Kept(src) : r \in Writes /\ \E i \in DOMAIN src.log : r = src.log[i]
    <2>1. \A i \in src.first .. Len(src.log) : i \in 1 .. Len(src.log)
      BY <1>1
    <2> QED BY <1>1, <2>1 DEF Kept
  <1> DEFINE complete == t = NoToken \/ KnownBy(src, t) # {}
             later == Parts(LaterThan(src, t))
             newest == CHOOSE s \in Kept(src) : \A o \in Kept(src) \ {s} : Earlier(o, s)
  <1>3. CASE Kept(src) = {}
    <2>1. src.log = << >>
      <3>1. ~(src.first \in src.first .. Len(src.log))
        BY <1>3 DEF Kept
      <3>2. Len(src.log) = 0
        BY <1>1, <3>1
      <3> QED BY <1>1, <3>2
    <2>2. t = NoToken
      <3>1. DOMAIN src.log = {}
        BY <2>1
      <3> QED BY <3>1 DEF TokenFits
    <2>3. Changed("iceberg", src, t) = Answer({}, NoToken, TRUE)
      <3>1. {src.log[i] : i \in src.first .. Len(src.log)} = {}
        BY <1>3 DEF Kept
      <3> QED BY <2>2, <3>1 DEF Changed, IcebergChanged
    <2> QED BY <2>3, UntouchedIsOK
  <1>4. CASE Kept(src) # {}
    <2>1. Changed("iceberg", src, t) = Answer(IF ~complete /\ later = {} THEN {Whole} ELSE later, newest.id, complete)
      BY <1>4 DEF Changed, IcebergChanged, Kept, KnownBy, LaterThan
    <2>2. newest \in Kept(src) /\ \A o \in Kept(src) \ {newest} : Earlier(o, newest)
      <3>1. \E s \in Kept(src) : \A o \in Kept(src) \ {s} : Earlier(o, s)
        BY <1>4, NewestExists
      <3> QED BY <3>1
    <2> HIDE DEF newest
    <2>3. newest.id \in Nat /\ newest.id # NoToken
      BY <1>2, <2>2, WriteTypes, DetectAssumption DEF DetectAssumption
    <2>4. TokenFits("iceberg", src, newest.id, now)
      BY <1>2, <2>2, <2>3 DEF TokenFits
    <2>5. KnownBy(src, newest.id) = {newest}
      <3>1. \A r \in Kept(src) : r.id = newest.id => r = newest
        BY <1>2, <2>2 DEF LogOK
      <3> QED BY <2>2, <3>1 DEF KnownBy
    <2>6. LaterThan(src, newest.id) = {}
      <3>1. SUFFICES ASSUME NEW r \in Kept(src), Earlier(newest, r) PROVE FALSE
        BY <2>5 DEF LaterThan
      <3>2. r \in Writes /\ newest \in Writes /\ (r = newest \/ Earlier(r, newest))
        BY <1>2, <2>2
      <3>3. r.time \in Nat /\ r.id \in Nat /\ newest.time \in Nat /\ newest.id \in Nat
        BY <3>2, WriteTypes
      <3> QED BY <3>1, <3>2, <3>3 DEF Earlier
    <2>7. Changed("iceberg", src, newest.id).parts = {}
      <3>1. Parts(LaterThan(src, newest.id)) = {} /\ KnownBy(src, newest.id) # {}
        BY <2>5, <2>6 DEF Parts
      <3> QED BY <1>4, <3>1, IcebergAnswers
    <2>8. later \subseteq Partitions
      <3>1. LaterThan(src, t) \subseteq Writes
        BY <1>2 DEF LaterThan
      <3> QED BY <3>1, PartsAre
    <2>9. complete \in BOOLEAN /\ newest.id \in Tokens
      BY <2>3 DEF Tokens
    <2> HIDE DEF later, complete
    <2>10. (IF ~complete /\ later = {} THEN {Whole} ELSE later) \in SUBSET (Partitions \cup {Whole})
      BY <2>8
    <2> QED BY <2>1, <2>4, <2>7, <2>9, <2>10, AnswerIsOK
  <1> QED BY <1>3, <1>4

LEMMA TimesAnswer ==
  ASSUME NEW kind \in {"bigquery", "watermark"}, NEW src \in SourceTypes, NEW now \in Nat, LogOK(kind, src, now),
         NEW t, NEW last \in Nat, last <= now, TokenFits(kind, src, t, last)
  PROVE  AnswerOK(kind, src, now, Changed(kind, src, t))
  <1> DEFINE rows == Latest(src)
             told1 == {r \in rows : t = NoToken \/ r.time > t}
             since == IF t = NoToken THEN {} ELSE {t}
  <1>1. t # NoToken => t \in Nat /\ t <= now
    BY DEF TokenFits
  <1>2. told1 \subseteq rows /\ Parts(told1) \in SUBSET (Partitions \cup {Whole})
    <2>1. told1 \subseteq rows
      OBVIOUS
    <2> QED BY <2>1, LatestIn, PartsAre
  <1>3. /\ IsFiniteSet(Times(rows)) /\ \A n \in Times(rows) : n \in Nat /\ n <= now
        /\ rows = {} <=> Times(rows) = {}
        /\ \A r \in rows : r.time \in Times(rows) /\ r.time \in Nat
    BY TimesAreKnown
  <1>7. /\ IsFiniteSet(Times(told1)) /\ \A n \in Times(told1) : n \in Nat /\ n <= now
        /\ told1 = {} <=> Times(told1) = {}
    <2> HIDE DEF told1
    <2> QED BY <1>2, TimesAreKnown
  <1>4. TokenFits(kind, src, t, now) /\ t \in Tokens
    BY <1>1 DEF TokenFits, Tokens
  <1>5. CASE kind = "bigquery"
    <2> DEFINE times == Times(rows) \cup since
               token2 == IF rows = {} THEN t ELSE Max(times)
    <2>1. Changed(kind, src, t) = Answer(Parts(told1), token2, TRUE)
      BY <1>5 DEF Changed, PartitionTimesChanged
    <2>2. CASE rows = {}
      <3>1. told1 = {} /\ token2 = t
        BY <2>2
      <3>2. Changed(kind, src, t).parts = {}
        <4> HIDE DEF token2, told1
        <4> QED BY <2>1, <3>1 DEF Answer, Parts
      <3> HIDE DEF told1, token2
      <3> QED BY <1>2, <1>4, <2>1, <3>1, <3>2, AnswerIsOK
    <2>3. CASE rows # {}
      <3>1. IsFiniteSet(times) /\ times # {} /\ \A n \in times : n \in Nat /\ n <= now
        <4>1. IsFiniteSet({}) /\ IsFiniteSet({t})
          BY FS_EmptySet, FS_Singleton
        <4>2. IsFiniteSet(since) /\ \A n \in since : n \in Nat /\ n <= now
          BY <1>1, <4>1
        <4>3. IsFiniteSet(Times(rows)) /\ Times(rows) # {} /\ \A n \in Times(rows) : n \in Nat /\ n <= now
          BY <1>3, <2>3
        <4> HIDE DEF since, rows
        <4> QED BY <4>2, <4>3, FS_Union
      <3>2. Max(times) \in times /\ \A n \in times : n <= Max(times)
        <4> HIDE DEF times
        <4>1. times \in SUBSET Int
          BY <3>1
        <4> QED BY <3>1, <4>1, MaxIs
      <3>3. token2 \in Nat /\ token2 <= now /\ token2 = Max(times)
        <4> HIDE DEF times
        <4> QED BY <2>3, <3>1, <3>2
      <3>4. token2 \in Tokens /\ TokenFits(kind, src, token2, now) /\ token2 # NoToken
        <4> HIDE DEF token2
        <4> QED BY <1>5, <3>3, DetectAssumption DEF DetectAssumption, Tokens, TokenFits
      <3>5. \A r \in rows : ~(r.time > token2)
        <4>1. \A r \in rows : r.time \in times /\ r.time \in Nat
          BY <1>3
        <4> HIDE DEF times, rows, token2
        <4> QED BY <3>2, <3>3, <4>1
      <3>6. Changed(kind, src, token2).parts = {}
        <4>1. {r \in Latest(src) : token2 = NoToken \/ r.time > token2} = {}
          <5> HIDE DEF token2
          <5> QED BY <3>4, <3>5
        <4> HIDE DEF token2
        <4> QED BY <1>5, <4>1 DEF Changed, PartitionTimesChanged, Answer, Parts
      <3> HIDE DEF told1, token2
      <3> QED BY <1>2, <2>1, <3>4, <3>6, AnswerIsOK
    <2> QED BY <2>2, <2>3
  <1>6. CASE kind = "watermark"
    <2> DEFINE token2 == IF told1 = {} THEN t ELSE Second(Max(Times(told1)))
    <2>1. Changed(kind, src, t) = Answer(Parts(told1), token2, TRUE)
      BY <1>6 DEF Changed, WatermarkChanged
    <2>2. token2 \in Tokens /\ TokenFits(kind, src, token2, now)
      <3>1. CASE told1 = {}
        BY <1>4, <3>1
      <3>2. CASE told1 # {}
        <4>1. IsFiniteSet(Times(told1)) /\ Times(told1) # {} /\ \A n \in Times(told1) : n \in Nat /\ n <= now
          <5> HIDE DEF told1, rows
          <5> QED BY <1>7, <3>2
        <4>2. Max(Times(told1)) \in Times(told1)
          <5>1. Times(told1) \in SUBSET Int
            BY <4>1
          <5> HIDE DEF told1
          <5> QED BY <4>1, <5>1, MaxIs
        <4>3. Second(Max(Times(told1))) \in Nat /\ Second(Max(Times(told1))) <= now
          <5> HIDE DEF told1
          <5>1. Max(Times(told1)) \in Nat /\ Max(Times(told1)) <= now
            BY <4>1, <4>2
          <5>2. Second(Max(Times(told1))) \in Nat /\ Second(Max(Times(told1))) <= Max(Times(told1))
            BY <5>1, SecondsAreOrdered DEF Second2
          <5> QED BY <5>1, <5>2
        <4>4. token2 = Second(Max(Times(told1)))
          BY <3>2
        <4> HIDE DEF token2, told1
        <4> QED BY <1>6, <4>3, <4>4 DEF TokenFits, Tokens
      <3> QED BY <3>1, <3>2
    <2> HIDE DEF told1, token2
    <2> QED BY <1>2, <1>6, <2>1, <2>2, AnswerIsOK
  <1> QED BY <1>5, <1>6

LEMMA AlteredAnswer ==
  ASSUME NEW src \in SourceTypes, NEW now \in Nat, now > 0, LogOK("altered", src, now), NEW t, NEW last \in Nat,
         last <= now, TokenFits("altered", src, t, last)
  PROVE  AnswerOK("altered", src, now, Changed("altered", src, t))
  <1>1. t # NoToken => t \in Nat /\ t <= Second(now)
    <2>1. Second(last) \in Nat /\ Second(now) \in Nat /\ Second(last) <= Second(now)
      BY SecondsAreOrdered DEF Second2
    <2>2. t # NoToken => t \in Nat /\ t <= Second(last)
      BY DEF TokenFits
    <2> QED BY <2>1, <2>2
  <1>2. t \in Tokens /\ TokenFits("altered", src, t, now)
    BY <1>1 DEF Tokens, TokenFits
  <1> DEFINE token2 == Second(Last(src.log).time)
  <1>3. CASE src.log = << >> \/ (t # NoToken /\ token2 <= t)
    <2>1. Changed("altered", src, t) = Answer({}, t, TRUE)
      BY <1>3 DEF Changed, AlteredChanged
    <2>2. Changed("altered", src, t).parts = {}
      BY <2>1 DEF Answer
    <2> QED BY <1>2, <2>1, <2>2, AnswerIsOK
  <1>4. CASE ~(src.log = << >> \/ (t # NoToken /\ token2 <= t))
    <2>1. Changed("altered", src, t) = Answer({Whole}, token2, TRUE)
      BY <1>4 DEF Changed, AlteredChanged
    <2>2. token2 \in Nat /\ token2 <= Second(now)
      <3>1. src.log \in Seq(Writes)
        BY DEF SourceTypes, WriteLogs
      <3>2. Len(src.log) \in DOMAIN src.log /\ src.log[Len(src.log)] \in Writes
        BY <1>4, <3>1
      <3>3. Last(src.log).time \in Nat /\ Last(src.log).time <= now
        BY <3>2, WriteTypes DEF Last, LogOK
      <3> QED BY <3>3, SecondsAreOrdered DEF Second2
    <2>3. token2 \in Tokens /\ TokenFits("altered", src, token2, now) /\ token2 # NoToken
      <3> HIDE DEF token2
      <3> QED BY <2>2, DetectAssumption DEF DetectAssumption, Tokens, TokenFits
    <2>4. Changed("altered", src, token2) = Answer({}, token2, TRUE)
      <3>1. token2 <= token2
        BY <2>2
      <3> QED BY <2>3, <3>1 DEF Changed, AlteredChanged
    <2>5. Changed("altered", src, token2).parts = {}
      BY <2>4 DEF Answer
    <2> HIDE DEF token2
    <2> QED BY <2>1, <2>3, <2>5, AnswerIsOK
  <1> QED BY <1>3, <1>4

\* What a source answers to a token of its own is an answer.
LEMMA SourcesAnswer ==
  ASSUME NEW kind \in SourceKinds, NEW src \in SourceTypes, NEW now \in Nat, now > 0, LogOK(kind, src, now),
         NEW t, NEW last \in Nat, last <= now, TokenFits(kind, src, t, last)
  PROVE  AnswerOK(kind, src, now, Changed(kind, src, t))
  <1>1. CASE kind = "untimed"
    <2>1. Changed(kind, src, t) = Answer(Parts(Latest(src)), NoToken, TRUE)
      BY <1>1 DEF Changed, UntimedChanged
    <2>2. Parts(Latest(src)) \in SUBSET (Partitions \cup {Whole})
      BY LatestIn, PartsAre
    <2> QED BY <2>1, <2>2, UntouchedIsOK
  <1> QED BY <1>1, StorageAnswer, DeltaAnswer, IcebergAnswer, TimesAnswer, AlteredAnswer DEF SourceKinds

-----------------------------------------------------------------------------
\* A command is at a source with a token to ask with, or with one to set.
AtAsk(c, s) == run[c].pc = "ask" /\ run[c].at = s
AtSet(c, s) == run[c].pc = "set" /\ run[c].at = s

\* A command holds an answer for each source it is past, about writes that were made.
CommandOK(c) ==
  /\ Len(run[c].answers) = IF run[c].pc = "set" THEN run[c].at ELSE run[c].at - 1
  /\ run[c].pc \in {"ask", "set"} => run[c].at \in Sources
  /\ run[c].at - 1 \in Sources \cup {0}
  /\ run[c].pc = "idle" => run[c].at = 1
  /\ run[c].pc = "set" => run[c].since # NoToken
  /\ \A s \in DOMAIN run[c].answers : run[c].answers[s].upto <= Len(Log(s))

\* A command will report write i of source s; somebody was told of it, or will be by a
\* command that has moved the token; or whoever asks with token t will be.
Reports(c, s, i) == s \in DOMAIN run[c].answers /\ i \in Reported(s, run[c].answers[s], run[c].command)
Past(s, i)       == i \in told[s] \/ \E c \in Procs : Reports(c, s, i) /\ ~AtSet(c, s)
StillTold(s, t, i) == Past(s, i) \/ Tells(Ask(s, t), Log(s)[i])

\* Whatever a token passes over was told, or is about to be; without a token nothing has
\* expired yet.
TokenCovers(s, t) ==
  /\ t = NoToken /\ Kind(s) = "iceberg" => source[s].first = 1
  /\ t # NoToken => \A i \in DOMAIN Log(s) : StillTold(s, t, i)

FitsAt(s, t) == TokenFits(Kind(s), source[s], t, asked[s])
Quiet(s, t)  == Kind(s) # "watermark" => Ask(s, t).parts = {}

LogsOK(s) ==
  /\ LogOK(Kind(s), source[s], clock) /\ asked[s] <= clock
  /\ token[s] = NoToken => \A i \in DOMAIN Log(s) : ~Log(s)[i].gone
  /\ s \notin gaps /\ Kind(s) = "iceberg" => InOrder(source[s])

\* The token that is stored; the one a command asks with; the one it will set, which passes
\* over what the command has the answer about.
StoredOK(s) ==
  /\ FitsAt(s, token[s]) /\ (s \in settled => token[s] # NoToken)
  /\ s \notin gaps => TokenCovers(s, token[s]) /\ (s \in settled => Quiet(s, token[s]))

AskOK(c, s) == FitsAt(s, run[c].since) /\ (s \notin gaps => TokenCovers(s, run[c].since))

SetOK(c, s) ==
  /\ FitsAt(s, run[c].since)
  /\ s \notin gaps =>
       /\ \A i \in DOMAIN Log(s) : Reports(c, s, i) \/ StillTold(s, run[c].since, i)
       /\ run[c].answers[s].upto = Len(Log(s)) => Quiet(s, run[c].since)

AtSource(s) ==
  /\ LogsOK(s) /\ StoredOK(s)
  /\ \A c \in Procs : (AtAsk(c, s) => AskOK(c, s)) /\ (AtSet(c, s) => SetOK(c, s))

DetectInv == DetectTypeOK /\ (\A c \in Procs : CommandOK(c)) /\ (\A s \in Sources : AtSource(s))

LEMMA ProjectIs ==
  ASSUME project \in Projects
  PROVE  /\ Len(project.sources) \in Nat /\ Sources = 1 .. Len(project.sources)
         /\ \A s \in Sources : Kind(s) \in SourceKinds
         /\ project.commands \subseteq {"detect", "plan"}
  <1>1. project.sources \in Seq(SourceKinds) /\ project.commands \subseteq {"detect", "plan"}
    BY DetectAssumption DEF DetectAssumption, SourceKinds
  <1>2. Len(project.sources) \in Nat /\ DOMAIN project.sources = 1 .. Len(project.sources)
    BY <1>1, LenProperties
  <1>3. \A s \in 1 .. Len(project.sources) : project.sources[s] \in SourceKinds
    BY <1>1, ElementOfSeq
  <1> QED BY <1>1, <1>2, <1>3 DEF Sources, Kind

LEMMA SourceIs ==
  ASSUME DetectTypeOK, NEW s \in Sources
  PROVE  /\ source[s] \in SourceTypes /\ Log(s) \in WriteLogs /\ Len(Log(s)) \in Nat
         /\ DOMAIN Log(s) = 1 .. Len(Log(s)) /\ asked[s] \in Nat /\ Kind(s) \in SourceKinds
         /\ s \in Nat \ {0} /\ clock \in Nat \ {0} /\ token[s] \in Tokens /\ told[s] \subseteq Nat
         /\ source[s].first \in Nat /\ source[s].checkpoint \in Nat
         /\ \A i \in DOMAIN Log(s) : Log(s)[i] \in Writes
  <1>1. source[s] \in SourceTypes /\ asked[s] \in Nat /\ clock \in Nat \ {0} /\ token[s] \in Tokens /\ told[s] \subseteq Nat
    BY DEF DetectTypeOK
  <1>2. Kind(s) \in SourceKinds /\ s \in Nat \ {0}
    BY ProjectIs DEF DetectTypeOK
  <1>3. Log(s) \in WriteLogs /\ source[s].first \in Nat /\ source[s].checkpoint \in Nat
    BY <1>1 DEF SourceTypes, Log
  <1>4. Len(Log(s)) \in Nat /\ DOMAIN Log(s) = 1 .. Len(Log(s))
    BY <1>3, LenProperties DEF WriteLogs
  <1>5. \A i \in DOMAIN Log(s) : Log(s)[i] \in Writes
    BY <1>3, <1>4, ElementOfSeq DEF WriteLogs
  <1> QED BY <1>1, <1>2, <1>3, <1>4, <1>5

LEMMA CommandIs ==
  ASSUME DetectTypeOK, NEW c \in Procs
  PROVE  /\ run[c] \in CommandTypes /\ run[c].pc \in {"idle", "next", "ask", "set"} /\ run[c].at \in Nat \ {0}
         /\ run[c].command \in {"detect", "plan"} /\ run[c].since \in Tokens /\ run[c].answers \in Seq(AnswerTypes)
         /\ Len(run[c].answers) \in Nat /\ DOMAIN run[c].answers = 1 .. Len(run[c].answers)
         /\ \A s \in DOMAIN run[c].answers : run[c].answers[s] \in AnswerTypes
  <1>1. run[c] \in CommandTypes
    BY DEF DetectTypeOK
  <1>2. run[c].answers \in Seq(AnswerTypes)
    BY <1>1 DEF CommandTypes
  <1>3. Len(run[c].answers) \in Nat /\ DOMAIN run[c].answers = 1 .. Len(run[c].answers)
    BY <1>2, LenProperties
  <1>4. \A s \in DOMAIN run[c].answers : run[c].answers[s] \in AnswerTypes
    BY <1>2, <1>3, ElementOfSeq
  <1> QED BY <1>1, <1>2, <1>3, <1>4 DEF CommandTypes

\* A later instant: a token that fitted still fits.
LEMMA FitsLater ==
  ASSUME NEW kind, NEW src, NEW t, NEW last \in Nat, NEW last2 \in Nat, last <= last2,
         TokenFits(kind, src, t, last), t \in Tokens
  PROVE  TokenFits(kind, src, t, last2)
  <1>1. kind = "storage" /\ t # NoToken => t.time \in Nat
    BY DEF TokenFits, Boundaries
  <1>2. Second(last) \in Nat /\ Second(last2) \in Nat /\ Second(last) <= Second(last2)
    BY SecondsAreOrdered DEF Second2
  <1>3. ASSUME t # NoToken, kind = "storage"
        PROVE  t \in Boundaries /\ t.time <= last2 /\ t.seen \subseteq {src.log[i].etag : i \in DOMAIN src.log}
    BY <1>1, <1>3 DEF TokenFits
  <1>4. ASSUME t # NoToken, kind \in {"bigquery", "watermark"} PROVE t \in Nat /\ t <= last2
    BY <1>4 DEF TokenFits
  <1>5. ASSUME t # NoToken, kind = "altered" PROVE t \in Nat /\ last2 > 0 /\ t <= Second(last2)
    BY <1>2, <1>5 DEF TokenFits
  <1> QED BY <1>3, <1>4, <1>5 DEF TokenFits

-----------------------------------------------------------------------------
LEMMA SameWorld ==
  ASSUME UNCHANGED <<project, clock, source>>
  PROVE  /\ Sources' = Sources
         /\ \A s : Kind(s)' = Kind(s) /\ Log(s)' = Log(s)
         /\ \A s, t : Ask(s, t)' = Ask(s, t)
         /\ \A s, a, d : Reported(s, a, d)' = Reported(s, a, d)
  <1>1. Sources' = Sources /\ \A s : Kind(s)' = Kind(s) /\ Log(s)' = Log(s)
    BY DEF Sources, Kind, Log
  <1>2. \A s, t : Ask(s, t)' = Ask(s, t)
    BY <1>1 DEF Ask
  <1>3. \A s, a, d : Reported(s, a, d)' = Reported(s, a, d)
    BY <1>1 DEF Reported
  <1> QED BY <1>1, <1>2, <1>3

\* What the other commands will report they still will; so only what this one does counts.
LEMMA PastStays ==
  ASSUME UNCHANGED <<project, clock, source>>, NEW c \in Procs, \A d \in Procs \ {c} : run'[d] = run[d],
         NEW s, told[s] \subseteq told'[s], NEW i,
         Reports(c, s, i) /\ ~AtSet(c, s) => i \in told'[s] \/ (Reports(c, s, i)' /\ ~AtSet(c, s)'),
         Past(s, i)
  PROVE  Past(s, i)'
  <1>1. CASE i \in told[s]
    BY <1>1 DEF Past
  <1>2. CASE i \notin told[s]
    <2>1. PICK d \in Procs : Reports(d, s, i) /\ ~AtSet(d, s)
      BY <1>2 DEF Past
    <2>2. CASE d = c
      BY <2>1, <2>2 DEF Past
    <2>3. CASE d # c
      <3>1. run'[d] = run[d]
        BY <2>3
      <3>2. Reports(d, s, i)' /\ ~AtSet(d, s)'
        BY <2>1, <3>1, SameWorld DEF Reports, AtSet
      <3> QED BY <3>2 DEF Past
    <2> QED BY <2>2, <2>3
  <1> QED BY <1>1, <1>2

\* A step of command c leaves source s, its stored token and the other commands right.
LEMMA OthersStay ==
  ASSUME DetectInv, UNCHANGED <<project, clock, source>>, NEW c \in Procs,
         \A d \in Procs \ {c} : run'[d] = run[d], NEW s \in Sources,
         asked'[s] \in Nat, asked[s] <= asked'[s], asked'[s] <= clock, gaps \subseteq gaps',
         \A i \in DOMAIN Log(s) : s \notin gaps' /\ Past(s, i) => Past(s, i)'
  PROVE  /\ (token'[s] = NoToken => token[s] = NoToken) => LogsOK(s)'
         /\ token'[s] = token[s] /\ (s \in settled' => s \in settled) => StoredOK(s)'
         /\ \A d \in Procs \ {c} : (AtAsk(d, s)' => AskOK(d, s)') /\ (AtSet(d, s)' => SetOK(d, s)')
  <1>1. DetectTypeOK /\ AtSource(s)
    BY DEF DetectInv
  <1>2. (token'[s] = NoToken => token[s] = NoToken) => LogsOK(s)'
    BY <1>1, SameWorld DEF AtSource, LogsOK
  <1>3. ASSUME NEW t \in Tokens, FitsAt(s, t) PROVE FitsAt(s, t)'
    <2>1. asked[s] \in Nat
      BY <1>1, SourceIs
    <2>2. TokenFits(Kind(s), source[s], t, asked'[s])
      BY <1>3, <2>1, FitsLater DEF FitsAt
    <2> QED BY <2>2, SameWorld DEF FitsAt
  <1>4. ASSUME s \notin gaps', NEW i \in DOMAIN Log(s), NEW t, StillTold(s, t, i) PROVE StillTold(s, t, i)'
    BY <1>4, SameWorld DEF StillTold
  <1>5. ASSUME s \notin gaps', NEW t, TokenCovers(s, t) PROVE TokenCovers(s, t)'
    BY <1>4, <1>5, SameWorld DEF TokenCovers
  <1>6. \A t : Quiet(s, t)' = Quiet(s, t)
    BY SameWorld DEF Quiet
  <1>7. s \notin gaps' => s \notin gaps
    OBVIOUS
  <1>8. ASSUME token'[s] = token[s], s \in settled' => s \in settled PROVE StoredOK(s)'
    <2>1. StoredOK(s) /\ token[s] \in Tokens
      BY <1>1, SourceIs DEF AtSource
    <2>2. FitsAt(s, token[s])'
      BY <1>3, <1>8, <2>1 DEF StoredOK, FitsAt
    <2>3. s \in settled' => token'[s] # NoToken
      BY <1>8, <2>1 DEF StoredOK
    <2>4. ASSUME s \notin gaps' PROVE TokenCovers(s, token[s])'
      BY <1>5, <1>8, <2>1, <2>4 DEF StoredOK, TokenCovers
    <2>5. ASSUME s \notin gaps', s \in settled' PROVE Quiet(s, token[s])'
      BY <1>6, <1>8, <2>1, <2>5, SameWorld DEF StoredOK, Quiet
    <2> QED BY <2>2, <2>3, <2>4, <2>5, <1>8 DEF StoredOK
  <1>9. ASSUME NEW d \in Procs \ {c} PROVE (AtAsk(d, s)' => AskOK(d, s)') /\ (AtSet(d, s)' => SetOK(d, s)')
    <2>1. run'[d] = run[d] /\ run[d].since \in Tokens
      BY <1>1, CommandIs
    <2>2. AtAsk(d, s)' = AtAsk(d, s) /\ AtSet(d, s)' = AtSet(d, s)
      BY <2>1 DEF AtAsk, AtSet
    <2>3. ASSUME AtAsk(d, s) PROVE AskOK(d, s)'
      <3>1. AskOK(d, s)
        BY <1>1, <2>3 DEF AtSource
      <3>2. FitsAt(s, run[d].since)'
        BY <1>3, <2>1, <3>1 DEF AskOK, FitsAt
      <3>3. ASSUME s \notin gaps' PROVE TokenCovers(s, run[d].since)'
        BY <1>5, <2>1, <3>1, <3>3 DEF AskOK, TokenCovers
      <3> QED BY <2>1, <3>2, <3>3 DEF AskOK
    <2>4. ASSUME AtSet(d, s) PROVE SetOK(d, s)'
      <3>1. SetOK(d, s)
        BY <1>1, <2>4 DEF AtSource
      <3>2. FitsAt(s, run[d].since)'
        BY <1>3, <2>1, <3>1 DEF SetOK, FitsAt
      <3>3. ASSUME s \notin gaps', NEW i \in DOMAIN Log(s) PROVE Reports(d, s, i)' \/ StillTold(s, run[d].since, i)'
        <4>1. Reports(d, s, i)' = Reports(d, s, i)
          BY <2>1, SameWorld DEF Reports
        <4>2. Reports(d, s, i) \/ StillTold(s, run[d].since, i)
          BY <3>1, <3>3 DEF SetOK
        <4>3. StillTold(s, run[d].since, i) => StillTold(s, run[d].since, i)'
          BY <1>4, <2>1, <3>3 DEF StillTold
        <4> QED BY <4>1, <4>2, <4>3
      <3>4. ASSUME s \notin gaps', run[d].answers[s].upto = Len(Log(s)) PROVE Quiet(s, run[d].since)'
        BY <2>1, <3>1, <3>4, SameWorld DEF SetOK, Quiet
      <3> QED BY <2>1, <3>2, <3>3, <3>4, SameWorld DEF SetOK
    <2> QED BY <2>2, <2>3, <2>4
  <1> QED BY <1>2, <1>8, <1>9

\* A step of command c that leaves the command, the tokens it touches and the sources it
\* is at right, and what was past in the past, leaves all right.
LEMMA StepDone ==
  ASSUME DetectInv, UNCHANGED <<project, clock, source>>, NEW c \in Procs,
         run' \in [Procs -> CommandTypes], \A d \in Procs \ {c} : run'[d] = run[d],
         token' \in [Sources -> Tokens], told' \in [Sources -> SUBSET Nat], asked' \in [Sources -> Nat],
         settled' \subseteq Sources, gaps \subseteq gaps', gaps' \subseteq Sources, CommandOK(c)',
         \A s \in Sources : asked[s] <= asked'[s] /\ asked'[s] <= clock,
         \A s \in Sources : \A i \in DOMAIN Log(s) : s \notin gaps' /\ Past(s, i) => Past(s, i)',
         \A s \in Sources : token'[s] = NoToken => token[s] = NoToken,
         \A s \in Sources : StoredOK(s)' \/ (token'[s] = token[s] /\ (s \in settled' => s \in settled)),
         \A s \in Sources : (AtAsk(c, s)' => AskOK(c, s)') /\ (AtSet(c, s)' => SetOK(c, s)')
  PROVE  DetectInv'
  <1>1. DetectTypeOK'
    BY SameWorld DEF DetectInv, DetectTypeOK
  <1>2. ASSUME NEW d \in Procs PROVE CommandOK(d)'
    <2>1. CASE d = c
      BY <2>1
    <2>2. CASE d # c
      <3>1. run'[d] = run[d] /\ CommandOK(d)
        BY <2>2 DEF DetectInv
      <3> QED BY <3>1, SameWorld DEF CommandOK
    <2> QED BY <2>1, <2>2
  <1>3. ASSUME NEW s \in Sources PROVE AtSource(s)'
    <2>1. LogsOK(s)' /\ StoredOK(s)'
      BY OthersStay
    <2>2. \A d \in Procs \ {c} : (AtAsk(d, s)' => AskOK(d, s)') /\ (AtSet(d, s)' => SetOK(d, s)')
      BY OthersStay
    <2> QED BY <2>1, <2>2 DEF AtSource
  <1> QED BY <1>1, <1>2, <1>3, SameWorld DEF DetectInv

LEMMA StartKeeps ==
  ASSUME DetectInv, NEW c \in Procs, Start(c)
  PROVE  DetectInv'
  <1>1. DetectTypeOK /\ CommandOK(c)
    BY DEF DetectInv
  <1>2. PICK k \in project.commands : run' = [run EXCEPT ![c].pc = "next", ![c].command = k]
    BY DEF Start
  <1>3. run[c].pc = "idle" /\ UNCHANGED <<project, clock, source, token, told, asked, settled, gaps>>
    BY DEF Start, world, history
  <1>4. run \in [Procs -> CommandTypes] /\ run[c] \in CommandTypes /\ k \in {"detect", "plan"}
    BY <1>1, ProjectIs DEF DetectTypeOK
  <1>5. run'[c] = [run[c] EXCEPT !.pc = "next", !.command = k] /\ \A d \in Procs \ {c} : run'[d] = run[d]
    BY <1>2, <1>4 DEF CommandTypes
  <1>6. run'[c].pc = "next" /\ run'[c].at = run[c].at /\ run'[c].answers = run[c].answers
    BY <1>4, <1>5 DEF CommandTypes
  <1>7. [run[c] EXCEPT !.pc = "next", !.command = k] \in CommandTypes
    BY <1>4 DEF CommandTypes
  <1>8. run' \in [Procs -> CommandTypes]
    BY <1>2, <1>4, <1>5, <1>7
  <1>9. run[c].at = 1 /\ Len(run[c].answers) = 0 /\ DOMAIN run[c].answers = {}
    BY <1>1, <1>3, CommandIs DEF CommandOK
  <1>10. CommandOK(c)'
    BY <1>1, <1>3, <1>6, <1>9, SameWorld DEF CommandOK
  <1>11. ASSUME NEW s \in Sources, NEW i \in DOMAIN Log(s), Past(s, i) PROVE Past(s, i)'
    <2>1. ~Reports(c, s, i)
      BY <1>9 DEF Reports
    <2>2. told[s] \subseteq told'[s]
      BY <1>3
    <2> QED BY <1>3, <1>5, <1>11, <2>1, <2>2, PastStays
  <1>12. \A s \in Sources : ~AtAsk(c, s)' /\ ~AtSet(c, s)'
    BY <1>6 DEF AtAsk, AtSet
  <1>13. \A s \in Sources : asked[s] <= asked[s] /\ asked[s] <= clock
    BY <1>1, SourceIs DEF DetectInv, AtSource, LogsOK
  <1> QED BY <1>1, <1>3, <1>5, <1>8, <1>10, <1>11, <1>12, <1>13, StepDone DEF DetectTypeOK

LEMMA GetTokenKeeps ==
  ASSUME DetectInv, NEW c \in Procs, GetToken(c)
  PROVE  DetectInv'
  <1>1. DetectTypeOK /\ CommandOK(c)
    BY DEF DetectInv
  <1> DEFINE here == run[c].at
  <1>2. run[c].pc = "next" /\ here \in Sources /\ run' = [run EXCEPT ![c].pc = "ask", ![c].since = token[here]]
    BY DEF GetToken
  <1>3. UNCHANGED <<project, clock, source, token, told, asked, settled, gaps>>
    BY DEF GetToken, world, history
  <1>4. run \in [Procs -> CommandTypes] /\ run[c] \in CommandTypes /\ token[here] \in Tokens
    BY <1>1, <1>2 DEF DetectTypeOK
  <1>5. run'[c] = [run[c] EXCEPT !.pc = "ask", !.since = token[here]] /\ \A d \in Procs \ {c} : run'[d] = run[d]
    BY <1>2, <1>4 DEF CommandTypes
  <1>6. /\ run'[c].pc = "ask" /\ run'[c].at = here /\ run'[c].answers = run[c].answers
        /\ run'[c].since = token[here] /\ run'[c].command = run[c].command
    BY <1>4, <1>5 DEF CommandTypes
  <1>7. [run[c] EXCEPT !.pc = "ask", !.since = token[here]] \in CommandTypes
    BY <1>4 DEF CommandTypes
  <1>8. run' \in [Procs -> CommandTypes]
    BY <1>2, <1>4, <1>5, <1>7
  <1>9. CommandOK(c)'
    BY <1>1, <1>2, <1>3, <1>6, SameWorld DEF CommandOK
  <1>10. ASSUME NEW s \in Sources, NEW i \in DOMAIN Log(s), Past(s, i) PROVE Past(s, i)'
    <2>1. Reports(c, s, i)' = Reports(c, s, i) /\ ~AtSet(c, s)'
      BY <1>3, <1>6, SameWorld DEF Reports, AtSet
    <2>2. told[s] \subseteq told'[s]
      BY <1>3
    <2> QED BY <1>3, <1>5, <1>10, <2>1, <2>2, PastStays
  <1>11. \A s \in Sources : asked[s] <= asked[s] /\ asked[s] <= clock
    BY <1>1, SourceIs DEF DetectInv, AtSource, LogsOK
  <1>12. ASSUME NEW s \in Sources PROVE StoredOK(s)'
    <2>1. asked'[s] \in Nat /\ asked[s] <= asked'[s] /\ asked'[s] <= clock
      BY <1>1, <1>3, <1>11, SourceIs
    <2>2. \A i \in DOMAIN Log(s) : s \notin gaps' /\ Past(s, i) => Past(s, i)'
      BY <1>10
    <2> QED BY <1>3, <1>5, <2>1, <2>2, OthersStay
  <1>13. ASSUME NEW s \in Sources PROVE (AtAsk(c, s)' => AskOK(c, s)') /\ ~AtSet(c, s)'
    <2>1. ASSUME AtAsk(c, s)' PROVE run'[c].since = token'[s]
      BY <1>3, <1>6, <2>1 DEF AtAsk
    <2> QED BY <1>6, <1>12, <2>1 DEF StoredOK, AskOK, AtSet, FitsAt, TokenCovers, StillTold
  <1> QED BY <1>1, <1>3, <1>5, <1>8, <1>9, <1>10, <1>11, <1>12, <1>13, StepDone DEF DetectTypeOK

\* What the source answers tells every write outside the gaps that is not past.
LEMMA AskTells ==
  ASSUME DetectInv, NEW c \in Procs, NEW s \in Sources, AtAsk(c, s), s \notin gaps,
         ~RemovedBeforeBaseline(s, run[c].since), NEW i \in DOMAIN Log(s), ~Past(s, i)
  PROVE  Tells(Ask(s, run[c].since), Log(s)[i])
  <1>1. DetectTypeOK /\ LogsOK(s) /\ AskOK(c, s)
    BY DEF DetectInv, AtSource
  <1>2. TokenCovers(s, run[c].since)
    BY <1>1 DEF AskOK
  <1>3. CASE run[c].since # NoToken
    BY <1>2, <1>3 DEF TokenCovers, StillTold
  <1>4. CASE run[c].since = NoToken
    <2> DEFINE src == source[s]  kind == Kind(s)
    <2>1. src \in SourceTypes /\ kind \in SourceKinds /\ clock \in Nat /\ LogOK(kind, src, clock) /\ src.log = Log(s)
          /\ Len(src.log) \in Nat /\ DOMAIN src.log = 1 .. Len(src.log)
      BY <1>1, SourceIs DEF LogsOK, Log
    <2>2. kind = "iceberg" => src.first = 1
      BY <1>2, <1>4 DEF TokenCovers
    <2>3. kind = "delta" /\ src.checkpoint > 0 /\ src.readable => \A j \in 1 .. src.checkpoint : ~src.log[j].gone
      BY <1>4, <2>1 DEF RemovedBeforeBaseline, Baseline
    <2>4. i \in DOMAIN src.log
      BY <2>1
    <2> HIDE DEF src, kind
    <2>5. Tells(Changed(kind, src, NoToken), src.log[i])
      BY <2>1, <2>2, <2>3, <2>4, NoTokenTellsAll
    <2> QED BY <1>4, <2>1, <2>5 DEF Ask, src, kind
  <1> QED BY <1>3, <1>4

LEMMA AskSourceKeeps ==
  ASSUME DetectInv, NEW c \in Procs, AskSource(c)
  PROVE  DetectInv'
  <1>1. DetectTypeOK /\ CommandOK(c)
    BY DEF DetectInv
  <1> DEFINE here  == run[c].at
             since == run[c].since
             a     == Ask(here, since)
             entry == [parts |-> a.parts, complete |-> a.complete, upto |-> Len(Log(here))]
             pc    == IF a.token = NoToken THEN "next" ELSE "set"
             at    == IF a.token = NoToken THEN here + 1 ELSE here
             c2    == [run[c] EXCEPT !.since = a.token, !.pc = pc, !.at = at, !.answers = Append(run[c].answers, entry)]
  <1>2. /\ run[c].pc = "ask"
        /\ run' = [run EXCEPT ![c].since = a.token, ![c].pc = pc, ![c].at = IF a.token = NoToken THEN @ + 1 ELSE @,
                              ![c].answers = Append(@, entry)]
        /\ asked' = [asked EXCEPT ![here] = clock]
        /\ gaps' = IF RemovedBeforeBaseline(here, since) \/ (run[c].command = "plan" /\ ~a.complete)
                   THEN gaps \cup {here} ELSE gaps
    BY DEF AskSource
  <1>3. UNCHANGED <<project, clock, source, token, told, settled>>
    BY DEF AskSource, world
  <1>4. here \in Sources /\ here \in Nat \ {0} /\ AtAsk(c, here)
    BY <1>1, <1>2, CommandIs DEF CommandOK, AtAsk
  <1>5. AtSource(here) /\ AskOK(c, here)
    BY <1>4 DEF DetectInv, AtSource
  <1>6. AnswerOK(Kind(here), source[here], clock, a)
    <2>1. /\ source[here] \in SourceTypes /\ Kind(here) \in SourceKinds /\ clock \in Nat /\ clock > 0
          /\ asked[here] \in Nat /\ asked[here] <= clock /\ LogOK(Kind(here), source[here], clock)
          /\ TokenFits(Kind(here), source[here], since, asked[here])
      BY <1>1, <1>4, <1>5, SourceIs DEF AtSource, LogsOK, AskOK, FitsAt
    <2> QED BY <2>1, SourcesAnswer DEF Ask
  <1>7. entry \in AnswerTypes /\ a.token \in Tokens
    BY <1>1, <1>4, <1>6, SourceIs DEF AnswerOK, AnswerTypes
  <1>8. run \in [Procs -> CommandTypes] /\ run[c] \in CommandTypes /\ run[c].answers \in Seq(AnswerTypes)
    BY <1>1, CommandIs DEF DetectTypeOK
  <1>9. run' = [run EXCEPT ![c] = c2]
    BY <1>2, <1>8 DEF CommandTypes
  <1>10. c2 \in CommandTypes
    <2>1. Append(run[c].answers, entry) \in Seq(AnswerTypes)
      BY <1>7, <1>8, AppendProperties
    <2>2. pc \in {"next", "set"} /\ at \in Nat \ {0}
      BY <1>4
    <2> HIDE DEF pc, at, entry, a
    <2> QED BY <1>7, <1>8, <2>1, <2>2 DEF CommandTypes
  <1>11. run'[c] = c2 /\ (\A d \in Procs \ {c} : run'[d] = run[d]) /\ run' \in [Procs -> CommandTypes]
    <2> HIDE DEF c2
    <2> QED BY <1>8, <1>9, <1>10
  <1>12. /\ run'[c].pc = pc /\ run'[c].at = at /\ run'[c].since = a.token /\ run'[c].command = run[c].command
         /\ run'[c].answers = Append(run[c].answers, entry)
    <2> HIDE DEF pc, at, entry, a
    <2> QED BY <1>8, <1>11 DEF CommandTypes
  <1> HIDE DEF c2
  <1>13. /\ Len(run[c].answers) = here - 1 /\ DOMAIN run[c].answers = 1 .. here - 1
         /\ DOMAIN run'[c].answers = 1 .. here /\ Len(run'[c].answers) = here /\ run'[c].answers[here] = entry
         /\ \A s \in 1 .. here - 1 : run'[c].answers[s] = run[c].answers[s]
    <2>1. Len(run[c].answers) = here - 1 /\ DOMAIN run[c].answers = 1 .. here - 1
      BY <1>1, <1>2, CommandIs DEF CommandOK
    <2> HIDE DEF entry, here
    <2> QED BY <1>4, <1>7, <1>8, <1>12, <2>1, AppendProperties
  <1>14. CommandOK(c)'
    <2>1. pc = "set" => at = here /\ a.token # NoToken
      OBVIOUS
    <2>2. pc = "next" => at = here + 1
      OBVIOUS
    <2>3. pc \in {"next", "set"}
      OBVIOUS
    <2>4. ASSUME NEW s \in 1 .. here PROVE run'[c].answers[s].upto <= Len(Log(s))
      <3>1. CASE s = here
        <4>1. Len(Log(here)) \in Nat
          BY <1>1, <1>4, SourceIs
        <4> QED BY <1>13, <3>1, <4>1
      <3>2. CASE s # here
        <4>1. s \in 1 .. here - 1
          BY <1>4, <3>2
        <4> QED BY <1>1, <1>13, <4>1 DEF CommandOK
      <3> QED BY <3>1, <3>2
    <2>5. here - 1 \in Sources \cup {0}
      BY <1>1 DEF CommandOK
    <2>6. at - 1 \in Sources \cup {0} /\ (pc = "set" => at \in Sources) /\ (here = IF pc = "set" THEN at ELSE at - 1)
      <3> HIDE DEF here
      <3> QED BY <1>4, <2>1, <2>2, <2>3, <2>5
    <2> HIDE DEF here, pc, at, a, entry
    <2> QED BY <1>3, <1>4, <1>12, <1>13, <2>1, <2>3, <2>4, <2>6, SameWorld DEF CommandOK
  <1>15. ASSUME NEW s \in Sources, NEW i \in DOMAIN Log(s), Past(s, i) PROVE Past(s, i)'
    <2>1. ASSUME Reports(c, s, i) PROVE Reports(c, s, i)' /\ ~AtSet(c, s)'
      <3>1. s \in 1 .. here - 1 /\ s \in DOMAIN run'[c].answers /\ run'[c].answers[s] = run[c].answers[s]
        <4>1. s \in 1 .. here - 1
          BY <1>13, <2>1 DEF Reports
        <4> HIDE DEF here, entry
        <4> QED BY <1>4, <1>13, <4>1
      <3>2. Reports(c, s, i)'
        BY <1>3, <1>12, <2>1, <3>1, SameWorld DEF Reports
      <3>3. at >= here
        BY <1>4
      <3>4. run'[c].at # s
        <4> HIDE DEF here, at
        <4> QED BY <1>4, <1>12, <3>1, <3>3
      <3> QED BY <3>2, <3>4 DEF AtSet
    <2>2. told[s] \subseteq told'[s]
      BY <1>3
    <2> HIDE DEF here, pc, at, a, entry
    <2> QED BY <1>3, <1>11, <1>15, <2>1, <2>2, PastStays
  <1>16. ASSUME NEW s \in Sources PROVE asked[s] <= asked'[s] /\ asked'[s] <= clock /\ asked'[s] \in Nat
    <2>1. asked[s] \in Nat /\ clock \in Nat /\ asked[s] <= clock
      BY <1>1, SourceIs DEF DetectInv, AtSource, LogsOK
    <2>2. asked'[s] = IF s = here THEN clock ELSE asked[s]
      BY <1>1, <1>2 DEF DetectTypeOK
    <2> HIDE DEF here
    <2> QED BY <2>1, <2>2
  <1>17. gaps \subseteq gaps' /\ gaps' \subseteq Sources
    BY <1>1, <1>2, <1>4 DEF DetectTypeOK
  <1>18. ASSUME NEW s \in Sources, AtSet(c, s)' PROVE SetOK(c, s)'
    <2>1. pc = "set" /\ s = here /\ a.token # NoToken
      BY <1>12, <1>18 DEF AtSet
    <2>2. FitsAt(s, run[c].since)'
      <3>1. TokenFits(Kind(here), source[here], a.token, clock)
        BY <1>6 DEF AnswerOK
      <3>2. asked'[here] = clock
        BY <1>1, <1>2, <1>4 DEF DetectTypeOK
      <3> HIDE DEF here, pc, at, a, entry
      <3> QED BY <1>3, <1>12, <2>1, <3>1, <3>2, SameWorld DEF FitsAt
    <2>3. ASSUME s \notin gaps', NEW i \in DOMAIN Log(s) PROVE Reports(c, s, i)' \/ Past(s, i)'
      <3>1. ~RemovedBeforeBaseline(here, since) /\ ~(run[c].command = "plan" /\ ~a.complete) /\ here \notin gaps
        BY <1>2, <2>1, <2>3
      <3>2. CASE Past(s, i)
        BY <1>15, <3>2
      <3>3. CASE ~Past(s, i)
        <4>1. Tells(a, Log(s)[i])
          BY <1>4, <2>1, <3>1, <3>3, AskTells
        <4>2. Names(a.parts, Log(s)[i]) \/ (run[c].command = "detect" /\ ~a.complete)
          BY <1>1, <3>1, <4>1, CommandIs DEF Tells
        <4>3. i \in 1 .. Len(Log(here))
          BY <1>1, <1>4, <2>1, <2>3, SourceIs
        <4>4. i \in Reported(s, entry, run[c].command)
          BY <2>1, <4>2, <4>3 DEF Reported
        <4>5. here \in 1 .. here
          BY <1>4
        <4> HIDE DEF here, pc, at, a, entry
        <4> QED BY <1>3, <1>12, <1>13, <2>1, <4>4, <4>5, SameWorld DEF Reports
      <3> QED BY <3>2, <3>3
    <2>4. Quiet(s, run[c].since)'
      <3>1. Kind(here) # "watermark" => Changed(Kind(here), source[here], a.token).parts = {}
        BY <1>6, <2>1 DEF AnswerOK
      <3> HIDE DEF here, pc, at, a, entry
      <3> QED BY <1>3, <1>12, <2>1, <3>1, SameWorld DEF Quiet, Ask
    <2> HIDE DEF here, pc, at, a, entry
    <2> QED BY <1>3, <2>2, <2>3, <2>4, SameWorld DEF SetOK, StillTold
  <1>19. \A s \in Sources : ~AtAsk(c, s)'
    BY <1>12 DEF AtAsk
  <1>20. asked' \in [Sources -> Nat]
    BY <1>1, <1>2 DEF DetectTypeOK
  <1> HIDE DEF here, pc, at, a, entry, since
  <1> QED BY <1>1, <1>3, <1>11, <1>14, <1>15, <1>16, <1>17, <1>18, <1>19, <1>20, StepDone DEF DetectTypeOK

LEMMA SetTokenKeeps ==
  ASSUME DetectInv, NEW c \in Procs, SetToken(c)
  PROVE  DetectInv'
  <1>1. DetectTypeOK /\ CommandOK(c)
    BY DEF DetectInv
  <1> DEFINE here  == run[c].at
             since == run[c].since
             c2    == [run[c] EXCEPT !.pc = "next", !.at = here + 1, !.since = NoToken]
  <1>2. /\ run[c].pc = "set" /\ token' = [token EXCEPT ![here] = since]
        /\ settled' = IF Last(run[c].answers).upto = Len(Log(here)) THEN settled \cup {here} ELSE settled \ {here}
        /\ run' = [run EXCEPT ![c].pc = "next", ![c].at = @ + 1, ![c].since = NoToken]
    BY DEF SetToken
  <1>3. UNCHANGED <<project, clock, source, told, asked, gaps>>
    BY DEF SetToken, world
  <1>4. here \in Sources /\ here \in Nat \ {0} /\ AtSet(c, here) /\ since # NoToken /\ since \in Tokens
        /\ Len(run[c].answers) = here
    BY <1>1, <1>2, CommandIs DEF CommandOK, AtSet
  <1>5. SetOK(c, here) /\ LogsOK(here)
    BY <1>4 DEF DetectInv, AtSource
  <1>6. run \in [Procs -> CommandTypes] /\ run[c] \in CommandTypes
    BY <1>1 DEF DetectTypeOK
  <1>7. run' = [run EXCEPT ![c] = c2] /\ c2 \in CommandTypes
    BY <1>2, <1>4, <1>6 DEF CommandTypes, Tokens
  <1>8. run'[c] = c2 /\ (\A d \in Procs \ {c} : run'[d] = run[d]) /\ run' \in [Procs -> CommandTypes]
    <2> HIDE DEF c2
    <2> QED BY <1>6, <1>7
  <1>9. /\ run'[c].pc = "next" /\ run'[c].at = here + 1 /\ run'[c].command = run[c].command
        /\ run'[c].answers = run[c].answers
    BY <1>6, <1>8 DEF CommandTypes
  <1> HIDE DEF c2
  <1>10. CommandOK(c)'
    <2>1. here + 1 - 1 = here
      BY <1>4
    <2> HIDE DEF here
    <2> QED BY <1>1, <1>3, <1>4, <1>9, <2>1, SameWorld DEF CommandOK
  <1>11. ASSUME NEW s, NEW i, Reports(c, s, i) PROVE Past(s, i)'
    BY <1>3, <1>9, <1>11, SameWorld DEF Past, Reports, AtSet
  <1>12. ASSUME NEW s \in Sources, NEW i \in DOMAIN Log(s), Past(s, i) PROVE Past(s, i)'
    <2>1. Reports(c, s, i)' = Reports(c, s, i) /\ ~AtSet(c, s)'
      BY <1>3, <1>9, SameWorld DEF Reports, AtSet
    <2>2. told[s] \subseteq told'[s]
      BY <1>3
    <2> QED BY <1>3, <1>8, <1>12, <2>1, <2>2, PastStays
  <1>13. token' \in [Sources -> Tokens] /\ settled' \subseteq Sources
    BY <1>1, <1>2, <1>4 DEF DetectTypeOK
  <1>14. \A s \in Sources : token'[s] = IF s = here THEN since ELSE token[s]
    BY <1>1, <1>2 DEF DetectTypeOK
  <1>15. ASSUME NEW s \in Sources PROVE StoredOK(s)' \/ (token'[s] = token[s] /\ (s \in settled' => s \in settled))
    <2>1. CASE s = here
      <3>1. FitsAt(s, token[s])'
        BY <1>3, <1>5, <1>14, <2>1, SameWorld DEF SetOK, FitsAt
      <3>2. ASSUME s \notin gaps' PROVE TokenCovers(s, token[s])'
        <4>1. ASSUME NEW i \in DOMAIN Log(s) PROVE Past(s, i)' \/ Tells(Ask(s, since), Log(s)[i])
          BY <1>3, <1>5, <1>11, <1>12, <2>1, <3>2, <4>1 DEF SetOK, StillTold
        <4>2. token'[s] = since
          BY <1>14, <2>1
        <4> HIDE DEF here, since
        <4> QED BY <1>3, <1>4, <4>1, <4>2, SameWorld DEF TokenCovers, StillTold
      <3>3. ASSUME s \notin gaps', s \in settled' PROVE Quiet(s, token[s])'
        <4>1. run[c].answers[here].upto = Len(Log(here))
          BY <1>2, <1>4, <2>1, <3>3 DEF Last
        <4>2. Quiet(s, since)
          BY <1>3, <1>5, <2>1, <3>3, <4>1 DEF SetOK
        <4> QED BY <1>3, <1>14, <2>1, <4>2, SameWorld DEF Quiet
      <3> QED BY <1>4, <1>14, <2>1, <3>1, <3>2, <3>3 DEF StoredOK
    <2>2. CASE s # here
      BY <1>2, <1>14, <2>2
    <2> QED BY <2>1, <2>2
  <1>16. \A s \in Sources : asked'[s] = asked[s] /\ asked[s] <= asked'[s] /\ asked'[s] <= clock
    BY <1>1, <1>3, SourceIs DEF DetectInv, AtSource, LogsOK
  <1>17. \A s \in Sources : ~AtAsk(c, s)' /\ ~AtSet(c, s)'
    BY <1>9 DEF AtAsk, AtSet
  <1>18. \A s \in Sources : token'[s] = NoToken => token[s] = NoToken
    BY <1>4, <1>14
  <1> HIDE DEF here, since
  <1> QED BY <1>1, <1>3, <1>8, <1>10, <1>12, <1>13, <1>15, <1>16, <1>17, <1>18, StepDone DEF DetectTypeOK

LEMMA IdleIs == Idle \in CommandTypes /\ Idle.pc = "idle" /\ Idle.at = 1 /\ Idle.answers = << >>
  <1>1. << >> \in Seq(AnswerTypes)
    BY EmptySeq
  <1> QED BY <1>1 DEF Idle, CommandTypes, Tokens

\* A command that ends leaves what it would have reported: told, or in a gap.
LEMMA EndKeeps ==
  ASSUME DetectInv, NEW c \in Procs, run' = [run EXCEPT ![c] = Idle],
         UNCHANGED <<project, clock, source, token, asked, settled>>, told' \in [Sources -> SUBSET Nat],
         gaps \subseteq gaps', gaps' \subseteq Sources, \A s \in Sources : told[s] \subseteq told'[s],
         \A s \in Sources : \A i : s \notin gaps' /\ Reports(c, s, i) /\ ~AtSet(c, s) => i \in told'[s]
  PROVE  DetectInv'
  <1>1. DetectTypeOK /\ run \in [Procs -> CommandTypes]
    BY DEF DetectInv, DetectTypeOK
  <1>2. run'[c] = Idle /\ (\A d \in Procs \ {c} : run'[d] = run[d]) /\ run' \in [Procs -> CommandTypes]
    BY <1>1, IdleIs
  <1>3. CommandOK(c)'
    <2>1. Len(<< >>) = 0 /\ DOMAIN << >> = {}
      OBVIOUS
    <2> QED BY <1>2, <2>1, IdleIs DEF CommandOK
  <1>4. ASSUME NEW s \in Sources, NEW i \in DOMAIN Log(s), s \notin gaps', Past(s, i) PROVE Past(s, i)'
    BY <1>2, <1>4, PastStays
  <1>5. \A s \in Sources : asked[s] <= asked'[s] /\ asked'[s] <= clock
    BY <1>1, SourceIs DEF DetectInv, AtSource, LogsOK
  <1>6. \A s \in Sources : ~AtAsk(c, s)' /\ ~AtSet(c, s)'
    BY <1>2, IdleIs DEF AtAsk, AtSet
  <1> QED BY <1>1, <1>2, <1>3, <1>4, <1>5, <1>6, StepDone DEF DetectTypeOK

LEMMA ReportKeeps ==
  ASSUME DetectInv, NEW c \in Procs, Report(c)
  PROVE  DetectInv'
  <1>1. DetectTypeOK /\ CommandOK(c)
    BY DEF DetectInv
  <1>2. /\ run[c].pc = "next" /\ run[c].at \notin Sources /\ run' = [run EXCEPT ![c] = Idle]
        /\ told' = [s \in Sources |-> told[s] \cup Reported(s, run[c].answers[s], run[c].command)]
        /\ UNCHANGED <<project, clock, source, token, asked, settled, gaps>>
    BY DEF Report, world
  <1>3. \A s \in Sources : s \in DOMAIN run[c].answers
    <2>1. DOMAIN run[c].answers = 1 .. run[c].at - 1 /\ run[c].at \in Nat \ {0} /\ run[c].at - 1 \in Sources \cup {0}
      BY <1>1, <1>2, CommandIs DEF CommandOK
    <2>2. Sources = 1 .. Len(project.sources) /\ Len(project.sources) \in Nat
      BY <1>1, ProjectIs DEF DetectTypeOK
    <2> QED BY <1>2, <2>1, <2>2
  <1>4. ASSUME NEW s \in Sources PROVE Reported(s, run[c].answers[s], run[c].command) \subseteq Nat
    <2>1. run[c].answers[s].upto \in Nat
      BY <1>1, <1>3, CommandIs DEF AnswerTypes
    <2> QED BY <2>1 DEF Reported
  <1>5. told' \in [Sources -> SUBSET Nat]
    BY <1>1, <1>2, <1>4 DEF DetectTypeOK
  <1>6. \A s \in Sources : \A i : Reports(c, s, i) => i \in told'[s]
    BY <1>2 DEF Reports
  <1>7. gaps \subseteq Sources /\ \A s \in Sources : told[s] \subseteq told'[s]
    BY <1>1, <1>2 DEF DetectTypeOK
  <1> QED BY <1>2, <1>5, <1>6, <1>7, EndKeeps

LEMMA BreakKeeps ==
  ASSUME DetectInv, NEW c \in Procs, Break(c)
  PROVE  DetectInv'
  <1>1. DetectTypeOK /\ CommandOK(c)
    BY DEF DetectInv
  <1>2. /\ run' = [run EXCEPT ![c] = Idle]
        /\ gaps' = gaps \cup {s \in DOMAIN run[c].answers : run[c].pc # "set" \/ s # run[c].at}
        /\ UNCHANGED <<project, clock, source, token, told, asked, settled>>
    BY DEF Break, world
  <1>3. DOMAIN run[c].answers \subseteq Sources
    <2>1. DOMAIN run[c].answers = 1 .. (IF run[c].pc = "set" THEN run[c].at ELSE run[c].at - 1) /\ run[c].at \in Nat \ {0}
          /\ run[c].at - 1 \in Sources \cup {0} /\ (run[c].pc = "set" => run[c].at \in Sources)
      BY <1>1, CommandIs DEF CommandOK
    <2>2. Sources = 1 .. Len(project.sources) /\ Len(project.sources) \in Nat
      BY <1>1, ProjectIs DEF DetectTypeOK
    <2> QED BY <2>1, <2>2
  <1>4. \A s \in Sources : \A i : s \notin gaps' /\ Reports(c, s, i) /\ ~AtSet(c, s) => i \in told'[s]
    BY <1>2 DEF Reports, AtSet
  <1>5. gaps \subseteq gaps' /\ gaps' \subseteq Sources /\ told' \in [Sources -> SUBSET Nat]
    BY <1>1, <1>2, <1>3 DEF DetectTypeOK
  <1> QED BY <1>2, <1>4, <1>5, EndKeeps

\* A source that is written to or condensed, where what the tokens told they still tell and
\* what is new they tell too: all stays right.
LEMMA SourceKeeps ==
  ASSUME DetectInv, NEW s \in Sources, NEW src2 \in SourceTypes, source' = [source EXCEPT ![s] = src2],
         UNCHANGED <<project, clock, token, run, told, asked>>, settled' \subseteq settled, gaps \subseteq gaps',
         gaps' \subseteq Sources, Len(Log(s)) <= Len(src2.log),
         \A i \in DOMAIN Log(s) : i \in DOMAIN src2.log /\ src2.log[i] = Log(s)[i],
         LogOK(Kind(s), src2, clock),
         \A t, last : TokenFits(Kind(s), source[s], t, last) => TokenFits(Kind(s), src2, t, last),
         token[s] = NoToken => \A i \in DOMAIN src2.log : ~src2.log[i].gone,
         s \notin gaps' /\ Kind(s) = "iceberg" => InOrder(src2) /\ (NoToken \in Held(s) => src2.first = 1),
         \A t \in Held(s) : t # NoToken /\ s \notin gaps' =>
            /\ \A i \in DOMAIN Log(s) : Tells(Ask(s, t), Log(s)[i]) => Tells(Changed(Kind(s), src2, t), Log(s)[i])
            /\ \A i \in DOMAIN src2.log \ DOMAIN Log(s) : Tells(Changed(Kind(s), src2, t), src2.log[i])
            /\ \/ Len(src2.log) = Len(Log(s))
                  /\ (Ask(s, t).parts = {} => Changed(Kind(s), src2, t).parts = {})
               \/ Len(Log(s)) < Len(src2.log) /\ s \notin settled'
  PROVE  DetectInv'
  <1>1. DetectTypeOK
    BY DEF DetectInv
  <1>2. Sources' = Sources /\ \A r : Kind(r)' = Kind(r)
    BY DEF Sources, Kind
  <1>3. source'[s] = src2 /\ (\A r \in Sources \ {s} : source'[r] = source[r]) /\ source' \in [Sources -> SourceTypes]
    BY <1>1 DEF DetectTypeOK
  <1>4. Log(s)' = src2.log /\ \A r \in Sources \ {s} : Log(r)' = Log(r) /\ \A t : Ask(r, t)' = Ask(r, t)
    BY <1>2, <1>3 DEF Log, Ask
  <1>5. \A t : Ask(s, t)' = Changed(Kind(s), src2, t)
    BY <1>2, <1>3 DEF Ask
  <1>6. DetectTypeOK'
    BY <1>1, <1>2, <1>3 DEF DetectTypeOK
  <1>7. \A r \in Sources : Len(Log(r)) \in Nat /\ DOMAIN Log(r) = 1 .. Len(Log(r))
    BY <1>1, SourceIs
  <1>8. Len(src2.log) \in Nat /\ DOMAIN src2.log = 1 .. Len(src2.log)
    BY LenProperties DEF SourceTypes, WriteLogs
  <1>9. ASSUME NEW r \in Sources
        PROVE  Len(Log(r)) <= Len(Log(r)') /\ \A i \in DOMAIN Log(r) : i \in DOMAIN Log(r)' /\ Log(r)'[i] = Log(r)[i]
    BY <1>4, <1>7
  <1>10. ASSUME NEW c \in Procs PROVE CommandOK(c)'
    <2>1. CommandOK(c) /\ DOMAIN run[c].answers = 1 .. Len(run[c].answers) /\ Len(run[c].answers) \in Nat
          /\ run[c].at \in Nat \ {0}
      BY <1>1, CommandIs DEF DetectInv
    <2>2. DOMAIN run[c].answers \subseteq Sources
      BY <1>1, <2>1, ProjectIs DEF CommandOK, DetectTypeOK
    <2>3. ASSUME NEW r \in DOMAIN run[c].answers PROVE run[c].answers[r].upto <= Len(Log(r)')
      <3>1. run[c].answers[r].upto <= Len(Log(r)) /\ Len(Log(r)) <= Len(Log(r)')
        BY <1>9, <2>1, <2>2 DEF CommandOK
      <3>2. run[c].answers[r].upto \in Nat /\ Len(Log(r)) \in Nat /\ Len(Log(r)') \in Nat
        BY <1>1, <1>4, <1>7, <1>8, <2>2, CommandIs DEF AnswerTypes
      <3> QED BY <3>1, <3>2
    <2> QED BY <1>2, <2>1, <2>3 DEF CommandOK
  <1>11. ASSUME NEW c \in Procs, NEW r \in Sources, NEW i
         PROVE  Reports(c, r, i)' = Reports(c, r, i) /\ (Reports(c, r, i) => i \in DOMAIN Log(r))
    <2>1. ASSUME r \in DOMAIN run[c].answers, i \in 1 .. run[c].answers[r].upto
          PROVE  i \in DOMAIN Log(r) /\ Log(r)'[i] = Log(r)[i]
      <3>1. run[c].answers[r].upto <= Len(Log(r)) /\ run[c].answers[r].upto \in Nat
        BY <1>1, <2>1, CommandIs DEF DetectInv, CommandOK, AnswerTypes
      <3>2. i \in DOMAIN Log(r)
        BY <1>7, <2>1, <3>1
      <3> QED BY <1>9, <3>2
    <2> QED BY <2>1 DEF Reports, Reported
  <1>12. ASSUME NEW r \in Sources, NEW i PROVE Past(r, i)' = Past(r, i)
    BY <1>11 DEF Past, AtSet
  <1>13. ASSUME NEW r \in Sources \ {s} PROVE AtSource(r)'
    <2>1. AtSource(r)
      BY DEF DetectInv
    <2>2. \A t : FitsAt(r, t)' = FitsAt(r, t) /\ Quiet(r, t)' = Quiet(r, t)
      BY <1>2, <1>3, <1>4 DEF FitsAt, Quiet
    <2>3. \A t : TokenCovers(r, t)' = TokenCovers(r, t)
      BY <1>2, <1>3, <1>4, <1>12 DEF TokenCovers, StillTold
    <2>4. LogsOK(r)'
      BY <1>2, <1>3, <1>4, <2>1 DEF AtSource, LogsOK
    <2>5. StoredOK(r)'
      BY <2>1, <2>2, <2>3 DEF AtSource, StoredOK, FitsAt, Quiet, TokenCovers, StillTold
    <2>6. ASSUME NEW c \in Procs, AtAsk(c, r)' PROVE AskOK(c, r)'
      <3>1. AskOK(c, r)
        BY <2>1, <2>6 DEF AtSource, AtAsk
      <3> QED BY <2>2, <2>3, <3>1 DEF AskOK, FitsAt, TokenCovers, StillTold
    <2>7. ASSUME NEW c \in Procs, AtSet(c, r)' PROVE SetOK(c, r)'
      <3>1. SetOK(c, r)
        BY <2>1, <2>7 DEF AtSource, AtSet
      <3>2. \A i, t : StillTold(r, t, i)' = StillTold(r, t, i)
        BY <1>4, <1>12 DEF StillTold
      <3> QED BY <1>4, <1>11, <2>2, <3>1, <3>2 DEF SetOK, FitsAt, Quiet, StillTold
    <2> QED BY <2>4, <2>5, <2>6, <2>7 DEF AtSource
  <1>14. AtSource(s)'
    <2>1. LogsOK(s) /\ StoredOK(s) /\ AtSource(s)
      BY DEF DetectInv, AtSource
    <2>2. LogsOK(s)'
      BY <1>2, <1>3, <1>4, <2>1 DEF LogsOK
    <2>3. ASSUME NEW t, FitsAt(s, t) PROVE FitsAt(s, t)'
      BY <1>2, <1>3, <2>3 DEF FitsAt
    <2>4. ASSUME s \notin gaps', NEW t \in Held(s), t # NoToken, NEW i \in DOMAIN Log(s), StillTold(s, t, i)
          PROVE  StillTold(s, t, i)'
      BY <1>4, <1>5, <1>12, <2>4 DEF StillTold
    <2>5. ASSUME s \notin gaps', NEW t \in Held(s), t # NoToken, NEW i \in DOMAIN src2.log, i \notin DOMAIN Log(s)
          PROVE  StillTold(s, t, i)'
      BY <1>4, <1>5, <2>5 DEF StillTold
    <2>6. ASSUME s \notin gaps', NEW t \in Held(s), TokenCovers(s, t) PROVE TokenCovers(s, t)'
      <3>1. ASSUME t # NoToken, NEW i \in DOMAIN src2.log PROVE StillTold(s, t, i)'
        <4>1. CASE i \in DOMAIN Log(s)
          BY <2>4, <2>6, <3>1, <4>1 DEF TokenCovers
        <4>2. CASE i \notin DOMAIN Log(s)
          BY <2>5, <2>6, <3>1, <4>2
        <4> QED BY <4>1, <4>2
      <3> QED BY <1>2, <1>3, <1>4, <2>6, <3>1 DEF TokenCovers
    <2>7. token[s] \in Held(s) /\ \A c \in Procs : AtAsk(c, s) \/ AtSet(c, s) => run[c].since \in Held(s)
      BY DEF Held, AtAsk, AtSet
    <2>8. ASSUME s \notin gaps', NEW t \in Held(s), t # NoToken, Len(src2.log) = Len(Log(s)) \/ s \in settled', Quiet(s, t)
          PROVE  Quiet(s, t)'
      <3>1. Ask(s, t).parts = {} => Changed(Kind(s), src2, t).parts = {}
        BY <1>7, <1>8, <2>8
      <3> QED BY <1>2, <1>5, <2>8, <3>1 DEF Quiet
    <2>9. s \notin gaps' => s \notin gaps
      OBVIOUS
    <2>10. StoredOK(s)'
      <3>1. FitsAt(s, token[s])' /\ (s \in settled' => token'[s] # NoToken)
        BY <2>1, <2>3 DEF StoredOK, FitsAt
      <3>2. ASSUME s \notin gaps' PROVE TokenCovers(s, token[s])'
        BY <2>1, <2>6, <2>7, <2>9, <3>2 DEF StoredOK, TokenCovers, StillTold
      <3>3. ASSUME s \notin gaps', s \in settled' PROVE Quiet(s, token[s])'
        <4>1. Quiet(s, token[s]) /\ token[s] # NoToken
          BY <2>1, <2>9, <3>3 DEF StoredOK
        <4> QED BY <2>7, <2>8, <3>3, <4>1 DEF Quiet
      <3> QED BY <3>1, <3>2, <3>3 DEF StoredOK
    <2>11. ASSUME NEW c \in Procs, AtAsk(c, s)' PROVE AskOK(c, s)'
      <3>1. AskOK(c, s) /\ run[c].since \in Held(s)
        BY <2>1, <2>7, <2>11 DEF AtSource, AtAsk
      <3>2. FitsAt(s, run[c].since)'
        BY <2>3, <3>1 DEF AskOK, FitsAt
      <3>3. ASSUME s \notin gaps' PROVE TokenCovers(s, run[c].since)'
        BY <2>6, <2>9, <3>1, <3>3 DEF AskOK, TokenCovers, StillTold
      <3> QED BY <3>2, <3>3 DEF AskOK
    <2>12. ASSUME NEW c \in Procs, AtSet(c, s)' PROVE SetOK(c, s)'
      <3>1. SetOK(c, s) /\ run[c].since \in Held(s) /\ run[c].since # NoToken /\ AtSet(c, s)
            /\ run[c].answers[s].upto <= Len(Log(s)) /\ run[c].answers[s].upto \in Nat
        <4>1. AtSet(c, s) /\ CommandOK(c)
          BY <2>12 DEF AtSet, DetectInv
        <4>2. s \in DOMAIN run[c].answers
          BY <1>1, <4>1, CommandIs DEF CommandOK, AtSet
        <4> QED BY <1>1, <2>1, <2>7, <4>1, <4>2, CommandIs DEF AtSource, AtSet, CommandOK, AnswerTypes
      <3>2. FitsAt(s, run[c].since)'
        BY <2>3, <3>1 DEF SetOK, FitsAt
      <3>3. ASSUME s \notin gaps', NEW i \in DOMAIN src2.log PROVE Reports(c, s, i)' \/ StillTold(s, run[c].since, i)'
        <4>1. CASE i \notin DOMAIN Log(s)
          BY <2>5, <3>1, <3>3, <4>1 DEF StillTold
        <4>2. CASE i \in DOMAIN Log(s)
          <5>1. Reports(c, s, i) \/ StillTold(s, run[c].since, i)
            BY <2>9, <3>1, <3>3, <4>2 DEF SetOK
          <5>2. StillTold(s, run[c].since, i) => StillTold(s, run[c].since, i)'
            BY <2>4, <3>1, <3>3, <4>2 DEF StillTold
          <5> QED BY <1>11, <5>1, <5>2
        <4> QED BY <4>1, <4>2
      <3>4. ASSUME s \notin gaps', run[c].answers[s].upto = Len(src2.log) PROVE Quiet(s, run[c].since)'
        <4>1. Len(src2.log) = Len(Log(s))
          BY <1>7, <1>8, <3>1, <3>4
        <4>2. Quiet(s, run[c].since)
          BY <2>9, <3>1, <3>4, <4>1 DEF SetOK
        <4> QED BY <2>8, <3>1, <3>4, <4>1, <4>2 DEF Quiet
      <3> QED BY <1>4, <3>2, <3>3, <3>4 DEF SetOK
    <2> QED BY <2>2, <2>10, <2>11, <2>12 DEF AtSource
  <1> QED BY <1>2, <1>6, <1>10, <1>13, <1>14 DEF DetectInv

\* The tokens held of a source are its own; there is none to hold once a snapshot expired.
LEMMA HeldIs ==
  ASSUME DetectInv, NEW s \in Sources, NEW t \in Held(s)
  PROVE  FitsAt(s, t) /\ (s \notin gaps /\ t = NoToken /\ Kind(s) = "iceberg" => source[s].first = 1)
  <1>1. AtSource(s)
    BY DEF DetectInv
  <1>2. CASE t = token[s]
    BY <1>1, <1>2 DEF AtSource, StoredOK, TokenCovers
  <1>3. CASE t # token[s]
    <2>1. PICK c \in Procs : run[c].pc \in {"ask", "set"} /\ run[c].at = s /\ t = run[c].since
      BY <1>3 DEF Held
    <2>2. CASE AtAsk(c, s)
      BY <1>1, <2>1, <2>2 DEF AtSource, AskOK, TokenCovers
    <2>3. CASE AtSet(c, s)
      <3>1. SetOK(c, s) /\ t # NoToken
        BY <1>1, <2>1, <2>3 DEF AtSource, AtSet, DetectInv, CommandOK
      <3> QED BY <2>1, <3>1 DEF SetOK
    <2> QED BY <2>1, <2>2, <2>3 DEF AtAsk, AtSet
  <1> QED BY <1>2, <1>3

LEMMA WriteKeeps ==
  ASSUME DetectInv, NEW s \in Sources, NEW w \in Writes, Write(s, w)
  PROVE  DetectInv'
  <1> DEFINE kind == Kind(s)
             src  == source[s]
             src2 == [src EXCEPT !.log = Append(src.log, w)]
  <1>1. DetectTypeOK /\ LogsOK(s)
    BY DEF DetectInv, AtSource
  <1>2. /\ w.time = clock /\ (w.id # 0 <=> kind = "iceberg")
        /\ \A i \in DOMAIN src.log : w.id # 0 => src.log[i].id # w.id
        /\ w.gone => kind = "delta" /\ token[s] # NoToken
        /\ source' = [source EXCEPT ![s].log = Append(@, w)]
        /\ settled' = settled \ {s} /\ gaps' = IF MeetsGap(s, w) THEN gaps \cup {s} ELSE gaps
        /\ UNCHANGED <<project, clock, token, run, told, asked>>
    BY DEF Write, Log
  <1>3. /\ src \in SourceTypes /\ kind \in SourceKinds /\ asked[s] \in Nat /\ asked[s] <= clock /\ clock \in Nat
        /\ LogOK(kind, src, w.time) /\ Log(s) = src.log
    BY <1>1, <1>2, SourceIs DEF LogsOK, Log
  <1>4. source' = [source EXCEPT ![s] = src2]
    BY <1>2
  <1>5. WriteMakes(kind, src, w, src2)
    BY <1>2 DEF WriteMakes
  <1>6. ASSUME s \notin gaps' PROVE s \notin gaps /\ MissesGap(kind, src, w, asked[s])
    <2>1. ~MeetsGap(s, w) /\ s \notin gaps
      BY <1>2, <1>6
    <2>2. kind = "storage" => \A i \in DOMAIN src.log : src.log[i].etag # w.etag
      BY <1>3, <2>1 DEF MeetsGap
    <2>3. kind = "iceberg" => \A i \in DOMAIN src.log : ~(src.log[i].time = w.time /\ src.log[i].id > w.id)
      BY <1>3, <2>1 DEF MeetsGap
    <2>4. kind \in {"bigquery", "watermark"} => asked[s] # w.time
      BY <2>1 DEF MeetsGap
    <2>5. kind = "altered" => ~(asked[s] > 0 /\ Second(asked[s]) = Second(w.time))
      BY <2>1 DEF MeetsGap
    <2> QED BY <2>1, <2>2, <2>3, <2>4, <2>5 DEF MissesGap
  <1> HIDE DEF src2, kind, src
  <1>7. /\ src2 \in SourceTypes /\ src2.log = Append(src.log, w) /\ Len(src.log) \in Nat /\ Len(src2.log) = Len(src.log) + 1
        /\ DOMAIN src.log = 1 .. Len(src.log) /\ DOMAIN src2.log = 1 .. Len(src.log) + 1 /\ src2.log[Len(src2.log)] = w
        /\ \A i \in 1 .. Len(src.log) : src2.log[i] = src.log[i]
    BY <1>3, <1>5, WriteSeen
  <1>8. /\ LogOK(kind, src2, w.time) /\ \A t, last : TokenFits(kind, src, t, last) => TokenFits(kind, src2, t, last)
        /\ kind = "iceberg" /\ MissesGap(kind, src, w, 0) /\ InOrder(src) => InOrder(src2)
    BY <1>3, <1>5, WriteFits
  <1>9. token[s] = NoToken => \A i \in DOMAIN src2.log : ~src2.log[i].gone
    <2>1. ASSUME token[s] = NoToken PROVE ~w.gone /\ \A i \in DOMAIN src.log : ~src.log[i].gone
      BY <1>1, <1>2, <1>3, <2>1 DEF LogsOK
    <2>2. \A i \in DOMAIN src2.log : i \in DOMAIN src.log \/ src2.log[i] = w
      BY <1>7
    <2> QED BY <1>7, <2>1, <2>2
  <1>10. ASSUME s \notin gaps', kind = "iceberg" PROVE InOrder(src2) /\ (NoToken \in Held(s) => src2.first = 1)
    <2>1. MissesGap(kind, src, w, 0)
      BY <1>6, <1>10 DEF MissesGap
    <2>2. InOrder(src)
      BY <1>1, <1>6, <1>10 DEF LogsOK, kind, src
    <2>3. NoToken \in Held(s) => src.first = 1
      BY <1>6, <1>10, HeldIs DEF kind, src
    <2>4. src2.first = src.first
      BY <1>3, <1>5, WriteSeen
    <2> QED BY <1>8, <1>10, <2>1, <2>2, <2>3, <2>4
  <1>11. ASSUME NEW t \in Held(s), t # NoToken, s \notin gaps'
         PROVE  /\ \A v : Tells(Changed(kind, src, t), v) => Tells(Changed(kind, src2, t), v)
                /\ Tells(Changed(kind, src2, t), w)
    <2>1. TokenFits(kind, src, t, asked[s])
      BY HeldIs DEF FitsAt, kind, src
    <2> QED BY <1>2, <1>3, <1>5, <1>6, <1>11, <2>1, WriteTold
  <1>12. \A t : Ask(s, t) = Changed(kind, src, t)
    BY DEF Ask, kind, src
  <1>13. \A i \in DOMAIN src2.log \ DOMAIN src.log : src2.log[i] = w
    BY <1>7
  <1>14. gaps \subseteq gaps' /\ gaps' \subseteq Sources /\ settled' \subseteq settled /\ s \notin settled'
         /\ Len(src.log) < Len(src2.log)
    BY <1>1, <1>2, <1>7 DEF DetectTypeOK
  <1>15. \A i \in DOMAIN src.log : i \in DOMAIN src2.log /\ src2.log[i] = src.log[i]
    BY <1>7
  <1>16. \A t \in Held(s) : t # NoToken /\ s \notin gaps' =>
            /\ \A i \in DOMAIN Log(s) : Tells(Ask(s, t), Log(s)[i]) => Tells(Changed(Kind(s), src2, t), Log(s)[i])
            /\ \A i \in DOMAIN src2.log \ DOMAIN Log(s) : Tells(Changed(Kind(s), src2, t), src2.log[i])
            /\ Len(Log(s)) < Len(src2.log) /\ s \notin settled'
    BY <1>3, <1>11, <1>12, <1>13, <1>14 DEF kind
  <1>17. LogOK(Kind(s), src2, clock) /\ Len(Log(s)) <= Len(src2.log)
    BY <1>2, <1>3, <1>7, <1>8 DEF kind
  <1>18. /\ \A t, last : TokenFits(Kind(s), source[s], t, last) => TokenFits(Kind(s), src2, t, last)
         /\ \A i \in DOMAIN Log(s) : i \in DOMAIN src2.log /\ src2.log[i] = Log(s)[i]
         /\ s \notin gaps' /\ Kind(s) = "iceberg" => InOrder(src2) /\ (NoToken \in Held(s) => src2.first = 1)
    BY <1>3, <1>8, <1>10, <1>15 DEF kind, src
  <1> QED BY <1>2, <1>4, <1>7, <1>9, <1>14, <1>16, <1>17, <1>18, SourceKeeps

\* A source that is condensed: its log stays, and a token is answered alike.
LEMMA CondensedKeeps ==
  ASSUME DetectInv, NEW s \in Sources, NEW src2 \in SourceTypes, source' = [source EXCEPT ![s] = src2],
         UNCHANGED <<project, clock, token, run, told, asked, settled>>, gaps \subseteq gaps', gaps' \subseteq Sources,
         src2.log = source[s].log, LogOK(Kind(s), src2, clock),
         s \notin gaps' /\ Kind(s) = "iceberg" => NoToken \notin Held(s),
         \A t \in Held(s) : t # NoToken /\ s \notin gaps' => AnswersAlike(Kind(s), source[s], src2, t)
  PROVE  DetectInv'
  <1>1. DetectTypeOK /\ LogsOK(s)
    BY DEF DetectInv, AtSource
  <1>2. source[s] \in SourceTypes /\ Kind(s) \in SourceKinds /\ Log(s) = src2.log /\ Len(Log(s)) \in Nat
    BY <1>1, SourceIs DEF Log
  <1>3. /\ \A t, last : TokenFits(Kind(s), source[s], t, last) => TokenFits(Kind(s), src2, t, last)
        /\ InOrder(source[s]) => InOrder(src2)
    BY <1>2, CondensedFits
  <1>4. s \notin gaps' /\ Kind(s) = "iceberg" => InOrder(src2)
    BY <1>1, <1>3 DEF LogsOK
  <1>5. \A t \in Held(s) : t # NoToken /\ s \notin gaps' =>
            /\ \A i \in DOMAIN Log(s) : Tells(Ask(s, t), Log(s)[i]) => Tells(Changed(Kind(s), src2, t), Log(s)[i])
            /\ Ask(s, t).parts = {} => Changed(Kind(s), src2, t).parts = {}
    BY DEF AnswersAlike, Ask
  <1>6. token[s] = NoToken => \A i \in DOMAIN src2.log : ~src2.log[i].gone
    BY <1>1, <1>2 DEF LogsOK
  <1>7. Len(Log(s)) <= Len(src2.log) /\ Len(src2.log) = Len(Log(s)) /\ settled' \subseteq settled
    BY <1>2
  <1>8. \A i \in DOMAIN Log(s) : i \in DOMAIN src2.log /\ src2.log[i] = Log(s)[i]
    BY <1>2
  <1>9. DOMAIN src2.log \ DOMAIN Log(s) = {}
    BY <1>2
  <1> QED BY <1>3, <1>4, <1>5, <1>6, <1>7, <1>8, <1>9, SourceKeeps

LEMMA CheckpointStep ==
  ASSUME DetectInv, NEW s \in Sources, Checkpoint(s)
  PROVE  DetectInv'
  <1>1. DetectTypeOK /\ LogsOK(s)
    BY DEF DetectInv, AtSource
  <1>2. Kind(s) = "delta" /\ UNCHANGED <<project, clock, token, run, told, asked, settled, gaps>>
    BY DEF Checkpoint, history
  <1>3. PICK readable \in BOOLEAN :
          source' = [source EXCEPT ![s].checkpoint = Len(Log(s)), ![s].readable = readable]
    BY DEF Checkpoint
  <1> DEFINE src2 == [source[s] EXCEPT !.checkpoint = Len(source[s].log), !.readable = readable]
  <1>4. source' = [source EXCEPT ![s] = src2]
    BY <1>3 DEF Log
  <1>5. source[s] \in SourceTypes /\ LogOK("delta", source[s], clock)
    BY <1>1, <1>2, SourceIs DEF LogsOK
  <1> HIDE DEF src2
  <1>6. src2 \in SourceTypes /\ src2.log = source[s].log /\ LogOK("delta", src2, clock)
        /\ \A t : t # NoToken => AnswersAlike("delta", source[s], src2, t)
    BY <1>5, CheckpointKeeps DEF src2
  <1>7. gaps \subseteq Sources
    BY <1>1 DEF DetectTypeOK
  <1> QED BY <1>2, <1>4, <1>6, <1>7, CondensedKeeps

LEMMA CleanUpStep ==
  ASSUME DetectInv, NEW s \in Sources, CleanUp(s)
  PROVE  DetectInv'
  <1>1. DetectTypeOK /\ LogsOK(s)
    BY DEF DetectInv, AtSource
  <1>2. /\ Kind(s) = "delta" /\ source[s].first < source[s].checkpoint
        /\ source' = [source EXCEPT ![s].first = @ + 1]
        /\ gaps' = IF \E t \in Held(s) \ {NoToken} : source[s].first > t THEN gaps \cup {s} ELSE gaps
        /\ UNCHANGED <<project, clock, token, run, told, asked, settled>>
    BY DEF CleanUp
  <1> DEFINE src2 == [source[s] EXCEPT !.first = source[s].first + 1]
  <1>3. source' = [source EXCEPT ![s] = src2]
    BY <1>2
  <1>4. source[s] \in SourceTypes /\ LogOK("delta", source[s], clock) /\ source[s].first \in Nat
        /\ Len(source[s].log) \in Nat
    BY <1>1, <1>2, SourceIs DEF LogsOK, Log
  <1> HIDE DEF src2
  <1>5. src2 \in SourceTypes /\ src2.log = source[s].log /\ LogOK("delta", src2, clock)
        /\ \A t, last : t # NoToken /\ TokenFits("delta", source[s], t, last) /\ source[s].first <= t
                        => AnswersAlike("delta", source[s], src2, t)
    BY <1>2, <1>4, CleanUpKeeps DEF src2
  <1>6. ASSUME NEW t \in Held(s), t # NoToken, s \notin gaps' PROVE AnswersAlike("delta", source[s], src2, t)
    <2>1. TokenFits("delta", source[s], t, asked[s])
      BY <1>2, HeldIs DEF FitsAt
    <2>2. t \in 1 .. Len(source[s].log)
      BY <1>6, <2>1 DEF TokenFits
    <2>3. ~(source[s].first > t)
      BY <1>2, <1>6
    <2> QED BY <1>4, <1>5, <1>6, <2>1, <2>2, <2>3
  <1>7. gaps \subseteq gaps' /\ gaps' \subseteq Sources
    BY <1>1, <1>2 DEF DetectTypeOK
  <1>8. LogOK(Kind(s), src2, clock) /\ Kind(s) # "iceberg"
        /\ \A t \in Held(s) : t # NoToken /\ s \notin gaps' => AnswersAlike(Kind(s), source[s], src2, t)
    BY <1>2, <1>5, <1>6
  <1> QED BY <1>2, <1>3, <1>5, <1>7, <1>8, CondensedKeeps

LEMMA ExpireStep ==
  ASSUME DetectInv, NEW s \in Sources, Expire(s)
  PROVE  DetectInv'
  <1>1. DetectTypeOK /\ LogsOK(s)
    BY DEF DetectInv, AtSource
  <1>2. /\ Kind(s) = "iceberg" /\ source[s].first < Len(source[s].log)
        /\ source' = [source EXCEPT ![s].first = @ + 1]
        /\ gaps' = IF NoToken \in Held(s) THEN gaps \cup {s} ELSE gaps
        /\ UNCHANGED <<project, clock, token, run, told, asked, settled>>
    BY DEF Expire, Log
  <1> DEFINE src2 == [source[s] EXCEPT !.first = source[s].first + 1]
  <1>3. source' = [source EXCEPT ![s] = src2]
    BY <1>2
  <1>4. source[s] \in SourceTypes /\ LogOK("iceberg", source[s], clock)
    BY <1>1, <1>2, SourceIs DEF LogsOK
  <1> HIDE DEF src2
  <1>5. src2 \in SourceTypes /\ src2.log = source[s].log /\ LogOK("iceberg", src2, clock)
        /\ \A t, last : t # NoToken /\ TokenFits("iceberg", source[s], t, last) /\ InOrder(source[s])
                        => AnswersAlike("iceberg", source[s], src2, t)
    BY <1>2, <1>4, ExpireKeeps DEF src2
  <1>6. ASSUME NEW t \in Held(s), t # NoToken, s \notin gaps' PROVE AnswersAlike("iceberg", source[s], src2, t)
    <2>1. TokenFits("iceberg", source[s], t, asked[s])
      BY <1>2, HeldIs DEF FitsAt
    <2>2. InOrder(source[s])
      BY <1>1, <1>2, <1>6 DEF LogsOK
    <2> QED BY <1>5, <1>6, <2>1, <2>2
  <1>7. gaps \subseteq gaps' /\ gaps' \subseteq Sources
    BY <1>1, <1>2 DEF DetectTypeOK
  <1>8. s \notin gaps' => NoToken \notin Held(s)
    BY <1>2
  <1>9. LogOK(Kind(s), src2, clock)
        /\ \A t \in Held(s) : t # NoToken /\ s \notin gaps' => AnswersAlike(Kind(s), source[s], src2, t)
    BY <1>2, <1>5, <1>6
  <1> QED BY <1>2, <1>3, <1>5, <1>7, <1>8, <1>9, CondensedKeeps

\* At most time passes.
LEMMA TimeKeeps ==
  ASSUME DetectInv, clock' = clock + 1 \/ clock' = clock,
         UNCHANGED <<project, source, token, run, told, asked, settled, gaps>>
  PROVE  DetectInv'
  <1>1. DetectTypeOK /\ clock \in Nat \ {0} /\ clock' \in Nat \ {0} /\ clock <= clock'
        /\ UNCHANGED <<project, source, token, run, told, asked, settled, gaps>>
    BY DEF DetectInv, DetectTypeOK
  <1>2. Sources' = Sources /\ (\A s : Kind(s)' = Kind(s) /\ Log(s)' = Log(s)) /\ \A s, t : Ask(s, t)' = Ask(s, t)
    BY <1>1 DEF Sources, Kind, Log, Ask
  <1>3. DetectTypeOK' /\ \A c \in Procs : CommandOK(c)'
    BY <1>1, <1>2 DEF DetectInv, DetectTypeOK, CommandOK
  <1>4. ASSUME NEW s \in Sources PROVE AtSource(s)'
    <2>1. AtSource(s) /\ source[s] \in SourceTypes /\ asked[s] \in Nat /\ Log(s) = source[s].log
          /\ \A i \in DOMAIN source[s].log : source[s].log[i].time \in Nat
      <3>1. AtSource(s) /\ DetectTypeOK
        BY DEF DetectInv
      <3>2. source[s] \in SourceTypes /\ asked[s] \in Nat /\ \A i \in DOMAIN Log(s) : Log(s)[i] \in Writes
        BY <3>1, SourceIs
      <3> QED BY <3>1, <3>2, WriteTypes DEF Log
    <2>2. LogOK(Kind(s), source[s], clock)'
      BY <1>1, <1>2, <2>1 DEF AtSource, LogsOK, LogOK
    <2>3. LogsOK(s)'
      BY <1>1, <1>2, <2>1, <2>2 DEF AtSource, LogsOK
    <2>4. \A i : Past(s, i)' = Past(s, i) /\ \A c \in Procs : Reports(c, s, i)' = Reports(c, s, i)
      BY <1>1, <1>2 DEF Past, Reports, Reported, AtSet
    <2>5. \A i, t : StillTold(s, t, i)' = StillTold(s, t, i)
      BY <1>2, <2>4 DEF StillTold
    <2>6. \A t : TokenCovers(s, t)' = TokenCovers(s, t) /\ FitsAt(s, t)' = FitsAt(s, t) /\ Quiet(s, t)' = Quiet(s, t)
      BY <1>1, <1>2, <2>5 DEF TokenCovers, FitsAt, Quiet
    <2>7. StoredOK(s)'
      BY <1>1, <2>1, <2>6 DEF AtSource, StoredOK, TokenCovers, FitsAt, Quiet, StillTold
    <2>8. ASSUME NEW c \in Procs PROVE (AtAsk(c, s)' => AskOK(c, s)') /\ (AtSet(c, s)' => SetOK(c, s)')
      <3>1. AtAsk(c, s)' = AtAsk(c, s) /\ AtSet(c, s)' = AtSet(c, s)
        BY <1>1 DEF AtAsk, AtSet
      <3>2. AskOK(c, s) => AskOK(c, s)'
        BY <1>1, <2>6 DEF AskOK, TokenCovers, FitsAt, StillTold
      <3>3. SetOK(c, s) => SetOK(c, s)'
        BY <1>1, <1>2, <2>4, <2>5, <2>6 DEF SetOK, FitsAt, Quiet, StillTold
      <3> QED BY <2>1, <3>1, <3>2, <3>3 DEF AtSource
    <2> QED BY <2>3, <2>7, <2>8 DEF AtSource
  <1> QED BY <1>2, <1>3, <1>4 DEF DetectInv

LEMMA DetectStarts ==
  ASSUME Init
  PROVE  DetectInv
  <1>1. /\ project \in Projects /\ clock = 1
        /\ source = [s \in Sources |-> [log |-> << >>, first |-> 1, checkpoint |-> 0, readable |-> TRUE]]
        /\ token = [s \in Sources |-> NoToken] /\ run = [c \in Procs |-> Idle]
        /\ told = [s \in Sources |-> {}] /\ asked = [s \in Sources |-> 0] /\ settled = {} /\ gaps = {}
    BY DEF Init
  <1>2. << >> \in WriteLogs /\ Len(<< >>) = 0 /\ DOMAIN << >> = {}
    BY EmptySeq DEF WriteLogs
  <1>3. DetectTypeOK
    BY <1>1, <1>2, IdleIs DEF DetectTypeOK, SourceTypes, Tokens
  <1>4. \A c \in Procs : CommandOK(c)
    BY <1>1, <1>2, IdleIs DEF CommandOK
  <1>5. ASSUME NEW s \in Sources PROVE AtSource(s)
    <2>1. /\ source[s].log = << >> /\ source[s].first = 1 /\ source[s].checkpoint = 0 /\ token[s] = NoToken
          /\ asked[s] = 0 /\ Log(s) = << >>
      BY <1>1 DEF Log
    <2>2. LogsOK(s)
      BY <1>1, <1>2, <2>1 DEF LogsOK, LogOK, InOrder
    <2>3. StoredOK(s)
      BY <1>1, <2>1 DEF StoredOK, FitsAt, TokenFits, TokenCovers
    <2>4. \A c \in Procs : ~AtAsk(c, s) /\ ~AtSet(c, s)
      BY <1>1, IdleIs DEF AtAsk, AtSet
    <2> QED BY <2>2, <2>3, <2>4 DEF AtSource
  <1> QED BY <1>3, <1>4, <1>5 DEF DetectInv

LEMMA DetectSteps ==
  ASSUME DetectInv, [Next]_vars
  PROVE  DetectInv'
  <1>1. CASE Next
    <2>1. CASE World
      <3>1. CASE Tick
        BY <3>1, TimeKeeps DEF Tick, history
      <3>2. ASSUME NEW s \in Sources, Checkpoint(s) \/ CleanUp(s) \/ Expire(s) \/ \E w \in Writes : Write(s, w)
            PROVE  DetectInv'
        BY <3>2, CheckpointStep, CleanUpStep, ExpireStep, WriteKeeps
      <3> QED BY <2>1, <3>1, <3>2 DEF World
    <2>2. ASSUME NEW c \in Procs, Step(c) PROVE DetectInv'
      BY <2>2, StartKeeps, GetTokenKeeps, AskSourceKeeps, SetTokenKeeps, ReportKeeps DEF Step
    <2>3. ASSUME NEW c \in Procs, Break(c) PROVE DetectInv'
      BY <2>3, BreakKeeps
    <2> QED BY <1>1, <2>1, <2>2, <2>3 DEF Next
  <1>2. CASE UNCHANGED vars
    <2>1. UNCHANGED <<project, clock, source, token, run, told, asked, settled, gaps>>
      BY <1>2 DEF vars, world, history
    <2> QED BY <2>1, TimeKeeps
  <1> QED BY <1>1, <1>2

\* What the invariant says of the answers.
LEMMA DetectIsRight ==
  ASSUME DetectInv
  PROVE  OmitsOnlyInGaps /\ QuietSourceIsSilent
  <1>1. DetectTypeOK
    BY DEF DetectInv
  <1>2. ASSUME NEW s \in Sources \ gaps, NEW i \in DOMAIN Log(s)
        PROVE  i \in told[s] \/ InFlight(s, i) \/ ToBeReported(s, i)
    <2>1. LogsOK(s) /\ StoredOK(s) /\ TokenCovers(s, token[s])
      BY DEF DetectInv, AtSource, StoredOK
    <2>2. CASE token[s] # NoToken
      <3>1. Past(s, i) \/ Tells(Ask(s, token[s]), Log(s)[i])
        BY <2>1, <2>2 DEF TokenCovers, StillTold
      <3> QED BY <3>1 DEF Past, Reports, InFlight, Tells, ToBeReported
    <2>3. CASE token[s] = NoToken
      <3>1. /\ source[s] \in SourceTypes /\ Kind(s) \in SourceKinds /\ clock \in Nat
            /\ LogOK(Kind(s), source[s], clock) /\ Log(s) = source[s].log
            /\ source[s].checkpoint \in Nat /\ source[s].checkpoint <= Len(Log(s)) /\ Len(Log(s)) \in Nat
            /\ DOMAIN Log(s) = 1 .. Len(Log(s))
        BY <1>1, <2>1, SourceIs DEF LogsOK, LogOK, Log
      <3>2. Kind(s) = "iceberg" => source[s].first = 1
        BY <2>1, <2>3 DEF TokenCovers
      <3>3. \A j \in 1 .. source[s].checkpoint : ~source[s].log[j].gone
        BY <2>1, <2>3, <3>1 DEF LogsOK
      <3>4. Tells(Changed(Kind(s), source[s], NoToken), source[s].log[i])
        BY <3>1, <3>2, <3>3, NoTokenTellsAll
      <3> QED BY <2>3, <3>1, <3>4 DEF Tells, ToBeReported, Ask
    <2> QED BY <2>2, <2>3
  <1>3. ASSUME NEW s \in settled \ gaps PROVE Quiet(s, token[s])
    <2>1. s \in Sources
      BY <1>1 DEF DetectTypeOK
    <2> QED BY <2>1, <1>3 DEF DetectInv, AtSource, StoredOK
  <1> QED BY <1>2, <1>3 DEF OmitsOnlyInGaps, Omitted, QuietSourceIsSilent, Quiet

\* However commands overlap and end early, whatever the sources take, forget and condense in
\* between, and for every project, number of processes and length of the logs: outside the
\* known gaps a write nobody was told of is one the next run will be told of, and a source
\* nobody wrote to since it was asked answers nothing (Project.detect and Project.plan of
\* cli/project.py, changed() of the adapters).
THEOREM DetectLosesNothing == OperationsSpec => [](desk = "detect" => OmitsOnlyInGaps /\ QuietSourceIsSilent)
  <1> DEFINE Holds == desk = "detect" => DetectInv
  <1>1. OperationsInit => Holds
    BY DetectStarts DEF OperationsInit
  <1>2. Holds /\ [OperationsNext]_operationVars => Holds'
    <2>1. SUFFICES ASSUME Holds, [OperationsNext]_operationVars, desk' = "detect" PROVE DetectInv'
      OBVIOUS
    <2>2. desk = "detect"
      BY <2>1 DEF OperationsNext, operationVars
    <2>3. [Next]_vars
      BY <2>1, <2>2 DEF OperationsNext, operationVars
    <2> QED BY <2>1, <2>2, <2>3, DetectSteps
  <1>3. Holds => (desk = "detect" => OmitsOnlyInGaps /\ QuietSourceIsSilent)
    BY DetectIsRight
  <1> HIDE DEF Holds
  <1> QED BY <1>1, <1>2, <1>3, PTL DEF OperationsSpec

-----------------------------------------------------------------------------
(***************************************************************************)
(* Shadow runs, for any number of datasets and partitions, any plan and    *)
(* any order of rebuilding.                                                *)
(***************************************************************************)
Built  == [ShadowParts -> Contents \cup {Absent}]
Grades == [dataset : Rebuilt, planned : SUBSET ShadowParts, actual : SUBSET ShadowParts,
           missed : SUBSET ShadowParts, wasted : SUBSET ShadowParts, total : Nat]

ShadowTypeOK ==
  /\ content \in [Rebuilt \cup {0} -> Built] /\ start \in [Rebuilt \cup {0} -> Built]
  /\ planned \in [Rebuilt -> SUBSET ShadowParts] /\ remaining \in Seq(Rebuilt) /\ disturbed \in Nat
  /\ results \in Seq(Grades) /\ stage \in {"before", "rebuild", "after"}
  /\ stage # "before" => remaining # << >> /\ DOMAIN before \subseteq ShadowParts

\* The datasets are graded in the order of their inputs, and nobody wrote to the source.
Undisturbed ==
  /\ disturbed = 0 /\ \A i \in DOMAIN results : results[i].dataset = i
  /\ stage # "before" => Head(remaining) = Len(results) + 1

FingerprintsOf(built) == [s \in {r \in ShadowParts : built[r] # Absent} |-> built[s]]

\* Then what was rebuilt is as the source, the rest as it began, and a grade misses what
\* was stale and not planned.
ShadowInv ==
  /\ ShadowTypeOK
  /\ Undisturbed =>
       /\ content[0] = start[0]
       /\ \A d \in Rebuilt : content[d] = IF d <= Len(results) \/ (stage = "after" /\ d = Len(results) + 1)
                                          THEN start[0] ELSE start[d]
       /\ stage # "before" => before = FingerprintsOf(start[Len(results) + 1])
       /\ \A i \in DOMAIN results :
            results[i].missed = {s \in ShadowParts : start[i][s] # start[0][s]} \ planned[i]

-----------------------------------------------------------------------------
LEMMA TouchedIs ==
  ASSUME NEW built \in Built, NEW rebuilt \in Built
  PROVE  /\ Touched(FingerprintsOf(built), FingerprintsOf(rebuilt)) = {s \in ShadowParts : built[s] # rebuilt[s]}
         /\ DOMAIN FingerprintsOf(built) \subseteq ShadowParts
  BY DEF Touched, SeenParts, FingerprintsOf

\* Taken twice, what changed is what a regression report on the two calls changed, gone or new.
LEMMA ReportsAgree ==
  ASSUME NEW b, NEW a
  PROVE  LET r == RegressionOf(b, a, {}) IN
         /\ Touched(b, a) = r.changed \cup r.gone \cup r.new
         /\ \A accepted : IsClean(RegressionOf(b, a, accepted)) => Touched(b, a) \subseteq accepted
         /\ IsRegression(r) <=> Touched(b, a) # {}
  <1> DEFINE differing == {s \in DOMAIN b \cap DOMAIN a : b[s] # a[s]}
  <1>1. Touched(b, a) = differing \cup (DOMAIN b \ DOMAIN a) \cup (DOMAIN a \ DOMAIN b)
    BY DEF Touched, SeenParts
  <1>2. \A accepted : /\ RegressionOf(b, a, accepted).changed = differing \ accepted
                      /\ RegressionOf(b, a, accepted).gone = DOMAIN b \ DOMAIN a
                      /\ RegressionOf(b, a, accepted).new = DOMAIN a \ DOMAIN b
    BY DEF RegressionOf
  <1> HIDE DEF differing
  <1>3. \A accepted : IsRegression(RegressionOf(b, a, accepted)) <=>
                        (differing \ accepted) \cup (DOMAIN b \ DOMAIN a) \cup (DOMAIN a \ DOMAIN b) # {}
    BY <1>2 DEF IsRegression
  <1>4. ASSUME NEW accepted, IsClean(RegressionOf(b, a, accepted)) PROVE Touched(b, a) \subseteq accepted
    BY <1>1, <1>3, <1>4 DEF IsClean
  <1> QED BY <1>1, <1>2, <1>3, <1>4

\* The total of what was missed is none when no grade missed any.
LEMMA TotalMissed ==
  ASSUME ShadowTypeOK
  PROVE  Totals.missed = 0 <=> \A i \in DOMAIN results : IsSound(results[i])
  <1> DEFINE N == Len(results)
             S == DOMAIN results
             f == [i \in S |-> Cardinality(results[i].missed)]
             e == [s \in SUBSET S |-> Max(s)]
  <1>1. N \in Nat /\ S = 1 .. N /\ IsFiniteSet(S) /\ S \subseteq Int
    BY LenProperties, FS_Interval DEF ShadowTypeOK
  <1>2. \A i \in S : results[i].missed \in SUBSET ShadowParts
    <2>1. \A i \in S : results[i] \in Grades
      BY <1>1, ElementOfSeq DEF ShadowTypeOK
    <2> QED BY <2>1 DEF Grades
  <1>3. \A i \in S : f[i] \in Nat /\ (f[i] = 0 <=> results[i].missed = {})
    <2>1. IsFiniteSet(ShadowParts)
      BY ShadowAssumption DEF ShadowAssumption
    <2>2. \A i \in S : IsFiniteSet(results[i].missed)
      BY <1>2, <2>1, FS_Subset
    <2> QED BY <2>2, FS_CardinalityType, FS_EmptySet
  <1>4. \A s \in SUBSET S : s # {} => e[s] \in s /\ \A n \in s : n <= e[s]
    <2>1. \A s \in SUBSET S : s \in SUBSET Int /\ IsFiniteSet(s)
      BY <1>1, FS_Subset
    <2> HIDE DEF S
    <2> QED BY <2>1, MaxIs
  <1>5. \E g \in [SUBSET S -> Int] : AddUp(g, f, e, S)
    <2> HIDE DEF S, f, e
    <2>1. \A i \in S : f[i] \in Int
      BY <1>3
    <2>2. \A s \in SUBSET S : s # {} => e[s] \in s
      BY <1>4
    <2> QED BY <1>1, <2>1, <2>2, AddsExist
  <1> DEFINE Iter(g) == g = [s \in SUBSET S |-> IF s = {} THEN 0
                               ELSE g[s \ {Max(s)}] + Cardinality(results[Max(s)].missed)]
             sum == CHOOSE g : Iter(g)
  <1>6. Totals.missed = sum[S]
    BY DEF Totals, FoldLeft, MapThenFoldSet
  <1>7. \E g : Iter(g)
    <2>1. PICK g \in [SUBSET S -> Int] : AddUp(g, f, e, S)
      BY <1>5
    <2>2. ASSUME NEW s \in SUBSET S
          PROVE  g[s] = IF s = {} THEN 0 ELSE g[s \ {Max(s)}] + Cardinality(results[Max(s)].missed)
      <3>1. g[s] = IF s = {} THEN 0 ELSE f[e[s]] + g[s \ {e[s]}]
        BY <2>1 DEF AddUp
      <3>2. ASSUME s # {} PROVE g[s] = g[s \ {Max(s)}] + Cardinality(results[Max(s)].missed)
        <4>1. e[s] = Max(s) /\ e[s] \in S
          BY <1>4, <3>2
        <4> HIDE DEF e, S
        <4>2. f[e[s]] \in Int /\ g[s \ {e[s]}] \in Int
          BY <1>3, <4>1
        <4>3. f[e[s]] = Cardinality(results[Max(s)].missed)
          BY <4>1
        <4> HIDE DEF f
        <4>4. g[s] = f[e[s]] + g[s \ {e[s]}]
          BY <3>1, <3>2
        <4>5. g[s] = g[s \ {e[s]}] + f[e[s]]
          BY <4>2, <4>4
        <4> QED BY <4>1, <4>3, <4>5
      <3> HIDE DEF f, e, S
      <3> QED BY <3>1, <3>2
    <2>3. Iter(g)
      BY <2>1, <2>2
    <2> HIDE DEF Iter
    <2> QED BY <2>3
  <1>8. Iter(sum)
    <2> HIDE DEF Iter
    <2> QED BY <1>7
  <1> HIDE DEF sum
  <1> DEFINE Known(n) == sum[1 .. n] \in Nat /\ (sum[1 .. n] = 0 <=> \A i \in 1 .. n : results[i].missed = {})
             P == {n \in 0 .. N : Known(n)}
  <1>9. sum[{}] = 0 /\ \A n \in 1 .. N : sum[1 .. n] = sum[1 .. n - 1] + f[n]
    <2>1. \A s \in SUBSET S : sum[s] = IF s = {} THEN 0 ELSE sum[s \ {Max(s)}] + Cardinality(results[Max(s)].missed)
      BY <1>8
    <2>2. ASSUME NEW n \in 1 .. N PROVE sum[1 .. n] = sum[1 .. n - 1] + f[n]
      <3>1. 1 .. n \in SUBSET S /\ 1 .. n # {} /\ n \in 1 .. n /\ n \in S
        BY <1>1
      <3>2. Max(1 .. n) = n
        <4>1. e[1 .. n] \in 1 .. n /\ n <= e[1 .. n]
          BY <1>4, <3>1
        <4> QED BY <1>1, <3>1, <4>1
      <3>3. (1 .. n) \ {n} = 1 .. n - 1
        BY <1>1
      <3> QED BY <2>1, <3>1, <3>2, <3>3
    <2> QED BY <2>1, <2>2
  <1>10. 0 \in P
    <2>1. 1 .. 0 = {}
      OBVIOUS
    <2> QED BY <1>1, <1>9, <2>1
  <1>11. ASSUME NEW n \in 0 .. N, n + 1 \in 0 .. N, n \in P PROVE n + 1 \in P
    <2>1. sum[1 .. n + 1] = sum[1 .. n] + f[n + 1]
      <3>1. n + 1 \in 1 .. N /\ (n + 1) - 1 = n
        BY <1>1, <1>11
      <3> QED BY <1>9, <3>1
    <2>2. f[n + 1] \in Nat /\ (f[n + 1] = 0 <=> results[n + 1].missed = {})
      <3>1. n + 1 \in S
        BY <1>1, <1>11
      <3> QED BY <1>3, <3>1
    <2>3. sum[1 .. n] \in Nat /\ (sum[1 .. n] = 0 <=> \A i \in 1 .. n : results[i].missed = {})
      BY <1>11
    <2>4. (\A i \in 1 .. n + 1 : results[i].missed = {}) <=>
            (\A i \in 1 .. n : results[i].missed = {}) /\ results[n + 1].missed = {}
      BY <1>1, <1>11
    <2> HIDE DEF f
    <2>5. sum[1 .. n + 1] \in Nat /\ (sum[1 .. n + 1] = 0 <=> sum[1 .. n] = 0 /\ f[n + 1] = 0)
      BY <2>1, <2>2, <2>3
    <2>6. Known(n + 1)
      BY <2>2, <2>3, <2>4, <2>5
    <2> HIDE DEF Known
    <2> QED BY <1>11, <2>6
  <1>12. N \in P
    <2>1. N \in 0 .. N
      BY <1>1
    <2> HIDE DEF P
    <2> QED BY <1>1, <1>10, <1>11, <2>1, UpTo
  <1> QED BY <1>1, <1>6, <1>12 DEF IsSound

\* Grades that cover the datasets, inputs first, are one for each in its order.
LEMMA InputsFirstIsInOrder ==
  ASSUME ShadowTypeOK, Covers2(results), InputsFirst2(results)
  PROVE  DOMAIN results = Rebuilt /\ \A i \in DOMAIN results : results[i].dataset = i
  <1> DEFINE n == Cardinality(Rebuilt)
             Wrong == {i \in DOMAIN results : results[i].dataset # i}
  <1>1. Rebuilt = 1 .. n /\ n \in Nat /\ Len(results) \in Nat /\ DOMAIN results = 1 .. Len(results)
    BY LenProperties, ShadowAssumption, FS_CardinalityType DEF ShadowAssumption, ShadowTypeOK
  <1> HIDE DEF n
  <1>2. \A i \in DOMAIN results : results[i].dataset \in Rebuilt
    <2>1. \A i \in DOMAIN results : results[i] \in Grades
      BY <1>1, ElementOfSeq DEF ShadowTypeOK
    <2> QED BY <2>1 DEF Grades
  <1>3. Wrong = {}
    <2>1. SUFFICES ASSUME Wrong # {} PROVE FALSE
      OBVIOUS
    <2>2. PICK k \in Wrong : \A m \in Wrong : k <= m
      <3>1. Wrong \in SUBSET Nat
        BY <1>1
      <3> HIDE DEF Wrong
      <3> QED BY <2>1, <3>1, LeastNumber
    <2>3. k \in DOMAIN results /\ k \in Nat /\ results[k].dataset # k /\ results[k].dataset \in 1 .. n
      BY <1>1, <1>2
    <2>4. \A i \in 1 .. k - 1 : i \in DOMAIN results /\ results[i].dataset = i
      BY <1>1, <2>2, <2>3
    <2>5. results[k].dataset > k
      <3>1. CASE k = 1
        BY <2>3, <3>1
      <3>2. CASE k # 1
        <4>1. k - 1 \in 1 .. k - 1 /\ k \in (k - 1) + 1 .. Len(results) /\ k - 1 \in DOMAIN results
          BY <1>1, <2>3, <3>2
        <4>2. results[k - 1].dataset < results[k].dataset /\ results[k - 1].dataset = k - 1
          BY <2>4, <4>1 DEF InputsFirst2
        <4> QED BY <2>3, <4>2
      <3> QED BY <3>1, <3>2
    <2>6. k \in Rebuilt
      BY <1>1, <2>3, <2>5
    <2>7. PICK j \in DOMAIN results : results[j].dataset = k
      BY <2>6 DEF Covers2
    <2>8. CASE j < k
      BY <1>1, <2>3, <2>4, <2>7, <2>8
    <2>9. CASE j = k
      BY <2>3, <2>7, <2>9
    <2>10. CASE j > k
      <3>1. j \in k + 1 .. Len(results)
        BY <1>1, <2>3, <2>10
      <3>2. results[k].dataset < results[j].dataset
        BY <2>3, <3>1 DEF InputsFirst2
      <3> QED BY <2>3, <2>5, <2>7, <3>2
    <2> QED BY <1>1, <2>3, <2>8, <2>9, <2>10
  <1>4. \A i \in DOMAIN results : results[i].dataset = i
    BY <1>3
  <1>5. DOMAIN results = Rebuilt
    BY <1>2, <1>4 DEF Covers2
  <1> QED BY <1>4, <1>5

-----------------------------------------------------------------------------
\* The inductive invariant says what the run checks.
LEMMA ShadowIsRight ==
  ASSUME ShadowInv
  PROVE  SoundMeansThePlanSufficed /\ GradesAgreeWithRegressions
  <1>1. ShadowTypeOK
    BY DEF ShadowInv
  <1>2. ASSUME remaining = << >>, Covers2(results), InputsFirst2(results), disturbed = 0
        PROVE  (\A i \in DOMAIN results : IsSound(results[i])) <=>
                 \A d \in Rebuilt : \A s \in ShadowParts \ planned[d] : start[d][s] = start[0][s]
    <2>1. DOMAIN results = Rebuilt /\ \A i \in DOMAIN results : results[i].dataset = i
      BY <1>1, <1>2, InputsFirstIsInOrder
    <2>2. Undisturbed
      BY <1>1, <1>2, <2>1 DEF Undisturbed, ShadowTypeOK
    <2>3. \A i \in Rebuilt : results[i].missed = {s \in ShadowParts : start[i][s] # start[0][s]} \ planned[i]
      BY <2>1, <2>2 DEF ShadowInv
    <2> QED BY <2>1, <2>3 DEF IsSound
  <1>3. GradesAgreeWithRegressions
    BY ReportsAgree DEF GradesAgreeWithRegressions
  <1> QED BY <1>1, <1>2, <1>3, TotalMissed DEF SoundMeansThePlanSufficed

LEMMA RebuiltIs ==
  0 \notin Rebuilt /\ \A d \in Rebuilt : d \in Nat \ {0} /\ d - 1 \in Rebuilt \cup {0}
  <1>1. Rebuilt = 1 .. Cardinality(Rebuilt) /\ Cardinality(Rebuilt) \in Nat
    BY ShadowAssumption, FS_CardinalityType DEF ShadowAssumption
  <1> QED BY <1>1

LEMMA ShadowStarts ==
  ASSUME ShadowInit
  PROVE  ShadowInv
  <1>1. content \in [Rebuilt \cup {0} -> Built] /\ start = content /\ results = << >> /\ stage = "before"
    BY DEF ShadowInit, Built
  <1>2. << >> \in Seq(Grades) /\ Len(<< >>) = 0 /\ DOMAIN << >> = {}
    BY EmptySeq
  <1>3. remaining \in Seq(Rebuilt)
    BY ShadowAssumption DEF ShadowAssumption, ShadowInit
  <1>4. ShadowTypeOK
    BY <1>1, <1>2, <1>3 DEF ShadowInit, ShadowTypeOK
  <1>5. \A d \in Rebuilt : content[d] = IF d <= 0 THEN start[0] ELSE start[d]
    BY <1>1, RebuiltIs
  <1>6. Len(results) = 0 /\ DOMAIN results = {} /\ stage # "after"
    BY <1>1, <1>2
  <1> QED BY <1>1, <1>4, <1>5, <1>6 DEF ShadowInv

LEMMA HeadIs ==
  ASSUME ShadowTypeOK, remaining # << >>
  PROVE  Head(remaining) \in Rebuilt /\ Tail(remaining) \in Seq(Rebuilt)
  BY HeadTailProperties DEF ShadowTypeOK

LEMMA TakeBeforeKeeps ==
  ASSUME ShadowInv, TakeBefore
  PROVE  ShadowInv'
  <1> DEFINE d == Head(remaining)
  <1>1. /\ ShadowTypeOK /\ d \in Rebuilt /\ stage = "before" /\ stage' = "rebuild" /\ remaining # << >>
        /\ before' = FingerprintsOf(content[d])
        /\ UNCHANGED <<content, planned, remaining, results, start, disturbed>>
    BY HeadIs DEF ShadowInv, TakeBefore, Fingerprints, FingerprintsOf
  <1>2. content[d] \in Built /\ Len(results) \in Nat
    BY <1>1, LenProperties DEF ShadowTypeOK
  <1>3. DOMAIN before' \subseteq ShadowParts
    BY <1>1 DEF FingerprintsOf
  <1>4. ShadowTypeOK'
    BY <1>1, <1>3 DEF ShadowTypeOK
  <1>5. ASSUME Undisturbed' PROVE Undisturbed /\ d = Len(results) + 1
    BY <1>1, <1>5 DEF Undisturbed
  <1>6. ASSUME Undisturbed' PROVE before' = FingerprintsOf(start[Len(results) + 1])
    <2>1. content[d] = start[d]
      BY <1>1, <1>2, <1>5, <1>6 DEF ShadowInv
    <2> QED BY <1>1, <1>5, <1>6, <2>1
  <1> QED BY <1>1, <1>4, <1>5, <1>6 DEF ShadowInv, FingerprintsOf

LEMMA FullRebuildKeeps ==
  ASSUME ShadowInv, FullRebuild
  PROVE  ShadowInv'
  <1> DEFINE d == Head(remaining)
  <1>1. /\ ShadowTypeOK /\ d \in Rebuilt /\ stage = "rebuild" /\ stage' = "after"
        /\ content' = [content EXCEPT ![d] = content[d - 1]]
        /\ UNCHANGED <<planned, remaining, before, results, start, disturbed>>
    BY HeadIs DEF ShadowInv, FullRebuild, ShadowTypeOK
  <1>2. content \in [Rebuilt \cup {0} -> Built] /\ Len(results) \in Nat
    BY <1>1, LenProperties DEF ShadowTypeOK
  <1>3. d \in Nat \ {0} /\ d - 1 \in Rebuilt \cup {0} /\ 0 \notin Rebuilt
    BY <1>1, RebuiltIs
  <1>4. ShadowTypeOK'
    BY <1>1, <1>2, <1>3 DEF ShadowTypeOK
  <1>5. ASSUME Undisturbed' PROVE Undisturbed /\ d = Len(results) + 1
    BY <1>1, <1>5 DEF Undisturbed
  <1>6. ASSUME Undisturbed'
        PROVE  /\ content'[0] = start[0]
               /\ \A k \in Rebuilt : content'[k] = IF k <= Len(results) \/ k = Len(results) + 1 THEN start[0] ELSE start[k]
    <2>1. content[d - 1] = start[0]
      <3>1. CASE d = 1
        BY <1>3, <1>5, <1>6, <3>1 DEF ShadowInv
      <3>2. CASE d # 1
        <4>1. d - 1 \in Rebuilt /\ d - 1 <= Len(results)
          BY <1>2, <1>3, <1>5, <1>6, <3>2
        <4> QED BY <1>1, <1>2, <1>5, <1>6, <4>1 DEF ShadowInv
      <3> QED BY <3>1, <3>2
    <2>2. content'[0] = start[0]
      BY <1>1, <1>2, <1>3, <1>5, <1>6 DEF ShadowInv
    <2>3. ASSUME NEW k \in Rebuilt PROVE content'[k] = IF k = d THEN start[0] ELSE content[k]
      BY <1>1, <1>2, <2>1
    <2>4. ASSUME NEW k \in Rebuilt PROVE content[k] = IF k <= Len(results) THEN start[0] ELSE start[k]
      BY <1>1, <1>5, <1>6 DEF ShadowInv
    <2> QED BY <1>5, <1>6, <2>2, <2>3, <2>4
  <1>7. ASSUME Undisturbed' PROVE before' = FingerprintsOf(start[Len(results) + 1])
    BY <1>1, <1>5, <1>7 DEF ShadowInv
  <1>8. ASSUME Undisturbed', NEW i \in DOMAIN results
        PROVE  results[i].missed = {s \in ShadowParts : start[i][s] # start[0][s]} \ planned[i]
    BY <1>5, <1>8 DEF ShadowInv
  <1> QED BY <1>1, <1>4, <1>6, <1>7, <1>8 DEF ShadowInv, FingerprintsOf

LEMMA TakeAfterKeeps ==
  ASSUME ShadowInv, TakeAfter
  PROVE  ShadowInv'
  <1> DEFINE d == Head(remaining)
             after == FingerprintsOf(content[d])
             total == Cardinality(SeenParts(before, after))
             grade == Compare(d, Touched(before, after), total)
             n == Len(results)
  <1>1. /\ ShadowTypeOK /\ d \in Rebuilt /\ Tail(remaining) \in Seq(Rebuilt) /\ stage = "after" /\ stage' = "before"
        /\ results' = Append(results, grade) /\ remaining' = Tail(remaining)
        /\ UNCHANGED <<content, planned, start, disturbed>>
    BY HeadIs DEF ShadowInv, TakeAfter, ShadowTypeOK, Fingerprints, FingerprintsOf
  <1>2. grade \in Grades
    <2>1. SeenParts(before, after) \subseteq ShadowParts
      BY <1>1 DEF ShadowTypeOK, SeenParts, FingerprintsOf
    <2>2. total \in Nat
      BY <2>1, ShadowAssumption, FS_Subset, FS_CardinalityType DEF ShadowAssumption
    <2>3. Touched(before, after) \subseteq ShadowParts /\ planned[d] \subseteq ShadowParts
      BY <1>1, <2>1 DEF Touched, ShadowTypeOK
    <2> HIDE DEF total, after, d
    <2> QED BY <1>1, <2>2, <2>3 DEF Compare, Grades
  <1>3. grade.dataset = d /\ grade.missed = Touched(before, after) \ planned[d]
    BY DEF Compare
  <1> HIDE DEF grade, after
  <1>4. /\ n \in Nat /\ Len(results') = n + 1 /\ results' \in Seq(Grades) /\ DOMAIN results = 1 .. n
        /\ DOMAIN results' = 1 .. n + 1 /\ results'[n + 1] = grade /\ \A i \in 1 .. n : results'[i] = results[i]
    BY <1>1, <1>2, AppendProperties, LenProperties DEF ShadowTypeOK
  <1>5. ShadowTypeOK'
    BY <1>1, <1>4 DEF ShadowTypeOK
  <1> HIDE DEF n
  <1>6. ASSUME Undisturbed' PROVE Undisturbed /\ d = n + 1
    <2>1. \A i \in 1 .. n + 1 : results'[i].dataset = i
      BY <1>4, <1>6 DEF Undisturbed
    <2>2. d = n + 1
      BY <1>3, <1>4, <2>1
    <2>3. \A i \in 1 .. n : results[i].dataset = i
      BY <1>4, <2>1
    <2> QED BY <1>1, <1>4, <1>6, <2>2, <2>3 DEF Undisturbed, n
  <1>7. ASSUME Undisturbed'
        PROVE  \A i \in 1 .. n + 1 : results'[i].missed = {s \in ShadowParts : start[i][s] # start[0][s]} \ planned[i]
    <2>1. before = FingerprintsOf(start[d]) /\ content[d] = start[0]
      BY <1>1, <1>6, <1>7 DEF ShadowInv, n
    <2>2. start[d] \in Built /\ start[0] \in Built
      BY <1>1 DEF ShadowTypeOK
    <2>3. Touched(before, after) = {s \in ShadowParts : start[d][s] # start[0][s]}
      BY <2>1, <2>2, TouchedIs DEF after
    <2>4. \A i \in 1 .. n : results[i].missed = {s \in ShadowParts : start[i][s] # start[0][s]} \ planned[i]
      BY <1>4, <1>6, <1>7 DEF ShadowInv
    <2>5. ASSUME NEW i \in 1 .. n + 1
          PROVE  results'[i].missed = {s \in ShadowParts : start[i][s] # start[0][s]} \ planned[i]
      <3>1. CASE i = n + 1
        BY <1>3, <1>4, <1>6, <1>7, <2>3, <3>1
      <3>2. CASE i # n + 1
        <4>1. i \in 1 .. n
          BY <1>4, <3>2
        <4> QED BY <1>4, <2>4, <4>1
      <3> QED BY <3>1, <3>2
    <2> QED BY <2>5
  <1>8. ASSUME Undisturbed'
        PROVE  content'[0] = start[0] /\ \A k \in Rebuilt : content'[k] = IF k <= n + 1 THEN start[0] ELSE start[k]
    <2>1. content[0] = start[0] /\ \A k \in Rebuilt : content[k] = IF k <= n \/ k = n + 1 THEN start[0] ELSE start[k]
      BY <1>1, <1>6, <1>8 DEF ShadowInv, n
    <2>2. \A k \in Rebuilt : k <= n + 1 <=> k <= n \/ k = n + 1
      BY <1>4, RebuiltIs
    <2> QED BY <1>1, <2>1, <2>2
  <1> QED BY <1>1, <1>4, <1>5, <1>7, <1>8 DEF ShadowInv

LEMMA WriteSourceKeeps ==
  ASSUME ShadowInv, NEW s \in ShadowParts, NEW c \in Contents, WriteSource(s, c)
  PROVE  ShadowInv'
  <1>1. ShadowTypeOK /\ content' = [content EXCEPT ![0][s] = c] /\ disturbed' = disturbed + 1
        /\ UNCHANGED <<planned, remaining, before, stage, results, start>>
    BY DEF ShadowInv, WriteSource
  <1>2. content' \in [Rebuilt \cup {0} -> Built]
    BY <1>1 DEF ShadowTypeOK, Built
  <1>3. ShadowTypeOK'
    BY <1>1, <1>2 DEF ShadowTypeOK
  <1>4. ~Undisturbed'
    BY <1>1 DEF ShadowTypeOK, Undisturbed
  <1> QED BY <1>3, <1>4 DEF ShadowInv

LEMMA ShadowSteps ==
  ASSUME ShadowInv, [ShadowNext]_shadowVars
  PROVE  ShadowInv'
  <1>1. CASE ShadowNext
    BY <1>1, TakeBeforeKeeps, FullRebuildKeeps, TakeAfterKeeps, WriteSourceKeeps DEF ShadowNext
  <1>2. CASE UNCHANGED shadowVars
    BY <1>2 DEF shadowVars, ShadowInv, ShadowTypeOK, Undisturbed, FingerprintsOf
  <1> QED BY <1>1, <1>2

\* observe/shadow.py and regression.py, whatever is planned, rebuilt and written meanwhile: a
\* report that is sound of every dataset means that what the plan left out was already what a
\* full rebuild makes, and the grade of a dataset agrees with the regression report on it.
THEOREM ShadowGradesAreRight ==
  OperationsSpec => [](desk = "shadow" => SoundMeansThePlanSufficed /\ GradesAgreeWithRegressions)
  <1> DEFINE Holds == desk = "shadow" => ShadowInv
  <1>1. OperationsInit => Holds
    BY ShadowStarts DEF OperationsInit
  <1>2. Holds /\ [OperationsNext]_operationVars => Holds'
    <2>1. SUFFICES ASSUME Holds, [OperationsNext]_operationVars, desk' = "shadow" PROVE ShadowInv'
      OBVIOUS
    <2>2. desk = "shadow"
      BY <2>1 DEF OperationsNext, operationVars
    <2>3. [ShadowNext]_shadowVars
      BY <2>1, <2>2 DEF OperationsNext, operationVars
    <2> QED BY <2>1, <2>2, <2>3, ShadowSteps
  <1>3. Holds => (desk = "shadow" => SoundMeansThePlanSufficed /\ GradesAgreeWithRegressions)
    BY ShadowIsRight
  <1> HIDE DEF Holds
  <1> QED BY <1>1, <1>2, <1>3, PTL DEF OperationsSpec

\* What change detection answers, and what shadow runs say of a plan, can be relied on
\* (cli/project.py, adapters, observe/shadow.py, regression.py).
THEOREM AnswersHold == OperationsSpec => []AnswersAreRight
  <1>1. (desk = "detect" => OmitsOnlyInGaps /\ QuietSourceIsSilent) /\
          (desk = "shadow" => SoundMeansThePlanSufficed /\ GradesAgreeWithRegressions) => AnswersAreRight
    BY DEF AnswersAreRight
  <1> QED BY <1>1, DetectLosesNothing, ShadowGradesAreRight, PTL
=============================================================================
