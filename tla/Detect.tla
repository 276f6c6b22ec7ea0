------------------------------- MODULE Detect -------------------------------
(***************************************************************************)
(* Change detection: what the adapters answer for a resume token, and the  *)
(* runs of fathom detect and fathom plan --detect that move the tokens.    *)
(***************************************************************************)
EXTENDS Integers, Sequences, FiniteSets, SequencesExt

(***************************************************************************)
(* What the adapters' changed() answers for a resume token: ObjectStorage  *)
(* (adapters/storage/objects.py), DeltaCatalog and IcebergCatalog          *)
(* (adapters/catalogs), BigQuery and the two ways of Snowflake             *)
(* (adapters/engines).                                                     *)
(*                                                                         *)
(* A source is the log of the writes it took, each [part, time, etag, id,  *)
(* gone], and what its format forgets or condenses of it: the first entry  *)
(* still there, and the last checkpoint.  An answer is [parts, token,      *)
(* complete].                                                              *)
(***************************************************************************)

CONSTANTS Whole,      \* the unbounded predicate
          NoToken     \* no token stored, or an empty one returned

Answer(parts, token, complete) == [parts |-> parts, token |-> token, complete |-> complete]

\* The last write to each partition, deleted ones left out: the objects of a prefix,
\* the partitions of a table.
LatestUpTo(log, n) ==
  {log[i] : i \in {j \in 1 .. n : ~log[j].gone /\ \A k \in j + 1 .. n : log[k].part # log[j].part}}
Latest(src) == LatestUpTo(src.log, Len(src.log))

Parts(writes) == {w.part : w \in writes}
Times(writes) == {w.time : w \in writes}

\* Snowflake's tokens have whole seconds; a second is two instants here.
Second(time) == (time \div 2) * 2

-----------------------------------------------------------------------------
\* Mutants: a strict comparison; a token without its boundary.
ObjectsStrictlyAfter(objects, since) == {o \in objects : since = NoToken \/ o.time > since.time}
HighWaterBare(objects, since) ==
  LET times == Times(objects) \cup (IF since = NoToken THEN {} ELSE {since.time})
  IN  IF times = {} THEN NoToken ELSE [time |-> Max(times), seen |-> {}]

\* ObjectStorage.changed: objects at the token's time or later, but for the ones whose
\* etag the token lists.  An object without a time is reported every time.
ObjectsAfter(objects, since) ==
  {o \in objects : since = NoToken \/ (o.time >= since.time /\ o.etag \notin since.seen)}

\* _encode_token: the newest time and the etags of the objects at that time.
HighWater(objects, since) ==
  LET times == Times(objects) \cup (IF since = NoToken THEN {} ELSE {since.time})
  IN  IF times = {} THEN NoToken
      ELSE [time |-> Max(times), seen |-> {o.etag : o \in {x \in objects : x.time = Max(times)}}]

StorageChanged(src, since) ==
  Answer(Parts(ObjectsAfter(Latest(src), since)), HighWater(Latest(src), since), TRUE)

UntimedChanged(src, since) == Answer(Parts(Latest(src)), NoToken, TRUE)

-----------------------------------------------------------------------------
\* DeltaCatalog.changed: the commits still in the log after the token's version, adds
\* and removes alike; without a token, the last checkpoint if it can be read.
Baseline(src, since) == since = NoToken /\ src.checkpoint > 0

DeltaStart(src, since) ==
  IF since # NoToken THEN since
  ELSE IF Baseline(src, since) /\ src.readable THEN src.checkpoint ELSE 0

CommitsAfter(src, start) == {src.log[v] : v \in {u \in src.first .. Len(src.log) : u > start}}

DeltaChanged(src, since) ==
  IF src.log = << >> THEN Answer({}, since, TRUE)
  ELSE Answer((IF Baseline(src, since) /\ src.readable
               THEN Parts(LatestUpTo(src.log, src.checkpoint)) ELSE {})
              \cup Parts(CommitsAfter(src, DeltaStart(src, since))),
              Len(src.log),
              ~(Baseline(src, since) /\ ~src.readable))

-----------------------------------------------------------------------------
\* IcebergCatalog.changed: the snapshots not expired, in the order of their times and
\* ids; the ones after the token's, or all of them if the token's has expired.
Earlier(s, t) == s.time < t.time \/ (s.time = t.time /\ s.id < t.id)

IcebergChanged(src, since) ==
  LET snapshots == {src.log[i] : i \in src.first .. Len(src.log)}
      known     == {k \in snapshots : k.id = since}
      complete  == since = NoToken \/ known # {}
      parts     == Parts({s \in snapshots : \A k \in known : Earlier(k, s)})
      newest    == CHOOSE s \in snapshots : \A o \in snapshots \ {s} : Earlier(o, s)
  IN  IF snapshots = {} THEN Answer({}, since, TRUE)
      ELSE Answer(IF ~complete /\ parts = {} THEN {Whole} ELSE parts, newest.id, complete)

-----------------------------------------------------------------------------
\* BigQuery.changed: partitions whose last_modified_time is past the token.
PartitionTimesChanged(src, since) ==
  LET rows == Latest(src)
  IN  Answer(Parts({r \in rows : since = NoToken \/ r.time > since}),
             IF rows = {} THEN since
             ELSE Max(Times(rows) \cup (IF since = NoToken THEN {} ELSE {since})),
             TRUE)

\* Snowflake._changed_by_watermark: the rows past the token, which is cut to seconds.
WatermarkChanged(src, since) ==
  LET rows == {r \in Latest(src) : since = NoToken \/ r.time > since}
  IN  Answer(Parts(rows), IF rows = {} THEN since ELSE Second(Max(Times(rows))), TRUE)

\* Snowflake._changed_by_last_altered: the whole table, or nothing.
AlteredChanged(src, since) ==
  IF src.log = << >> THEN Answer({}, since, TRUE)
  ELSE LET token == Second(Last(src.log).time)
       IN  IF since # NoToken /\ token <= since THEN Answer({}, since, TRUE)
           ELSE Answer({Whole}, token, TRUE)

Changed(kind, src, since) ==
  CASE kind = "storage"   -> StorageChanged(src, since)
    [] kind = "untimed"   -> UntimedChanged(src, since)
    [] kind = "delta"     -> DeltaChanged(src, since)
    [] kind = "iceberg"   -> IcebergChanged(src, since)
    [] kind = "bigquery"  -> PartitionTimesChanged(src, since)
    [] kind = "watermark" -> WatermarkChanged(src, since)
    [] kind = "altered"   -> AlteredChanged(src, since)

-----------------------------------------------------------------------------
(***************************************************************************)
(* fathom detect and fathom plan --detect: Project.detect and Project.plan *)
(* of cli/project.py ask every configured source what changed since its    *)
(* resume token, and move the token, one source after the other.  Other    *)
(* runs, and the writers of the sources, do so between any two steps; a    *)
(* run can end early (a crash, a source that cannot be read).              *)
(***************************************************************************)

CONSTANTS Procs,
          Partitions,
          Etags,       \* the contents a write may give an object
          Projects,    \* the projects considered, see DetectAssumption
          MaxTime      \* bound: instants of the sources' clock

\* A project is the kinds of its sources in the order of fathom.yml and the bounds of
\* its run: which commands run, how many overlap and how many end early, and how many
\* writes a source takes.
ASSUME DetectAssumption ==
  /\ MaxTime \in Nat /\ Whole \notin Partitions
  /\ NoToken \notin Nat /\ NoToken \notin [time : Nat, seen : SUBSET ({0} \cup Etags)]
  /\ \A prj \in Projects :
       /\ prj.sources \in Seq({"storage", "untimed", "delta", "iceberg", "bigquery", "watermark",
                              "altered"})
       /\ prj.commands \subseteq {"detect", "plan"}
       /\ {prj.overlap, prj.breaks, prj.writes} \subseteq Nat

VARIABLES project,
          clock, source,          \* the sources' clock; each source, see Changes
          token,                  \* the store's resume tokens
          run,                    \* the command each process has under way
          breaks,
          told,                   \* history: the writes some command reported,
          asked,                  \* the last instant each source was asked at,
          settled,                \* the sources whose token is up to date,
          gaps                    \* the sources that met a known gap (see README)

world   == <<project, clock, source>>
history == <<told, asked, settled, gaps>>
vars    == <<world, token, run, breaks, history>>

Sources == DOMAIN project.sources
Kind(s) == project.sources[s]
Log(s)  == source[s].log
Ask(s, since) == Changed(Kind(s), source[s], since)

\* The locals of a command: the source it is at, the token it read and the one to set,
\* and what the sources before answered.
Idle == [pc |-> "idle", command |-> "detect", at |-> 1, since |-> NoToken, answers |-> << >>]

\* The tokens of a source that are stored or that a command holds.
Held(s) ==
  {token[s]} \cup {run[p].since : p \in {q \in Procs : run[q].pc \in {"ask", "set"} /\ run[q].at = s}}

\* A write is covered by what an answer names.
Names(parts, w) == w.part \in parts \/ Whole \in parts

-----------------------------------------------------------------------------
Init ==
  /\ project \in Projects
  /\ clock = 1
  /\ source = [s \in Sources |-> [log |-> << >>, first |-> 1, checkpoint |-> 0, readable |-> TRUE]]
  /\ token = [s \in Sources |-> NoToken]
  /\ run = [p \in Procs |-> Idle]
  /\ breaks = 0
  /\ told = [s \in Sources |-> {}] /\ asked = [s \in Sources |-> 0]
  /\ settled = {} /\ gaps = {}

Tick ==
  /\ clock < MaxTime
  /\ clock' = clock + 1
  /\ UNCHANGED <<project, source, token, run, breaks, history>>

\* The writes the code is known to miss: contents an object had before; a write at an
\* instant already asked about, where the clock is all there is to tell writes apart.
MeetsGap(s, w) ==
  CASE Kind(s) = "storage" -> \E i \in DOMAIN Log(s) : Log(s)[i].etag = w.etag
    [] Kind(s) = "iceberg" -> \E i \in DOMAIN Log(s) : Log(s)[i].time = w.time /\ Log(s)[i].id > w.id
    [] Kind(s) \in {"bigquery", "watermark"} -> asked[s] = w.time
    [] Kind(s) = "altered" -> asked[s] > 0 /\ Second(asked[s]) = Second(w.time)
    [] OTHER -> FALSE

\* A write to a source.  An object that keeps its contents is not written; a removal
\* takes a partition that is there.
Write(s, w) ==
  /\ Len(Log(s)) < project.writes
  /\ w.time = clock
  /\ w.etag # 0 <=> Kind(s) = "storage"
  /\ \A x \in Latest(source[s]) : x.part = w.part => w.etag = 0 \/ x.etag # w.etag
  /\ w.id # 0 <=> Kind(s) = "iceberg"
  /\ w.id <= project.writes
  /\ \A i \in DOMAIN Log(s) : w.id # 0 => Log(s)[i].id # w.id
  /\ w.gone => Kind(s) = "delta" /\ token[s] # NoToken
               /\ \E x \in Latest(source[s]) : x.part = w.part
  /\ source' = [source EXCEPT ![s].log = Append(@, w)]
  /\ settled' = settled \ {s}
  /\ gaps' = IF MeetsGap(s, w) THEN gaps \cup {s} ELSE gaps
  /\ UNCHANGED <<project, clock, token, run, breaks, told, asked>>

\* Delta condenses its log, in a layout this reader may not understand, and deletes
\* the commits before the checkpoint.
Checkpoint(s) ==
  /\ Kind(s) = "delta" /\ source[s].checkpoint < Len(Log(s))
  /\ \E readable \in BOOLEAN :
       source' = [source EXCEPT ![s].checkpoint = Len(Log(s)), ![s].readable = readable]
  /\ UNCHANGED <<project, clock, token, run, breaks, history>>

CleanUp(s) ==
  /\ Kind(s) = "delta" /\ source[s].first < source[s].checkpoint
  /\ source' = [source EXCEPT ![s].first = @ + 1]
  /\ gaps' = IF \E t \in Held(s) \ {NoToken} : source[s].first > t THEN gaps \cup {s} ELSE gaps
  /\ UNCHANGED <<project, clock, token, run, breaks, told, asked, settled>>

\* Iceberg expires its oldest snapshot.
Expire(s) ==
  /\ Kind(s) = "iceberg" /\ source[s].first < Len(Log(s))
  /\ source' = [source EXCEPT ![s].first = @ + 1]
  /\ gaps' = IF NoToken \in Held(s) THEN gaps \cup {s} ELSE gaps
  /\ UNCHANGED <<project, clock, token, run, breaks, told, asked, settled>>

-----------------------------------------------------------------------------
Start(p) ==
  /\ run[p].pc = "idle"
  /\ Cardinality({q \in Procs : run[q].pc # "idle"}) < project.overlap
  /\ \E c \in project.commands : run' = [run EXCEPT ![p].pc = "next", ![p].command = c]
  /\ UNCHANGED <<world, token, breaks, history>>

GetToken(p) ==
  /\ run[p].pc = "next" /\ run[p].at \in Sources
  /\ run' = [run EXCEPT ![p].pc = "ask", ![p].since = token[run[p].at]]
  /\ UNCHANGED <<world, token, breaks, history>>

\* A first answer from a Delta checkpoint does not know the partitions removed before it; of
\* an answer that is not complete plan takes the partitions alone.
RemovedBeforeBaseline(s, since) ==
  /\ Kind(s) = "delta" /\ Baseline(source[s], since) /\ source[s].readable
  /\ \E i \in 1 .. source[s].checkpoint : Log(s)[i].gone

\* changes = adapter.changed(dataset, token); an empty token is not stored.
AskSource(p) ==
  /\ run[p].pc = "ask"
  /\ LET s == run[p].at
         a == Ask(s, run[p].since)
     IN  /\ run' = [run EXCEPT ![p].since = a.token,
                      ![p].pc = IF a.token = NoToken THEN "next" ELSE "set",
                      ![p].at = IF a.token = NoToken THEN @ + 1 ELSE @,
                      ![p].answers = Append(@, [parts |-> a.parts, complete |-> a.complete,
                                                upto |-> Len(Log(s))])]
         /\ asked' = [asked EXCEPT ![s] = clock]
         /\ gaps' = IF \/ RemovedBeforeBaseline(s, run[p].since)
                       \/ run[p].command = "plan" /\ ~a.complete
                    THEN gaps \cup {s} ELSE gaps
  /\ UNCHANGED <<world, token, breaks, told, settled>>

SetToken(p) ==
  /\ run[p].pc = "set"
  /\ LET s == run[p].at
     IN  /\ token' = [token EXCEPT ![s] = run[p].since]
         /\ settled' = IF Last(run[p].answers).upto = Len(Log(s))
                       THEN settled \cup {s} ELSE settled \ {s}
  /\ run' = [run EXCEPT ![p].pc = "next", ![p].at = @ + 1, ![p].since = NoToken]
  /\ UNCHANGED <<world, breaks, told, asked, gaps>>

\* The writes an answer reports to whoever ran the command.  detect says when a source
\* could not enumerate; plan takes the partitions alone.
Reported(s, a, command) ==
  {i \in 1 .. a.upto : Names(a.parts, Log(s)[i]) \/ (command = "detect" /\ ~a.complete)}

Report(p) ==
  /\ run[p].pc = "next" /\ run[p].at \notin Sources
  /\ LET answers == run[p].answers
     IN  told' = [s \in Sources |-> told[s] \cup Reported(s, answers[s], run[p].command)]
  /\ run' = [run EXCEPT ![p] = Idle]
  /\ UNCHANGED <<world, token, breaks, asked, settled, gaps>>

\* The run ends early: what it asked is never shown.
Break(p) ==
  /\ run[p].pc # "idle" /\ breaks < project.breaks
  /\ breaks' = breaks + 1
  /\ run' = [run EXCEPT ![p] = Idle]
  /\ gaps' = gaps \cup {s \in DOMAIN run[p].answers : run[p].pc # "set" \/ s # run[p].at}
  /\ UNCHANGED <<world, token, told, asked, settled>>

-----------------------------------------------------------------------------
Writes == [part : Partitions, time : 1 .. MaxTime, etag : {0} \cup Etags, id : 0 .. MaxTime,
           gone : BOOLEAN]

World ==
  \/ Tick
  \/ \E s \in Sources : Checkpoint(s) \/ CleanUp(s) \/ Expire(s) \/ \E w \in Writes : Write(s, w)

Step(p) == Start(p) \/ GetToken(p) \/ AskSource(p) \/ SetToken(p) \/ Report(p)

Next == World \/ \E p \in Procs : Step(p) \/ Break(p)

Spec == Init /\ [][Next]_vars

-----------------------------------------------------------------------------
\* A command holds one answer per source it is past, a checkpoint and a retained
\* commit exist, and what was told was written.
TypeOK ==
  /\ \A s \in Sources :
       /\ told[s] \subseteq DOMAIN Log(s)
       /\ source[s].checkpoint \in 0 .. Len(Log(s)) /\ source[s].first \in 1 .. Len(Log(s)) + 1
  /\ \A p \in Procs :
       /\ run[p].pc \in {"idle", "next", "ask", "set"}
       /\ Len(run[p].answers) = IF run[p].pc = "set" THEN run[p].at ELSE run[p].at - 1
  /\ settled \subseteq Sources /\ gaps \subseteq Sources

\* A command under way has the write in an answer it will report.
InFlight(s, i) ==
  \E p \in Procs : s \in DOMAIN run[p].answers /\ i \in Reported(s, run[p].answers[s], run[p].command)

\* Asked again, source s would report the write.
ToBeReported(s, i) ==
  LET a == Ask(s, token[s]) IN ~a.complete \/ Names(a.parts, Log(s)[i])

Omitted(s) ==
  {i \in DOMAIN Log(s) : ~(i \in told[s] \/ InFlight(s, i) \/ ToBeReported(s, i))}

\* Outside the known gaps a token never passes a write that nobody was told of, however
\* commands overlap, tokens move back, logs are condensed and snapshots expire.
OmitsOnlyInGaps == \A s \in Sources \ gaps : Omitted(s) = {}

\* ObjectStorage.changed, "a quiet dataset converges to reporting nothing"; detect,
\* "two runs in a row report the second as empty": a source nobody wrote to since it
\* was asked answers nothing.
QuietSourceIsSilent ==
  \A s \in settled \ gaps : Kind(s) # "watermark" => Ask(s, token[s]).parts = {}
=============================================================================
