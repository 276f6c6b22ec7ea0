---------------------------- MODULE IngestProofs ----------------------------
(***************************************************************************)
(* What ingest promises, for every project and any number of processes.    *)
(* The invariant follows each run: the graph it has in hand, the cursor it *)
(* read, the revision it is about to record; the steps of the others leave *)
(* all of that true, since files only gain versions, the log of the        *)
(* platform, what was fetched and the revisions only grow.                 *)
(***************************************************************************)
EXTENDS Ingest, Rounds, FunctionTheorems, SequenceTheorems

IsSeq(s) == s \in Seq(ToSet(s))

-----------------------------------------------------------------------------
(* The operators of the model. *)

LEMMA GreatestNumber ==
  ASSUME NEW S \in SUBSET Nat, S # {}, NEW n \in Nat, \A x \in S : x <= n
  PROVE  Max(S) \in S /\ \A y \in S : y <= Max(S)
  <1> DEFINE T == {k \in Nat : \A x \in S : x <= k}
  <1>1. T \in SUBSET Nat /\ n \in T
    OBVIOUS
  <1>2. PICK m \in T : \A k \in T : m <= k
    <2> HIDE DEF T
    <2> QED BY <1>1, LeastNumber
  <1>3. m \in S
    <2>1. SUFFICES ASSUME m \notin S PROVE FALSE
      OBVIOUS
    <2>2. PICK x \in S : TRUE
      OBVIOUS
    <2>3. m \in Nat /\ m - 1 \in Nat /\ \A y \in S : y <= m - 1
      BY <1>2, <2>1, <2>2
    <2>4. m <= m - 1
      BY <1>2, <2>3
    <2> QED BY <2>3, <2>4
  <1>4. \A y \in S : m >= y
    BY <1>2
  <1> QED BY <1>3, <1>4 DEF Max

LEMMA SeqIsFunction ==
  ASSUME NEW s, IsSeq(s)
  PROVE  Len(s) \in Nat /\ DOMAIN s = 1 .. Len(s) /\ s = [i \in 1 .. Len(s) |-> s[i]]
  BY LenProperties DEF IsSeq

LEMMA FunctionIsSeq ==
  ASSUME NEW s, NEW n \in Nat, s = [i \in 1 .. n |-> s[i]]
  PROVE  IsSeq(s)
  BY DEF IsSeq, ToSet

LEMMA AppendIs ==
  ASSUME NEW s, IsSeq(s), NEW x
  PROVE  /\ IsSeq(Append(s, x)) /\ Len(Append(s, x)) = Len(s) + 1 /\ DOMAIN Append(s, x) = 1 .. Len(s) + 1
         /\ \A i \in 1 .. Len(s) : Append(s, x)[i] = s[i]
         /\ Append(s, x)[Len(s) + 1] = x
  <1> DEFINE X == ToSet(s) \cup {x}
             u == Append(s, x)
             k == Len(s) + 1
  <1>1. s \in Seq(X) /\ x \in X
    BY SeqMonotonic DEF IsSeq
  <1> HIDE DEF X
  <1>2. /\ u \in Seq(X) /\ Len(u) = k /\ \A i \in 1 .. Len(s) : u[i] = s[i]
        /\ u[k] = x
    BY <1>1, AppendProperties
  <1>3. k \in Nat
    BY SeqIsFunction
  <1> HIDE DEF u
  <1>4. DOMAIN u = 1 .. k /\ u \in [1 .. k -> X]
    BY <1>2, LenProperties
  <1> HIDE DEF k
  <1>5. u = [i \in 1 .. k |-> u[i]]
    BY <1>4
  <1>6. IsSeq(u)
    BY <1>3, <1>5, FunctionIsSeq
  <1> QED BY <1>2, <1>4, <1>6 DEF u, k

LEMMA ConcatIs ==
  ASSUME NEW s, NEW t, IsSeq(s), IsSeq(t)
  PROVE  /\ IsSeq(s \o t) /\ DOMAIN (s \o t) = 1 .. Len(s) + Len(t)
         /\ \A i \in 1 .. Len(s) : (s \o t)[i] = s[i]
         /\ \A i \in 1 .. Len(t) : (s \o t)[Len(s) + i] = t[i]
         /\ ToSet(s \o t) = ToSet(s) \cup ToSet(t)
  <1> DEFINE X == ToSet(s) \cup ToSet(t)
  <1>1. s \in Seq(X) /\ t \in Seq(X)
    BY SeqMonotonic DEF IsSeq
  <1>2. Len(s) \in Nat /\ Len(t) \in Nat /\ DOMAIN s = 1 .. Len(s) /\ DOMAIN t = 1 .. Len(t)
    BY SeqIsFunction
  <1> HIDE DEF X
  <1>3. /\ s \o t \in Seq(X) /\ Len(s \o t) = Len(s) + Len(t)
        /\ \A i \in 1 .. Len(s) + Len(t) : (s \o t)[i] = IF i <= Len(s) THEN s[i] ELSE t[i - Len(s)]
    BY <1>1, ConcatProperties
  <1>4. DOMAIN (s \o t) = 1 .. Len(s) + Len(t) /\ s \o t \in [1 .. Len(s) + Len(t) -> X]
    BY <1>3, LenProperties
  <1>5. IsSeq(s \o t)
    <2> DEFINE u == s \o t
               k == Len(s) + Len(t)
    <2>1. k \in Nat /\ u \in [1 .. k -> X]
      BY <1>2, <1>4
    <2> HIDE DEF u, k
    <2>2. IsSeq(u)
      <3>1. u = [i \in 1 .. k |-> u[i]]
        BY <2>1
      <3> QED BY <2>1, <3>1, FunctionIsSeq
    <2> QED BY <2>2 DEF u
  <1>6. \A i \in 1 .. Len(s) : i \in 1 .. Len(s) + Len(t) /\ (s \o t)[i] = s[i]
    BY <1>2, <1>3
  <1>7. \A i \in 1 .. Len(t) : Len(s) + i \in 1 .. Len(s) + Len(t) /\ (s \o t)[Len(s) + i] = t[i]
    BY <1>2, <1>3
  <1>8. \A i \in 1 .. Len(s) + Len(t) : i \in 1 .. Len(s) \/ \E j \in 1 .. Len(t) : i = Len(s) + j
    <2> SUFFICES ASSUME NEW i \in 1 .. Len(s) + Len(t), ~(i <= Len(s))
                 PROVE  i - Len(s) \in 1 .. Len(t) /\ i = Len(s) + (i - Len(s))
      BY <1>2
    <2> QED BY <1>2
  <1>9. ToSet(s \o t) = ToSet(s) \cup ToSet(t)
    <2> DEFINE u == s \o t
               k == Len(s) + Len(t)
    <2> HIDE DEF u, k
    <2>1. /\ DOMAIN u = 1 .. k /\ DOMAIN s = 1 .. Len(s) /\ DOMAIN t = 1 .. Len(t)
          /\ \A i \in 1 .. Len(s) : i \in 1 .. k /\ u[i] = s[i]
          /\ \A i \in 1 .. Len(t) : Len(s) + i \in 1 .. k /\ u[Len(s) + i] = t[i]
          /\ \A i \in 1 .. k : i \in 1 .. Len(s) \/ \E j \in 1 .. Len(t) : i = Len(s) + j
      BY <1>2, <1>4, <1>6, <1>7, <1>8 DEF u, k
    <2>2. ToSet(u) \subseteq ToSet(s) \cup ToSet(t)
      <3>1. ASSUME NEW i \in 1 .. k PROVE u[i] \in ToSet(s) \cup ToSet(t)
        <4>1. CASE i \in 1 .. Len(s)
          BY <2>1, <4>1 DEF ToSet
        <4>2. CASE \E j \in 1 .. Len(t) : i = Len(s) + j
          BY <2>1, <4>2 DEF ToSet
        <4> QED BY <2>1, <4>1, <4>2
      <3> QED BY <2>1, <3>1 DEF ToSet
    <2>3. ToSet(s) \subseteq ToSet(u)
      BY <2>1 DEF ToSet
    <2>4. ToSet(t) \subseteq ToSet(u)
      BY <2>1 DEF ToSet
    <2> QED BY <2>2, <2>3, <2>4 DEF u
  <1> QED BY <1>4, <1>5, <1>6, <1>7, <1>9

\* save_graph keeps one row of each key that a graph has, the last.
LEMMA LastFacts ==
  ASSUME NEW es, IsSeq(es)
  PROVE  /\ LastOfEachKey(es) \subseteq ToSet(es)
         /\ Keys(LastOfEachKey(es)) = Keys(ToSet(es))
         /\ \A e, x \in LastOfEachKey(es) : Key(e) = Key(x) => e = x
  <1>1. LastOfEachKey(es) \subseteq ToSet(es)
    BY DEF LastOfEachKey, ToSet
  <1>2. Len(es) \in Nat /\ DOMAIN es = 1 .. Len(es)
    BY SeqIsFunction
  <1>3. ASSUME NEW i \in DOMAIN es PROVE \E e \in LastOfEachKey(es) : Key(e) = Key(es[i])
    <2> DEFINE S == {j \in DOMAIN es : Key(es[j]) = Key(es[i])}
    <2>1. Max(S) \in S /\ \A y \in S : y <= Max(S)
      <3>1. S \in SUBSET Nat /\ S # {} /\ \A x \in S : x <= Len(es)
        BY <1>2
      <3> HIDE DEF S
      <3> QED BY <1>2, <3>1, GreatestNumber
    <2>2. \A k \in DOMAIN es : k > Max(S) => Key(es[k]) # Key(es[Max(S)])
      <3> DEFINE m == Max(S)
      <3>1. m \in S /\ \A y \in S : y <= m
        BY <2>1
      <3> HIDE DEF m
      <3>2. \A k \in DOMAIN es : k > m => k \notin S
        BY <3>1, <1>2
      <3>3. \A k \in DOMAIN es : k > m => Key(es[k]) # Key(es[m])
        BY <3>1, <3>2
      <3> QED BY <3>3 DEF m
    <2>3. es[Max(S)] \in LastOfEachKey(es)
      BY <2>1, <2>2 DEF LastOfEachKey
    <2> QED BY <2>1, <2>3
  <1>4. Keys(LastOfEachKey(es)) = Keys(ToSet(es))
    BY <1>1, <1>3 DEF Keys, ToSet
  <1>5. ASSUME NEW e \in LastOfEachKey(es), NEW x \in LastOfEachKey(es), Key(e) = Key(x) PROVE e = x
    <2>1. PICK i \in DOMAIN es : e = es[i] /\ \A k \in DOMAIN es : k > i => Key(es[k]) # Key(es[i])
      BY DEF LastOfEachKey
    <2>2. PICK j \in DOMAIN es : x = es[j] /\ \A k \in DOMAIN es : k > j => Key(es[k]) # Key(es[j])
      BY DEF LastOfEachKey
    <2>3. ~(i < j) /\ ~(j < i)
      BY <1>2, <1>5, <2>1, <2>2
    <2> QED BY <1>2, <2>1, <2>2, <2>3
  <1> QED BY <1>1, <1>4, <1>5

\* What is said later replaces what is said of the same dependency before.
LEMMA LastOfConcat ==
  ASSUME NEW s, NEW t, IsSeq(s), IsSeq(t)
  PROVE  LastOfEachKey(s \o t) = {e \in LastOfEachKey(s) : Key(e) \notin Keys(ToSet(t))} \cup LastOfEachKey(t)
  <1> DEFINE u == s \o t
             m == Len(s)
             n == Len(t)
             Closing(es, i) == \A k \in DOMAIN es : k > i => Key(es[k]) # Key(es[i])
  <1>1. /\ m \in Nat /\ n \in Nat /\ DOMAIN s = 1 .. m /\ DOMAIN t = 1 .. n
        /\ DOMAIN u = 1 .. m + n
        /\ \A i \in 1 .. m : u[i] = s[i]
        /\ \A i \in 1 .. n : u[m + i] = t[i]
    BY SeqIsFunction, ConcatIs
  <1> HIDE DEF u, m, n
  <1>2. \A i \in 1 .. m + n : i \in 1 .. m \/ (i - m \in 1 .. n /\ i = m + (i - m))
    BY <1>1
  <1>3. ASSUME NEW i \in 1 .. m
        PROVE  i \in DOMAIN u /\ (Closing(u, i) <=> Closing(s, i) /\ Key(s[i]) \notin Keys(ToSet(t)))
    <2>1. i \in DOMAIN u /\ u[i] = s[i]
      BY <1>1
    <2>2. ASSUME Closing(u, i) PROVE Closing(s, i) /\ Key(s[i]) \notin Keys(ToSet(t))
      <3>1. \A k \in 1 .. m : k \in DOMAIN u
        BY <1>1
      <3>2. \A k \in 1 .. n : m + k \in DOMAIN u /\ m + k > i
        BY <1>1
      <3> QED BY <1>1, <2>1, <2>2, <3>1, <3>2 DEF Keys, ToSet
    <2>3. ASSUME Closing(s, i), Key(s[i]) \notin Keys(ToSet(t)) PROVE Closing(u, i)
      BY <1>1, <1>2, <2>1, <2>3 DEF Keys, ToSet
    <2> QED BY <2>1, <2>2, <2>3
  <1>4. ASSUME NEW j \in 1 .. n
        PROVE  m + j \in DOMAIN u /\ (Closing(u, m + j) <=> Closing(t, j))
    <2>1. m + j \in DOMAIN u /\ u[m + j] = t[j]
      BY <1>1
    <2>2. ASSUME Closing(u, m + j) PROVE Closing(t, j)
      <3>1. \A k \in 1 .. n : k > j => m + k \in DOMAIN u /\ m + k > m + j
        BY <1>1
      <3> QED BY <1>1, <2>1, <2>2, <3>1
    <2>3. ASSUME Closing(t, j) PROVE Closing(u, m + j)
      <3> SUFFICES ASSUME NEW k \in DOMAIN u, k > m + j PROVE Key(u[k]) # Key(u[m + j])
        OBVIOUS
      <3>1. k - m \in 1 .. n /\ k = m + (k - m) /\ k - m > j
        BY <1>1
      <3> QED BY <1>1, <2>1, <2>3, <3>1
    <2> QED BY <2>1, <2>2, <2>3
  <1>5. \A es : LastOfEachKey(es) = {es[i] : i \in {j \in DOMAIN es : Closing(es, j)}}
    BY DEF LastOfEachKey
  <1> HIDE DEF Closing
  <1>6. ASSUME NEW e \in LastOfEachKey(u)
        PROVE  e \in LastOfEachKey(t) \/ (e \in LastOfEachKey(s) /\ Key(e) \notin Keys(ToSet(t)))
    <2>1. PICK i \in DOMAIN u : e = u[i] /\ Closing(u, i)
      BY <1>5
    <2>2. CASE i \in 1 .. m
      BY <1>1, <1>3, <1>5, <2>1, <2>2
    <2>3. CASE i - m \in 1 .. n /\ i = m + (i - m)
      <3> DEFINE j == i - m
      <3>1. j \in 1 .. n /\ i = m + j
        BY <2>3
      <3> HIDE DEF j
      <3> QED BY <1>1, <1>4, <1>5, <2>1, <3>1
    <2> QED BY <1>1, <1>2, <2>1, <2>2, <2>3
  <1>7. ASSUME NEW e \in LastOfEachKey(t) PROVE e \in LastOfEachKey(u)
    <2>1. PICK j \in DOMAIN t : e = t[j] /\ Closing(t, j)
      BY <1>5
    <2> QED BY <1>1, <1>4, <1>5, <2>1
  <1>8. ASSUME NEW e \in LastOfEachKey(s), Key(e) \notin Keys(ToSet(t)) PROVE e \in LastOfEachKey(u)
    <2>1. PICK i \in DOMAIN s : e = s[i] /\ Closing(s, i)
      BY <1>5
    <2> QED BY <1>1, <1>3, <1>5, <1>8, <2>1
  <1> QED BY <1>6, <1>7, <1>8 DEF u

-----------------------------------------------------------------------------
(* The invariants. *)

\* A run has a graph in hand until it turns to the revisions; until then what it fetched
\* is in no table.
Building == {"read", "fetch", "advance", "edges", "save"}
Holding  == Building \cup {"log"}

Rec(pc, at, current, since, native, previous, revision) ==
  [pc |-> pc, at |-> at, current |-> current, since |-> since, native |-> native, previous |-> previous,
   revision |-> revision]

IsGraph(g) ==
  /\ g = [specs |-> g.specs, edges |-> g.edges]
  /\ IsSeq(g.edges) /\ EndsOf(ToSet(g.edges)) \subseteq DOMAIN g.specs

\* Where a run is among its sources.
IsPlace(pc, at, previous) ==
  /\ pc \in Phases /\ at \in 1 .. Len(Sources) + 1
  /\ pc \in {"fetch", "advance"} => at <= Len(Sources) /\ Sources[at] = Adapter
  /\ pc \in {"edges", "save"} =>
       at = Len(Sources) + 1 /\ previous = [specs |-> previous.specs, edges |-> previous.edges]

RunTyped(r) ==
  /\ r = Rec(r.pc, r.at, r.current, r.since, r.native, r.previous, r.revision)
  /\ IsGraph(r.current) /\ IsPlace(r.pc, r.at, r.previous)

WorldTyped ==
  /\ project \in Projects /\ declared \in project.declarations
  /\ \A f \in Files : content[f] \in Versions[f] /\ content[f] \in versions[f] /\ versions[f] \subseteq Versions[f]
  /\ DOMAIN content = Files /\ DOMAIN versions = Files
  /\ now \in Nat /\ now <= Len(Event) /\ landed \subseteq 1 .. now /\ fetched \subseteq landed
  /\ \A t \in 1 .. now : t < now /\ t + Lag <= now => t \in landed

StoreTyped ==
  /\ rows = [specs |-> rows.specs, edges |-> rows.edges]
  /\ \A e, x \in rows.edges : Key(e) = Key(x) => e = x
  /\ EndsOf(rows.edges) \subseteq DOMAIN rows.specs
  /\ IsSeq(revisions)

Typed ==
  /\ WorldTyped /\ StoreTyped
  /\ DOMAIN run = Procs /\ \A p \in Procs : RunTyped(run[p])
  /\ undisturbed \in [Procs -> BOOLEAN]

-----------------------------------------------------------------------------
\* What a graph says of a file, as save_graph will store it.
Part(es, f) == {e \in LastOfEachKey(es) : e.evidence = f}

OfOneVersion(es, f) == Part(es, f) = {} \/ \E c \in versions[f] : Part(es, f) = Stated(f, c)
NothingOf(es, f)    == \A e \in ToSet(es) : e.evidence # f

\* A file's part of a graph is of one version, and no file is in it before it is read.
FromOneVersion(r) ==
  r.pc \in Holding =>
    /\ \A f \in Files : OfOneVersion(r.current.edges, f)
    /\ \A i \in r.at .. Len(Sources) : Sources[i] \in Files => NothingOf(r.current.edges, Sources[i])

GraphsAreOfOneVersion == \A p \in Procs : FromOneVersion(run[p])

VersionsInv == GraphsAreOfOneVersion /\ OneVersionPerFile

-----------------------------------------------------------------------------
\* Everything up to a time has been fetched, but for rows crowded out of Databricks' view.
CoveredBy(x, until, known, out) ==
  /\ x \in Int /\ x <= until
  /\ \A t \in 1 .. until : t <= x =>
       t \in known \/ (project.platform = "databricks" /\ t \in out \ project.columns)

Covered(x) == CoveredBy(x, now, fetched, crowded)

CursorInv ==
  /\ Covered(token)
  /\ \A p \in Procs : /\ run[p].pc = "fetch" => Covered(run[p].since)
                      /\ run[p].pc = "advance" => Covered(LineageToken(run[p].native))

-----------------------------------------------------------------------------
\* A project whose configuration declares a dataset: the others lose what they fetch.
Declaring == \A prj \in Projects : \A s \in prj.declarations : DOMAIN s # {}

KeyOf(t) == Key(Edge(Event[t], EvidenceOf(t)))

GraphsHaveDatasets == \A p \in Procs : run[p].pc \in Holding => DOMAIN run[p].current.specs # {}

\* What was fetched is in the store, or on its way there.
OnItsWay(t) ==
  \/ KeyOf(t) \in Keys(rows.edges)
  \/ \E p \in Procs : run[p].pc \in Building /\ KeyOf(t) \in Keys(ToSet(run[p].current.edges))

FetchedInv == GraphsHaveDatasets /\ (~cut => \A t \in fetched : OnItsWay(t))

\* The graph of a run that nothing disturbed says what the files and the configuration
\* say, and once it is saved so does the store.
GraphIsExact(r) ==
  /\ \A i \in 1 .. r.at - 1 : Sources[i] \in Files =>
       Part(r.current.edges, Sources[i]) = Stated(Sources[i], content[Sources[i]])
  /\ \A d \in DOMAIN declared : d \in DOMAIN r.current.specs /\ r.current.specs[d] = declared[d]

StoreIsExact ==
  /\ \A f \in Files : StoredOf(f) = Stated(f, content[f])
  /\ \A d \in DOMAIN declared : rows.specs[d] = declared[d]

RunIsExact(r) ==
  /\ r.pc \in Building => GraphIsExact(r)
  /\ r.pc \in {"log", "append"} => StoreIsExact

ExactInv == GraphsHaveDatasets /\ \A p \in Procs : undisturbed[p] => RunIsExact(run[p])

-----------------------------------------------------------------------------
\* A revision's difference is that of its own graphs, and its parent is in the log.
Truthful(r) ==
  r.parent # None =>
    /\ \E j \in DOMAIN revisions : revisions[j].digest = r.parent
    /\ r.diff.added = Keys(EdgesOf(r.digest)) \ Keys(EdgesOf(r.parent))
    /\ r.diff.removed = Keys(EdgesOf(r.parent)) \ Keys(EdgesOf(r.digest))

\* When runs do not overlap, the head a run read is still the head.
ExtendsTheChain(r) ==
  Len(revisions) <= RevisionLimit => r.parent = IF revisions = << >> THEN None ELSE Last(revisions).digest

RevisionsInv ==
  /\ \A i \in DOMAIN revisions : revisions[i] # None
  /\ TrueAttribution /\ RevisionsFormAChain
  /\ \A p \in Procs : run[p].pc = "append" => run[p].revision # None /\ Truthful(run[p].revision)
  /\ project.overlap = 1 =>
       /\ \A p, q \in Procs : run[p].pc # "idle" /\ run[q].pc # "idle" => p = q
       /\ \A p \in Procs : run[p].pc = "append" => ExtendsTheChain(run[p].revision)

-----------------------------------------------------------------------------
(* Sequences of edges. *)

LEMMA InOrderIs ==
  ASSUME NEW S \in SUBSET Nat, IsFiniteSet(S)
  PROVE  IsSeq(InOrder(S)) /\ ToSet(InOrder(S)) = S
  <1> DEFINE n == Cardinality(S)
             at == [i \in 1 .. n |-> CHOOSE t \in S : PlaceIn(S, t) = i]
  <1>1. /\ n \in Nat /\ \A t \in S : PlaceIn(S, t) \in 1 .. n
        /\ \A s, t \in S : PlaceIn(S, s) = PlaceIn(S, t) => s = t
        /\ \A i \in 1 .. n : \E t \in S : PlaceIn(S, t) = i
    BY PlacesTaken
  <1>2. InOrder(S) = at
    BY DEF InOrder, PlaceIn
  <1>3. \A i \in 1 .. n : at[i] \in S /\ PlaceIn(S, at[i]) = i
    BY <1>1
  <1>4. \A t \in S : at[PlaceIn(S, t)] = t
    BY <1>1, <1>3
  <1>5. DOMAIN at = 1 .. n /\ at = [i \in 1 .. n |-> at[i]]
    OBVIOUS
  <1> HIDE DEF at, n
  <1>6. IsSeq(at)
    BY <1>1, <1>5, FunctionIsSeq
  <1>7. ToSet(at) = S
    BY <1>1, <1>3, <1>4, <1>5 DEF ToSet
  <1> QED BY <1>2, <1>6, <1>7

LEMMA Enumerated ==
  ASSUME NEW E, IsFiniteSet(E)
  PROVE  IsSeq(SetToSeq(E)) /\ ToSet(SetToSeq(E)) = E
  <1> DEFINE n == Cardinality(E)
             s == SetToSeq(E)
  <1>1. n \in Nat /\ ExistsBijection(1 .. n, E)
    BY FS_CardinalityType
  <1>2. PICK f : f \in [1 .. n -> E] /\ IsInjective(f)
    BY <1>1 DEF ExistsBijection, Bijection, Injection
  <1>3. s \in [1 .. n -> E] /\ IsInjective(s)
    BY <1>2 DEF SetToSeq
  <1>4. IsFiniteSet(1 .. n) /\ Cardinality(1 .. n) = n
    BY <1>1, FS_Interval
  <1> HIDE DEF s
  <1>5. s \in Surjection(1 .. n, E)
    <2>1. s \in Injection(1 .. n, E)
      BY <1>3 DEF Injection
    <2> QED BY <2>1, <1>4, FS_Injection
  <1>6. ToSet(s) = E
    BY <1>3, <1>5 DEF ToSet, Surjection
  <1>7. s \in Seq(E)
    <2> HIDE DEF n
    <2> QED BY <1>1, <1>3
  <1> QED BY <1>6, <1>7 DEF s, IsSeq

LEMMA FileEdgesAre ==
  ASSUME NEW f, NEW c, IsSeq(c)
  PROVE  IsSeq(FileEdges(f, c)) /\ \A e \in ToSet(FileEdges(f, c)) : e.evidence = f
  <1>1. Len(c) \in Nat /\ DOMAIN c = 1 .. Len(c)
    BY SeqIsFunction
  <1>2. FileEdges(f, c) = [i \in 1 .. Len(c) |-> FileEdges(f, c)[i]]
    BY <1>1 DEF FileEdges
  <1>3. IsSeq(FileEdges(f, c))
    BY <1>1, <1>2, FunctionIsSeq
  <1> QED BY <1>3 DEF FileEdges, Edge, ToSet

\* What the adapters report, of any set of times: not under the evidence of a file, and
\* the dependency of every time.
Native(es, times) ==
  /\ IsSeq(es) /\ \A e \in ToSet(es) : e.evidence \notin Files
  /\ \A t \in times : KeyOf(t) \in Keys(ToSet(es))

LEMMA TimesAre ==
  ASSUME WorldTyped
  PROVE  /\ Times = 1 .. Len(Event) /\ Len(Event) \in Nat
         /\ \A times \in SUBSET Times : times \in SUBSET Nat /\ IsFiniteSet(times)
  <1>1. Times = 1 .. Len(Event) /\ Len(Event) \in Nat
    BY IngestAssumption DEF IngestAssumption, WorldTyped, Times, Event
  <1>2. IsFiniteSet(Times)
    BY <1>1, FS_Interval
  <1>3. ASSUME NEW times \in SUBSET Times PROVE times \in SUBSET Nat /\ IsFiniteSet(times)
    <2>1. times \in SUBSET Nat
      BY <1>1
    <2>2. IsFiniteSet(times)
      BY <1>2, FS_Subset
    <2> QED BY <2>1, <2>2
  <1> QED BY <1>1, <1>3

LEMMA QueriesAreNoFiles ==
  ASSUME WorldTyped, NEW times \in SUBSET Times
  PROVE  IsSeq(EventEdges(times, QueryLog)) /\ \A e \in ToSet(EventEdges(times, QueryLog)) : e.evidence \notin Files
  <1>1. times \in SUBSET Nat /\ IsFiniteSet(times)
    BY TimesAre
  <1> DEFINE o == InOrder(times)
             es == EventEdges(times, QueryLog)
  <1>2. Len(o) \in Nat /\ DOMAIN o = 1 .. Len(o)
    BY <1>1, InOrderIs, SeqIsFunction
  <1>3. es = [i \in DOMAIN o |-> Edge(Event[o[i]], QueryLog)]
    BY DEF EventEdges
  <1> HIDE DEF o, es
  <1>4. IsSeq(es)
    <2>1. es = [i \in 1 .. Len(o) |-> es[i]]
      BY <1>2, <1>3
    <2> QED BY <1>2, <2>1, FunctionIsSeq
  <1>5. \A e \in ToSet(es) : e.evidence = QueryLog
    BY <1>3 DEF ToSet, Edge
  <1>6. QueryLog \notin Files
    BY EvidenceAssumption DEF EvidenceAssumption, WorldTyped, Files
  <1> QED BY <1>4, <1>5, <1>6 DEF es

LEMMA NativeIs ==
  ASSUME WorldTyped, NEW times \in SUBSET Times
  PROVE  Native(NativeEdges(times), times)
  <1>1. times \in SUBSET Nat /\ IsFiniteSet(times)
    BY TimesAre
  <1>2. \A t \in times : AccessHistory \notin Files /\ UnityCatalog \notin Files /\ JobOf(t) \notin Files
    BY EvidenceAssumption DEF EvidenceAssumption, WorldTyped, Files, Times, Event
  <1>3. project.platform \in {"snowflake", "databricks", "bigquery"}
    BY IngestAssumption DEF IngestAssumption, WorldTyped
  <1> DEFINE o == InOrder(times)
  <1>4. Len(o) \in Nat /\ DOMAIN o = 1 .. Len(o) /\ ToSet(o) = times
    BY <1>1, InOrderIs, SeqIsFunction
  <1>5. \A t \in times : \E i \in DOMAIN o : t = o[i]
    BY <1>4 DEF ToSet
  <1>6. \A i \in DOMAIN o : o[i] \in times
    BY <1>4 DEF ToSet
  <1>7. CASE project.platform = "snowflake"
    <2> DEFINE es == EventEdges(times, AccessHistory)
    <2>1. es = [i \in DOMAIN o |-> Edge(Event[o[i]], AccessHistory)]
      BY DEF EventEdges
    <2> HIDE DEF o, es
    <2>2. IsSeq(es)
      <3>1. es = [i \in 1 .. Len(o) |-> es[i]]
        BY <1>4, <2>1
      <3> QED BY <1>4, <3>1, FunctionIsSeq
    <2>3. \A e \in ToSet(es) : e.evidence \notin Files
      BY <1>2, <1>6, <2>1 DEF ToSet, Edge
    <2>4. \A t \in times : KeyOf(t) \in Keys(ToSet(es))
      BY <1>5, <1>7, <2>1 DEF ToSet, Keys, KeyOf, EvidenceOf
    <2>5. NativeEdges(times) = es
      BY <1>7 DEF NativeEdges, es
    <2> QED BY <2>2, <2>3, <2>4, <2>5 DEF Native
  <1>8. CASE project.platform = "bigquery"
    <2> DEFINE es == JobEdges(times)
    <2>1. es = [i \in DOMAIN o |-> [Edge(Event[o[i]], JobOf(o[i])) EXCEPT !.detail = "tables"]]
      BY DEF JobEdges
    <2> HIDE DEF o, es
    <2>2. IsSeq(es)
      <3>1. es = [i \in 1 .. Len(o) |-> es[i]]
        BY <1>4, <2>1
      <3> QED BY <1>4, <3>1, FunctionIsSeq
    <2>3. \A i \in DOMAIN o : es[i].evidence = JobOf(o[i]) /\ Key(es[i]) = Key(Edge(Event[o[i]], JobOf(o[i])))
      BY <2>1 DEF Edge, Key
    <2>4. \A e \in ToSet(es) : e.evidence \notin Files
      BY <1>2, <1>6, <2>1, <2>3 DEF ToSet
    <2>5. \A t \in times : KeyOf(t) \in Keys(ToSet(es))
      BY <1>5, <1>8, <2>1, <2>3 DEF ToSet, Keys, KeyOf, EvidenceOf
    <2>6. NativeEdges(times) = es
      BY <1>8 DEF NativeEdges, es
    <2> QED BY <2>2, <2>4, <2>5, <2>6 DEF Native
  <1>9. CASE project.platform = "databricks"
    <2> DEFINE edge(t) == [src |-> Event[t].src, dst |-> Event[t].dst, evidence |-> UnityCatalog,
                           detail |-> UNION {Event[u].detail : u \in {v \in times \cap project.columns :
                                         Event[v].src = Event[t].src /\ Event[v].dst = Event[t].dst}}]
               E == {edge(t) : t \in times}
               es == SetToSeq(E)
    <2>1. \A t \in times : edge(t).evidence = UnityCatalog /\ Key(edge(t)) = Key(Edge(Event[t], UnityCatalog))
      BY DEF Key, Edge
    <2>2. NativeEdges(times) = es
      BY <1>9 DEF NativeEdges, UnityEdges
    <2> HIDE DEF edge
    <2>3. IsFiniteSet(E)
      <3> DEFINE f == [t \in times |-> edge(t)]
      <3>1. f \in Surjection(times, E)
        BY DEF Surjection
      <3> HIDE DEF f, E
      <3> QED BY <1>1, <3>1, FS_Surjection
    <2> HIDE DEF es
    <2>4. IsSeq(es) /\ ToSet(es) = E
      <3> HIDE DEF E
      <3> QED BY <2>3, Enumerated DEF es
    <2>5. \A e \in ToSet(es) : e.evidence \notin Files
      BY <1>2, <2>1, <2>4
    <2>6. \A t \in times : KeyOf(t) \in Keys(ToSet(es))
      BY <1>9, <2>1, <2>4 DEF Keys, KeyOf, EvidenceOf
    <2> QED BY <2>2, <2>4, <2>5, <2>6 DEF Native
  <1> QED BY <1>3, <1>7, <1>8, <1>9

\* What merging the edges es into a graph makes of it.
Merges(specs, edges, es, h) ==
  /\ IsGraph(h)
  /\ h.edges = edges \/ h.edges = edges \o es
  /\ ToSet(h.edges) \subseteq ToSet(edges) \cup ToSet(es)
  /\ \A d \in DOMAIN specs : d \in DOMAIN h.specs /\ h.specs[d] = specs[d]
  /\ DOMAIN specs # {} => h.edges = edges \o es /\ ToSet(h.edges) = ToSet(edges) \cup ToSet(es)

LEMMA MergedIs ==
  ASSUME NEW specs, NEW edges, NEW es, IsGraph([specs |-> specs, edges |-> edges]), IsSeq(es),
         NEW g, g = MergedInto([specs |-> specs, edges |-> edges], es)
  PROVE  Merges(specs, edges, es, g)
  <1>0. IsSeq(edges) /\ EndsOf(ToSet(edges)) \subseteq DOMAIN specs
    BY DEF IsGraph
  <1>1. CASE DOMAIN specs = {}
    <2>1. g = [specs |-> specs, edges |-> edges]
      BY <1>1 DEF MergedInto
    <2> QED BY <1>0, <1>1, <2>1 DEF Merges
  <1>2. CASE DOMAIN specs # {}
    <2> DEFINE more == Registered(specs, EndsOf(ToSet(es)))
    <2>1. g = [specs |-> more, edges |-> edges \o es]
      BY <1>2 DEF MergedInto
    <2>2. IsSeq(edges \o es) /\ ToSet(edges \o es) = ToSet(edges) \cup ToSet(es)
      BY <1>0, ConcatIs
    <2>3. EndsOf(ToSet(edges) \cup ToSet(es)) \subseteq DOMAIN more
      BY <1>0 DEF EndsOf, Registered
    <2>4. \A d \in DOMAIN specs : d \in DOMAIN more /\ more[d] = specs[d]
      BY DEF Registered
    <2> HIDE DEF more
    <2>5. g.specs = more /\ g.edges = edges \o es /\ g = [specs |-> g.specs, edges |-> g.edges]
      BY <2>1
    <2>6. IsGraph(g)
      BY <2>2, <2>3, <2>5 DEF IsGraph
    <2> QED BY <1>2, <2>2, <2>4, <2>5, <2>6 DEF Merges
  <1> QED BY <1>1, <1>2

LEMMA Merging ==
  ASSUME NEW g, IsGraph(g), NEW es, IsSeq(es)
  PROVE  Merges(g.specs, g.edges, es, MergedInto(g, es))
  <1> DEFINE specs == g.specs
             edges == g.edges
  <1>1. g = [specs |-> specs, edges |-> edges]
    BY DEF IsGraph
  <1> HIDE DEF specs, edges
  <1>2. IsGraph([specs |-> specs, edges |-> edges])
    BY <1>1
  <1>3. Merges(specs, edges, es, MergedInto([specs |-> specs, edges |-> edges], es))
    BY <1>2, MergedIs
  <1> QED BY <1>1, <1>3 DEF specs, edges

-----------------------------------------------------------------------------
(* What a step makes of the run that takes it. *)

Becomes(p, r) == DOMAIN run' = Procs /\ run'[p] = r /\ \A q \in Procs \ {p} : run'[q] = run[q]

LEMMA RunBecomes ==
  ASSUME DOMAIN run = Procs, NEW p \in Procs, NEW r, run' = [run EXCEPT ![p] = r]
  PROVE  Becomes(p, r)
  BY DEF Becomes

LEMMA IdleIs == Idle = Rec("idle", 1, EmptyGraph, 0, {}, None, None)
  BY DEF Idle, Rec

LEMMA RunIs ==
  ASSUME Typed, NEW p \in Procs, NEW r, r = run[p]
  PROVE  /\ r = Rec(r.pc, r.at, r.current, r.since, r.native, r.previous, r.revision)
         /\ IsGraph(r.current) /\ IsPlace(r.pc, r.at, r.previous)
  BY DEF Typed, RunTyped

LEMMA Fields ==
  ASSUME NEW a, NEW b, NEW c, NEW d, NEW e, NEW f, NEW g, NEW r, r = Rec(a, b, c, d, e, f, g)
  PROVE  /\ r = Rec(r.pc, r.at, r.current, r.since, r.native, r.previous, r.revision)
         /\ r.pc = a /\ r.at = b /\ r.current = c /\ r.since = d /\ r.native = e /\ r.previous = f /\ r.revision = g
  BY DEF Rec

\* A field at a time.
SetPc(r, x)       == [r EXCEPT !.pc = x]
SetAt(r, x)       == [r EXCEPT !.at = x]
SetCurrent(r, x)  == [r EXCEPT !.current = x]
SetSince(r, x)    == [r EXCEPT !.since = x]
SetNative(r, x)   == [r EXCEPT !.native = x]
SetPrevious(r, x) == [r EXCEPT !.previous = x]

LEMMA Setting ==
  ASSUME NEW a, NEW b, NEW c, NEW d, NEW e, NEW f, NEW g, NEW x
  PROVE  /\ SetPc(Rec(a, b, c, d, e, f, g), x) = Rec(x, b, c, d, e, f, g)
         /\ SetAt(Rec(a, b, c, d, e, f, g), x) = Rec(a, x, c, d, e, f, g)
         /\ SetCurrent(Rec(a, b, c, d, e, f, g), x) = Rec(a, b, x, d, e, f, g)
         /\ SetSince(Rec(a, b, c, d, e, f, g), x) = Rec(a, b, c, x, e, f, g)
         /\ SetNative(Rec(a, b, c, d, e, f, g), x) = Rec(a, b, c, d, x, f, g)
         /\ SetPrevious(Rec(a, b, c, d, e, f, g), x) = Rec(a, b, c, d, e, x, g)
  BY DEF Rec, SetPc, SetAt, SetCurrent, SetSince, SetNative, SetPrevious

LEMMA Starts ==
  ASSUME Typed, NEW p \in Procs, Start(p)
  PROVE  Becomes(p, Rec("read", 1, [specs |-> declared, edges |-> << >>], 0, {}, None, None))
  <1> DEFINE g == [specs |-> declared, edges |-> << >>]
             next == [Idle EXCEPT !.pc = "read", !.current.specs = declared]
  <1>1. next = SetCurrent(SetPc(Idle, "read"), [Idle.current EXCEPT !.specs = declared])
    BY DEF SetCurrent, SetPc
  <1>2. Idle.current = EmptyGraph /\ [EmptyGraph EXCEPT !.specs = declared] = g
    BY DEF Idle, EmptyGraph
  <1>3. SetPc(Idle, "read") = Rec("read", 1, EmptyGraph, 0, {}, None, None)
    BY IdleIs, Setting
  <1>4. run' = [run EXCEPT ![p] = next]
    BY DEF Start
  <1> HIDE DEF next, g
  <1>5. next = SetCurrent(SetPc(Idle, "read"), g)
    BY <1>1, <1>2
  <1>6. next = Rec("read", 1, g, 0, {}, None, None)
    BY <1>3, <1>5, Setting
  <1> QED BY <1>4, <1>6, RunBecomes DEF Typed, g

LEMMA ReadsFile ==
  ASSUME Typed, NEW p \in Procs, NEW r, r = run[p], ReadFile(p)
  PROVE  Becomes(p, Rec("read", r.at + 1, MergedInto(r.current, FileEdges(Sources[r.at], content[Sources[r.at]])),
                        r.since, r.native, r.previous, r.revision))
  <1> DEFINE g == MergedInto(r.current, FileEdges(Sources[r.at], content[Sources[r.at]]))
             next == [r EXCEPT !.current = g, !.at = r.at + 1]
  <1>1. r = Rec(r.pc, r.at, r.current, r.since, r.native, r.previous, r.revision)
    BY RunIs
  <1>2. run' = [run EXCEPT ![p] = next]
    BY DEF ReadFile, Typed, Source
  <1> HIDE DEF g
  <1>3. next = SetAt(SetCurrent(r, g), r.at + 1)
    BY DEF SetCurrent, SetAt
  <1> HIDE DEF next
  <1>4. next = Rec(r.pc, r.at + 1, g, r.since, r.native, r.previous, r.revision)
    BY <1>1, <1>3, Setting
  <1>5. r.pc = "read"
    BY DEF ReadFile
  <1> QED BY <1>2, <1>4, <1>5, RunBecomes DEF Typed, g

LEMMA GetsToken ==
  ASSUME Typed, NEW p \in Procs, NEW r, r = run[p], GetToken(p)
  PROVE  Becomes(p, Rec("fetch", r.at, r.current, token, r.native, r.previous, r.revision))
  <1> DEFINE next == [r EXCEPT !.since = token, !.pc = "fetch"]
  <1>1. r = Rec(r.pc, r.at, r.current, r.since, r.native, r.previous, r.revision)
    BY RunIs
  <1>2. run' = [run EXCEPT ![p] = next]
    BY DEF GetToken, Typed
  <1>3. next = SetPc(SetSince(r, token), "fetch")
    BY DEF SetSince, SetPc
  <1> HIDE DEF next
  <1>4. next = Rec("fetch", r.at, r.current, token, r.native, r.previous, r.revision)
    BY <1>1, <1>3, Setting
  <1> QED BY <1>2, <1>4, RunBecomes DEF Typed

LEMMA FetchesLineage ==
  ASSUME Typed, NEW p \in Procs, NEW r, r = run[p], FetchLineage(p),
         NEW native, native = Rows(r.since), NEW g, g = MergedInto(r.current, NativeEdges(native))
  PROVE  \/ /\ Dated(native) # {}
            /\ Becomes(p, Rec("advance", r.at, g, r.since, Dated(native), r.previous, r.revision))
         \/ /\ Dated(native) = {}
            /\ Becomes(p, Rec("read", r.at + 1, g, 0, r.native, r.previous, r.revision))
  <1> DEFINE dated == Dated(native)
             some == [r EXCEPT !.current = g, !.native = dated, !.pc = "advance"]
             no == [r EXCEPT !.current = g, !.since = 0, !.pc = "read", !.at = r.at + 1]
  <1>1. r = Rec(r.pc, r.at, r.current, r.since, r.native, r.previous, r.revision)
    BY RunIs
  <1>2. \/ dated # {} /\ run' = [run EXCEPT ![p] = some]
        \/ dated = {} /\ run' = [run EXCEPT ![p] = no]
    <2>1. CASE dated # {}
      BY <2>1 DEF FetchLineage, Typed
    <2>2. CASE dated = {}
      BY <2>2 DEF FetchLineage, Typed
    <2> QED BY <2>1, <2>2
  <1> HIDE DEF dated
  <1>3. some = SetPc(SetNative(SetCurrent(r, g), dated), "advance")
    BY DEF SetPc, SetNative, SetCurrent
  <1>4. no = SetAt(SetPc(SetSince(SetCurrent(r, g), 0), "read"), r.at + 1)
    BY DEF SetPc, SetAt, SetSince, SetCurrent
  <1> HIDE DEF some, no
  <1>5. some = Rec("advance", r.at, g, r.since, dated, r.previous, r.revision)
    BY <1>1, <1>3, Setting
  <1>6. no = Rec("read", r.at + 1, g, 0, r.native, r.previous, r.revision)
    BY <1>1, <1>4, Setting
  <1>7. CASE dated # {}
    BY <1>2, <1>5, <1>7, RunBecomes DEF Typed, dated
  <1>8. CASE dated = {}
    BY <1>2, <1>6, <1>8, RunBecomes DEF Typed, dated
  <1> QED BY <1>7, <1>8

LEMMA FetchesQueries ==
  ASSUME Typed, NEW p \in Procs, NEW r, r = run[p], FetchQueries(p)
  PROVE  Becomes(p, Rec("read", r.at + 1, MergedInto(r.current, EventEdges(Queries(r.since), QueryLog)),
                        0, r.native, r.previous, r.revision))
  <1> DEFINE g == MergedInto(r.current, EventEdges(Queries(r.since), QueryLog))
             next == [r EXCEPT !.pc = "read", !.at = r.at + 1, !.since = 0, !.current = g]
  <1>1. r = Rec(r.pc, r.at, r.current, r.since, r.native, r.previous, r.revision)
    BY RunIs
  <1>2. run' = [run EXCEPT ![p] = next]
    BY DEF FetchQueries, Typed
  <1> HIDE DEF g
  <1>3. next = SetCurrent(SetSince(SetAt(SetPc(r, "read"), r.at + 1), 0), g)
    BY DEF SetPc, SetAt, SetSince, SetCurrent
  <1> HIDE DEF next
  <1>4. next = Rec("read", r.at + 1, g,
                        0, r.native, r.previous, r.revision)
    BY <1>1, <1>3, Setting
  <1> QED BY <1>2, <1>4, RunBecomes DEF Typed, g

LEMMA SetsToken ==
  ASSUME Typed, NEW p \in Procs, NEW r, r = run[p], SetToken(p)
  PROVE  Becomes(p, Rec("read", r.at + 1, r.current, 0, {}, r.previous, r.revision))
  <1> DEFINE next == [r EXCEPT !.pc = "read", !.at = r.at + 1, !.since = 0, !.native = {}]
  <1>1. r = Rec(r.pc, r.at, r.current, r.since, r.native, r.previous, r.revision)
    BY RunIs
  <1>2. run' = [run EXCEPT ![p] = next]
    BY DEF SetToken, Typed
  <1>3. next = SetNative(SetSince(SetAt(SetPc(r, "read"), r.at + 1), 0), {})
    BY DEF SetPc, SetAt, SetSince, SetNative
  <1> HIDE DEF next
  <1>4. next = Rec("read", r.at + 1, r.current, 0, {}, r.previous, r.revision)
    BY <1>1, <1>3, Setting
  <1> QED BY <1>2, <1>4, RunBecomes DEF Typed

LEMMA LoadsDatasets ==
  ASSUME Typed, NEW p \in Procs, NEW r, r = run[p], LoadDatasets(p)
  PROVE  Becomes(p, Rec("edges", r.at, r.current, r.since, r.native,
                        [specs |-> rows.specs, edges |-> {}], r.revision))
  <1> DEFINE next == [r EXCEPT !.previous = [specs |-> rows.specs, edges |-> {}], !.pc = "edges"]
  <1>1. r = Rec(r.pc, r.at, r.current, r.since, r.native, r.previous, r.revision)
    BY RunIs
  <1>2. run' = [run EXCEPT ![p] = next]
    BY DEF LoadDatasets, Typed
  <1>3. next = SetPc(SetPrevious(r, [specs |-> rows.specs, edges |-> {}]), "edges")
    BY DEF SetPrevious, SetPc
  <1> HIDE DEF next
  <1>4. next = Rec("edges", r.at, r.current, r.since, r.native,
                        [specs |-> rows.specs, edges |-> {}], r.revision)
    BY <1>1, <1>3, Setting
  <1> QED BY <1>2, <1>4, RunBecomes DEF Typed

LEMMA LoadsEdges ==
  ASSUME Typed, NEW p \in Procs, NEW r, r = run[p], LoadEdges(p)
  PROVE  Becomes(p, Rec("save", r.at, r.current, r.since, r.native,
                        [specs |-> r.previous.specs, edges |-> rows.edges], r.revision))
  <1> DEFINE g == [specs |-> r.previous.specs, edges |-> rows.edges]
             next == [r EXCEPT !.previous.edges = rows.edges, !.pc = "save"]
  <1>1. r = Rec(r.pc, r.at, r.current, r.since, r.native, r.previous, r.revision)
    BY RunIs
  <1>2. run' = [run EXCEPT ![p] = next]
    BY DEF LoadEdges, Typed
  <1>3. r.previous = [specs |-> r.previous.specs, edges |-> r.previous.edges]
    BY RunIs DEF LoadEdges, IsPlace
  <1>4. [r.previous EXCEPT !.edges = rows.edges] = g
    BY <1>3
  <1>5. next = SetPc(SetPrevious(r, [r.previous EXCEPT !.edges = rows.edges]), "save")
    BY DEF SetPc, SetPrevious
  <1> HIDE DEF next, g
  <1>6. next = SetPc(SetPrevious(r, g), "save")
    BY <1>4, <1>5
  <1>7. next = Rec("save", r.at, r.current, r.since, r.native, g, r.revision)
    BY <1>1, <1>6, Setting
  <1> QED BY <1>2, <1>7, RunBecomes DEF Typed, g

\* The steps that only move on.
LEMMA MovesOn ==
  ASSUME Typed, NEW p \in Procs, NEW r, r = run[p], NEW pc, run' = [run EXCEPT ![p].pc = pc]
  PROVE  Becomes(p, Rec(pc, r.at, r.current, r.since, r.native, r.previous, r.revision))
  <1> DEFINE next == [r EXCEPT !.pc = pc]
  <1>1. r = Rec(r.pc, r.at, r.current, r.since, r.native, r.previous, r.revision)
    BY RunIs
  <1>2. run' = [run EXCEPT ![p] = next]
    BY DEF Typed
  <1>3. next = SetPc(r, pc)
    BY DEF SetPc
  <1> HIDE DEF next
  <1>4. next = Rec(pc, r.at, r.current, r.since, r.native, r.previous, r.revision)
    BY <1>1, <1>3, Setting
  <1> QED BY <1>2, <1>4, RunBecomes DEF Typed

LEMMA ReadsRevisions ==
  ASSUME Typed, NEW p \in Procs, ReadRevisions(p)
  PROVE  LET revision == Recorded(Newest(ReadLog), run[p].previous, run[p].current) IN
         \/ revision = None /\ Becomes(p, Idle)
         \/ revision # None /\ Becomes(p, Rec("append", 1, EmptyGraph, 0, {}, None, revision))
  <1> DEFINE revision == Recorded(Newest(ReadLog), run[p].previous, run[p].current)
             next == IF revision = None THEN Idle ELSE [Idle EXCEPT !.revision = revision, !.pc = "append"]
  <1>1. run' = [run EXCEPT ![p] = next]
    BY DEF ReadRevisions, Typed
  <1> HIDE DEF revision
  <1>2. \/ revision = None /\ next = Idle
        \/ revision # None /\ next = Rec("append", 1, EmptyGraph, 0, {}, None, revision)
    BY DEF Idle, Rec
  <1> HIDE DEF next
  <1>3. Becomes(p, next)
    BY <1>1, RunBecomes DEF Typed
  <1> QED BY <1>2, <1>3 DEF revision
-----------------------------------------------------------------------------
(* The state is well-formed. *)

LEMMA ProjectIs ==
  ASSUME WorldTyped
  PROVE  /\ project \in Projects /\ Len(Sources) \in Nat /\ DOMAIN Sources = 1 .. Len(Sources)
         /\ \A i \in 1 .. Len(Sources) : Sources[i] # Adapter => Sources[i] \in Files
         /\ \A f \in Files : f # Adapter /\ IsSeq(content[f])
         /\ Lag \in Nat
  <1>1. /\ project \in Projects /\ Sources \in Seq(ToSet(Sources)) /\ Lag \in Nat
        /\ \A f \in Files : \A c \in Versions[f] : c \in Seq(ToSet(c))
    BY IngestAssumption DEF IngestAssumption, WorldTyped, Files, Versions, Sources, Lag
  <1>2. Len(Sources) \in Nat /\ DOMAIN Sources = 1 .. Len(Sources)
    BY <1>1, SeqIsFunction DEF IsSeq
  <1>3. \A f \in Files : f # Adapter /\ IsSeq(content[f])
    BY <1>1 DEF WorldTyped, IsSeq, Files, FilesOf
  <1>4. \A i \in 1 .. Len(Sources) : Sources[i] # Adapter => Sources[i] \in Files
    BY <1>2 DEF Files, FilesOf, ToSet, Sources
  <1> QED BY <1>1, <1>2, <1>3, <1>4

LEMMA RowsAre ==
  ASSUME WorldTyped, NEW since
  PROVE  /\ Rows(since) \subseteq landed /\ Queries(since) \subseteq 1 .. now
         /\ Rows(since) \in SUBSET Times /\ Queries(since) \in SUBSET Times
  <1>1. Rows(since) \subseteq landed /\ Queries(since) \subseteq 1 .. now
    BY DEF Rows, ColumnRows, Oldest, Queries, History, WorldTyped
  <1>2. 1 .. now \subseteq Times /\ landed \subseteq 1 .. now
    BY TimesAre DEF WorldTyped
  <1> QED BY <1>1, <1>2

LEMMA FirstAt == ASSUME WorldTyped PROVE 1 \in 1 .. Len(Sources) + 1
  BY ProjectIs

LEMMA EmptyIsGraph ==
  /\ IsGraph(EmptyGraph)
  /\ \A specs : IsGraph([specs |-> specs, edges |-> << >>])
  /\ ToSet(<< >>) = {}
  <1>1. ToSet(<< >>) = {} /\ << >> \in Seq({})
    BY DEF ToSet
  <1>2. \A specs : IsGraph([specs |-> specs, edges |-> << >>])
    BY <1>1 DEF IsGraph, IsSeq, EndsOf
  <1>3. EmptyGraph = [specs |-> << >>, edges |-> << >>]
    BY DEF EmptyGraph
  <1> QED BY <1>1, <1>2, <1>3

\* The runs stay typed when the one that moves does.
LEMMA RunsTyped ==
  ASSUME Typed, project' = project, NEW p \in Procs,
         NEW pc, NEW at, NEW g, NEW since, NEW native, NEW previous, NEW revision,
         IsGraph(g), IsPlace(pc, at, previous),
         Becomes(p, Rec(pc, at, g, since, native, previous, revision))
  PROVE  DOMAIN run' = Procs /\ \A q \in Procs : RunTyped(run[q])'
  <1>1. Sources' = Sources
    BY DEF Sources
  <1>2. RunTyped(run[p])'
    <2> DEFINE r == run'[p]
    <2>1. r = Rec(pc, at, g, since, native, previous, revision)
      BY DEF Becomes
    <2> HIDE DEF r
    <2>2. /\ r = Rec(r.pc, r.at, r.current, r.since, r.native, r.previous, r.revision)
          /\ r.pc = pc /\ r.at = at /\ r.current = g /\ r.previous = previous
      BY <2>1, Fields
    <2>3. IsGraph(r.current) /\ IsPlace(r.pc, r.at, r.previous)
      BY <2>2
    <2> QED BY <1>1, <2>2, <2>3 DEF RunTyped, IsPlace, r
  <1>3. \A q \in Procs \ {p} : RunTyped(run[q])'
    BY <1>1 DEF Typed, RunTyped, Becomes, IsPlace
  <1> QED BY <1>2, <1>3 DEF Becomes

LEMMA RunsStayTyped ==
  ASSUME Typed, NEW p \in Procs, Step(p) \/ Break(p)
  PROVE  DOMAIN run' = Procs /\ \A q \in Procs : RunTyped(run[q])'
  <1> DEFINE r == run[p]
             Goal == DOMAIN run' = Procs /\ \A q \in Procs : RunTyped(run[q])'
  <1>1. IsGraph(r.current) /\ IsPlace(r.pc, r.at, r.previous)
    BY RunIs
  <1>2. WorldTyped /\ Len(Sources) \in Nat
    BY ProjectIs DEF Typed
  <1>3. project' = project
    BY DEF Step, Break, Start, ReadFile, GetToken, FetchLineage, FetchQueries, SetToken, LoadDatasets, LoadEdges,
           LoadFails, SaveGraph, ReadRevisions, AppendRevision, Exit, world
  <1>4. ASSUME Becomes(p, Idle) PROVE Goal
    <2>1. IsPlace("idle", 1, None) /\ IsGraph(EmptyGraph)
      BY <1>2, FirstAt, EmptyIsGraph DEF IsPlace, Phases
    <2> QED BY <1>3, <1>4, <2>1, IdleIs, RunsTyped
  <1> HIDE DEF Goal
  <1>5. CASE Start(p)
    <2>1. IsPlace("read", 1, None)
      BY <1>2, FirstAt DEF IsPlace, Phases
    <2> QED BY <1>3, <1>5, <2>1, Starts, EmptyIsGraph, RunsTyped DEF Goal
  <1>6. CASE ReadFile(p)
    <2> DEFINE es == FileEdges(Sources[r.at], content[Sources[r.at]])
               g == MergedInto(r.current, es)
    <2>1. r.pc = "read" /\ r.at \in 1 .. Len(Sources) /\ Sources[r.at] # Adapter
      BY <1>1, <1>2, <1>6 DEF ReadFile, Source, IsPlace
    <2>2. IsSeq(content[Sources[r.at]])
      BY <1>2, <2>1, ProjectIs
    <2>3. IsSeq(es)
      BY <2>2, FileEdgesAre
    <2>4. IsGraph(g)
      <3> HIDE DEF es
      <3> QED BY <1>1, <2>3, Merging DEF Merges
    <2>5. IsPlace("read", r.at + 1, r.previous)
      BY <1>2, <2>1 DEF IsPlace, Phases
    <2>6. Becomes(p, Rec("read", r.at + 1, g, r.since, r.native, r.previous, r.revision))
      BY <1>6, ReadsFile
    <2> HIDE DEF g, r
    <2> QED BY <1>3, <2>4, <2>5, <2>6, RunsTyped DEF Goal
  <1>7. CASE GetToken(p)
    <2>1. IsPlace("fetch", r.at, r.previous)
      BY <1>1, <1>2, <1>7 DEF GetToken, Source, IsPlace, Phases
    <2> QED BY <1>1, <1>3, <1>7, <2>1, GetsToken, RunsTyped DEF Goal
  <1>8. CASE FetchLineage(p)
    <2> DEFINE native == Rows(r.since)
               es == NativeEdges(native)
               g == MergedInto(r.current, es)
               dated == Dated(native)
    <2>1. r.pc = "fetch" /\ r.at \in 1 .. Len(Sources) /\ Sources[r.at] = Adapter
      BY <1>1, <1>2, <1>8 DEF FetchLineage, IsPlace
    <2>2. IsSeq(es)
      BY <1>2, RowsAre, NativeIs DEF Native
    <2>3. IsGraph(g)
      <3> HIDE DEF es
      <3> QED BY <1>1, <2>2, Merging DEF Merges
    <2>4. IsPlace("read", r.at + 1, r.previous) /\ IsPlace("advance", r.at, r.previous)
      BY <1>2, <2>1 DEF IsPlace, Phases
    <2>5. \/ Becomes(p, Rec("advance", r.at, g, r.since, dated, r.previous, r.revision))
          \/ Becomes(p, Rec("read", r.at + 1, g, 0, r.native, r.previous, r.revision))
      BY <1>8, FetchesLineage
    <2> HIDE DEF g, r, dated
    <2>6. CASE Becomes(p, Rec("advance", r.at, g, r.since, dated, r.previous, r.revision))
      BY <1>3, <2>3, <2>4, <2>6, RunsTyped DEF Goal
    <2>7. CASE Becomes(p, Rec("read", r.at + 1, g, 0, r.native, r.previous, r.revision))
      BY <1>3, <2>3, <2>4, <2>7, RunsTyped DEF Goal
    <2> QED BY <2>5, <2>6, <2>7
  <1>9. CASE FetchQueries(p)
    <2> DEFINE es == EventEdges(Queries(r.since), QueryLog)
               g == MergedInto(r.current, es)
    <2>1. r.pc = "fetch" /\ r.at \in 1 .. Len(Sources)
      BY <1>1, <1>2, <1>9 DEF FetchQueries, IsPlace
    <2>2. IsSeq(es)
      BY <1>2, RowsAre, QueriesAreNoFiles
    <2>3. IsGraph(g)
      <3> HIDE DEF es
      <3> QED BY <1>1, <2>2, Merging DEF Merges
    <2>4. IsPlace("read", r.at + 1, r.previous)
      BY <1>2, <2>1 DEF IsPlace, Phases
    <2>5. Becomes(p, Rec("read", r.at + 1, g, 0, r.native, r.previous, r.revision))
      BY <1>9, FetchesQueries
    <2> HIDE DEF g, r
    <2> QED BY <1>3, <2>3, <2>4, <2>5, RunsTyped DEF Goal
  <1>10. CASE SetToken(p)
    <2>1. r.pc = "advance" /\ r.at \in 1 .. Len(Sources)
      BY <1>1, <1>2, <1>10 DEF SetToken, IsPlace
    <2>2. IsPlace("read", r.at + 1, r.previous)
      BY <1>2, <2>1 DEF IsPlace, Phases
    <2> QED BY <1>1, <1>3, <1>10, <2>2, SetsToken, RunsTyped DEF Goal
  <1>11. CASE LoadDatasets(p)
    <2>1. IsPlace("edges", r.at, [specs |-> rows.specs, edges |-> {}])
      BY <1>1, <1>2, <1>11 DEF LoadDatasets, IsPlace, Phases
    <2> QED BY <1>1, <1>3, <1>11, <2>1, LoadsDatasets, RunsTyped DEF Goal
  <1>12. CASE LoadEdges(p)
    <2>1. IsPlace("save", r.at, [specs |-> r.previous.specs, edges |-> rows.edges])
      BY <1>1, <1>2, <1>12 DEF LoadEdges, IsPlace, Phases
    <2> QED BY <1>1, <1>3, <1>12, <2>1, LoadsEdges, RunsTyped DEF Goal
  <1>13. CASE LoadFails(p)
    <2>1. IsPlace("KeyError", r.at, r.previous) /\ run' = [run EXCEPT ![p].pc = "KeyError"]
      BY <1>1, <1>2, <1>13 DEF LoadFails, IsPlace, Phases
    <2> QED BY <1>1, <1>3, <2>1, MovesOn, RunsTyped DEF Goal
  <1>14. CASE SaveGraph(p)
    <2>1. IsPlace("log", r.at, r.previous) /\ run' = [run EXCEPT ![p].pc = "log"]
      BY <1>1, <1>2, <1>14 DEF SaveGraph, IsPlace, Phases
    <2> QED BY <1>1, <1>3, <2>1, MovesOn, RunsTyped DEF Goal
  <1>15. CASE ReadRevisions(p)
    <2> DEFINE revision == Recorded(Newest(ReadLog), run[p].previous, run[p].current)
    <2>1. Becomes(p, Idle) \/ Becomes(p, Rec("append", 1, EmptyGraph, 0, {}, None, revision))
      BY <1>15, ReadsRevisions
    <2>2. IsPlace("append", 1, None) /\ IsGraph(EmptyGraph)
      BY <1>2, FirstAt, EmptyIsGraph DEF IsPlace, Phases
    <2> HIDE DEF revision
    <2> QED BY <1>3, <1>4, <2>1, <2>2, RunsTyped DEF Goal
  <1>16. CASE AppendRevision(p)
    BY <1>4, <1>16, RunBecomes DEF AppendRevision, Typed, Goal
  <1>17. CASE Exit(p)
    BY <1>4, <1>17, RunBecomes DEF Exit, Typed, Goal
  <1>18. CASE Break(p)
    BY <1>4, <1>18, RunBecomes DEF Break, Typed, Goal
  <1> QED BY <1>5, <1>6, <1>7, <1>8, <1>9, <1>10, <1>11, <1>12, <1>13, <1>14, <1>15, <1>16, <1>17, <1>18 DEF Step

LEMMA WorldStaysTyped == ASSUME Typed, [Next]_vars PROVE WorldTyped' /\ project' = project
  <1>0. WorldTyped
    BY DEF Typed
  <1>1. CASE UNCHANGED vars
    BY <1>0, <1>1 DEF vars, world, ghosts, WorldTyped, Files, Versions, Event, Lag
  <1>2. CASE World
    <2>1. Times = 1 .. Len(Event) /\ Len(Event) \in Nat /\ Lag \in Nat
      BY <1>0, TimesAre, ProjectIs
    <2>2. ASSUME NEW f \in Files, EditFile(f) PROVE WorldTyped' /\ project' = project
      BY <1>0, <2>2 DEF EditFile, WorldTyped, Files, Versions, Event, Lag
    <2>3. CASE EditConfig
      BY <1>0, <2>3 DEF EditConfig, WorldTyped, Files, Versions, Event, Lag
    <2>4. CASE Observe
      <3>1. /\ project' = project /\ content' = content /\ versions' = versions /\ declared' = declared
            /\ landed' = landed /\ fetched' = fetched /\ now' = now + 1
        BY <2>4 DEF Observe, ghosts
      <3>2. now + 1 \in Nat /\ now + 1 <= Len(Event) /\ landed \subseteq 1 .. now + 1
        BY <1>0, <2>1, <2>4 DEF Observe, WorldTyped
      <3>3. \A t \in 1 .. now + 1 : t < now + 1 /\ t + Lag <= now + 1 => t \in landed
        BY <1>0, <2>4 DEF Observe, WorldTyped
      <3> QED BY <1>0, <3>1, <3>2, <3>3 DEF WorldTyped, Files, Versions, Event, Lag
    <2>5. ASSUME NEW t \in Times, Land(t) PROVE WorldTyped' /\ project' = project
      BY <1>0, <2>5 DEF Land, WorldTyped, Files, Versions, Event, Lag, ghosts
    <2> QED BY <1>2, <2>2, <2>3, <2>4, <2>5 DEF World
  <1>3. ASSUME NEW p \in Procs, FetchLineage(p) PROVE WorldTyped' /\ project' = project
    <2>1. Rows(run[p].since) \subseteq landed
      BY <1>0, RowsAre
    <2> QED BY <1>0, <1>3, <2>1 DEF FetchLineage, WorldTyped, Files, Versions, Event, Lag, world
  <1>4. ASSUME NEW p \in Procs, Step(p) \/ Break(p), ~FetchLineage(p) PROVE WorldTyped' /\ project' = project
    <2>1. UNCHANGED <<project, declared, content, versions, now, landed, fetched>>
      BY <1>4 DEF Step, Break, Start, ReadFile, GetToken, FetchQueries, SetToken, LoadDatasets, LoadEdges,
           LoadFails, SaveGraph, ReadRevisions, AppendRevision, Exit, world, ghosts
    <2> QED BY <1>0, <2>1 DEF WorldTyped, Files, Versions, Event, Lag
  <1> QED BY <1>1, <1>2, <1>3, <1>4 DEF Next

LEMMA SavedFacts ==
  ASSUME NEW specs, NEW edges, IsGraph([specs |-> specs, edges |-> edges]), StoreTyped,
         NEW replaced, NEW after, after = SavedEdges(rows.edges, edges, replaced),
         NEW known, known = SavedSpecs(rows.specs, specs)
  PROVE  /\ \A e, x \in after : Key(e) = Key(x) => e = x
         /\ EndsOf(after) \subseteq DOMAIN known
  <1> DEFINE new == LastOfEachKey(edges)
  <1>1. IsSeq(edges) /\ EndsOf(ToSet(edges)) \subseteq DOMAIN specs
    BY DEF IsGraph
  <1>2. new \subseteq ToSet(edges) /\ \A e, x \in new : Key(e) = Key(x) => e = x
    BY <1>1, LastFacts
  <1>3. after = {e \in rows.edges : e.evidence \notin replaced /\ Key(e) \notin Keys(new)} \cup new
    BY DEF SavedEdges
  <1> HIDE DEF new
  <1>4. \A e, x \in after : Key(e) = Key(x) => e = x
    BY <1>2, <1>3 DEF StoreTyped, Keys
  <1>5. DOMAIN known = DOMAIN rows.specs \cup DOMAIN specs
    BY DEF SavedSpecs
  <1>6. \A e \in after : e \in rows.edges \/ e \in ToSet(edges)
    BY <1>2, <1>3
  <1>7. EndsOf(after) \subseteq DOMAIN known
    BY <1>1, <1>5, <1>6 DEF StoreTyped, EndsOf
  <1> QED BY <1>4, <1>7

LEMMA StoreStaysTyped == ASSUME Typed, [Next]_vars PROVE StoreTyped'
  <1>0. StoreTyped
    BY DEF Typed
  <1>1. CASE UNCHANGED <<rows, revisions>>
    BY <1>0, <1>1 DEF StoreTyped
  <1>2. ASSUME NEW p \in Procs, SaveGraph(p) PROVE StoreTyped'
    <2> DEFINE g == run[p].current
               after == SavedEdges(rows.edges, g.edges, Replaced)
               known == SavedSpecs(rows.specs, g.specs)
    <2>1. IsGraph([specs |-> g.specs, edges |-> g.edges])
      BY RunIs DEF IsGraph
    <2>2. /\ \A e, x \in after : Key(e) = Key(x) => e = x
          /\ EndsOf(after) \subseteq DOMAIN known
      BY <1>0, <2>1, SavedFacts
    <2>3. rows' = [specs |-> known, edges |-> after] /\ revisions' = revisions
      BY <1>2 DEF SaveGraph
    <2> HIDE DEF after, known
    <2> QED BY <1>0, <2>2, <2>3 DEF StoreTyped
  <1>3. ASSUME NEW p \in Procs, AppendRevision(p) PROVE StoreTyped'
    <2>1. revisions' = revisions \/ revisions' = Append(revisions, run[p].revision)
      BY <1>3 DEF AppendRevision
    <2>2. IsSeq(revisions')
      <3> DEFINE more == Append(revisions, run[p].revision)
      <3>1. IsSeq(revisions)
        BY <1>0 DEF StoreTyped
      <3>2. IsSeq(more)
        BY <3>1, AppendIs
      <3> HIDE DEF more
      <3> QED BY <2>1, <3>1, <3>2 DEF more
    <2>3. rows' = rows
      BY <1>3 DEF AppendRevision
    <2> QED BY <1>0, <2>2, <2>3 DEF StoreTyped
  <1>4. ASSUME NEW p \in Procs, Step(p) \/ Break(p), ~SaveGraph(p), ~AppendRevision(p) PROVE StoreTyped'
    BY <1>1, <1>4 DEF Step, Break, Start, ReadFile, GetToken, FetchLineage, FetchQueries, SetToken, LoadDatasets, LoadEdges,
           LoadFails, ReadRevisions, Exit, store
  <1>5. CASE World
    BY <1>1, <1>5 DEF World, EditFile, EditConfig, Observe, Land, store
  <1>6. CASE UNCHANGED vars
    BY <1>1, <1>6 DEF vars, store
  <1> QED BY <1>2, <1>3, <1>4, <1>5, <1>6 DEF Next

LEMMA TypedInit == ASSUME Init PROVE Typed
  <1>1. project \in Projects
    BY DEF Init
  <1>2. WorldTyped
    <2>1. Len(Event) \in Nat
      BY <1>1, IngestAssumption DEF IngestAssumption, Event
    <2> QED BY <2>1 DEF Init, WorldTyped, Files, Versions
  <1>3. StoreTyped
    <2>1. IsSeq(<< >>)
      BY EmptyIsGraph DEF IsGraph, EmptyGraph
    <2> QED BY <2>1 DEF Init, StoreTyped, EndsOf
  <1>4. RunTyped(Idle)
    <2>1. IsPlace("idle", 1, None) /\ IsGraph(EmptyGraph)
      BY <1>2, FirstAt, EmptyIsGraph DEF IsPlace, Phases
    <2> HIDE DEF Idle
    <2> QED BY <2>1, IdleIs, Fields DEF RunTyped
  <1>5. DOMAIN run = Procs /\ \A p \in Procs : RunTyped(run[p])
    BY <1>4 DEF Init
  <1>6. undisturbed \in [Procs -> BOOLEAN]
    BY DEF Init
  <1> QED BY <1>2, <1>3, <1>5, <1>6 DEF Typed

LEMMA TypedNext == ASSUME Typed, [Next]_vars PROVE Typed'
  <1>1. WorldTyped' /\ StoreTyped' /\ project' = project
    BY WorldStaysTyped, StoreStaysTyped
  <1>2. DOMAIN run' = Procs /\ \A q \in Procs : RunTyped(run[q])'
    <2>1. CASE run' = run
      BY <1>1, <2>1 DEF Typed, RunTyped, IsPlace, Sources
    <2>2. CASE World \/ UNCHANGED vars
      BY <2>1, <2>2 DEF World, EditFile, EditConfig, Observe, Land, vars
    <2>3. ASSUME NEW p \in Procs, Step(p) \/ Break(p)
          PROVE  DOMAIN run' = Procs /\ \A q \in Procs : RunTyped(run[q])'
      BY <2>3, RunsStayTyped
    <2> QED BY <2>2, <2>3 DEF Next
  <1>3. (undisturbed \in [Procs -> BOOLEAN])'
    <2>1. CASE undisturbed' = undisturbed
      BY <2>1 DEF Typed
    <2>2. CASE World \/ UNCHANGED vars
      BY <2>1, <2>2 DEF World, EditFile, EditConfig, Observe, Land, ghosts, vars
    <2>3. ASSUME NEW p \in Procs, Start(p) \/ SaveGraph(p) PROVE (undisturbed \in [Procs -> BOOLEAN])'
      BY <2>3 DEF Start, SaveGraph, Typed
    <2>4. ASSUME NEW p \in Procs, Step(p) \/ Break(p), ~Start(p), ~SaveGraph(p) PROVE (undisturbed \in [Procs -> BOOLEAN])'
      BY <2>1, <2>4 DEF Step, Break, ReadFile, GetToken, FetchLineage, FetchQueries, SetToken, LoadDatasets, LoadEdges,
           LoadFails, ReadRevisions, AppendRevision, Exit, ghosts
    <2> QED BY <2>2, <2>3, <2>4 DEF Next
  <1> QED BY <1>1, <1>2, <1>3 DEF Typed

-----------------------------------------------------------------------------
(* Merging only learns. *)

\* Whatever a process does: the store never unlearns a partition spec, and forgets no
\* edge but those of the files it replaces.
THEOREM MergingOnlyLearns == Spec => MergeOnlyLearns
  <1> DEFINE Learns ==
        /\ \A d \in DOMAIN rows.specs :
             /\ d \in DOMAIN rows'.specs
             /\ rows.specs[d] # Unpartitioned => rows'.specs[d] # Unpartitioned
        /\ \A e \in rows.edges : e.evidence \notin Files => Key(e) \in Keys(rows'.edges)
  <1>1. ASSUME Typed, [Next]_vars PROVE [Learns]_rows
    <2>1. ASSUME NEW p \in Procs, SaveGraph(p) PROVE Learns
      <3> DEFINE g == run[p].current
                 new == LastOfEachKey(g.edges)
                 specs == g.specs
      <3>1. rows' = [specs |-> SavedSpecs(rows.specs, specs), edges |-> SavedEdges(rows.edges, g.edges, Replaced)]
        BY <2>1 DEF SaveGraph
      <3>2. SavedEdges(rows.edges, g.edges, Replaced) =
              {e \in rows.edges : e.evidence \notin Files /\ Key(e) \notin Keys(new)} \cup new
        BY DEF SavedEdges, Replaced
      <3> HIDE DEF g, new, specs
      <3>3. rows'.edges = {e \in rows.edges : e.evidence \notin Files /\ Key(e) \notin Keys(new)} \cup new
        BY <3>1, <3>2
      <3>4. \A e \in rows.edges : e.evidence \notin Files => Key(e) \in Keys(rows'.edges)
        BY <3>3 DEF Keys
      <3>5. rows'.specs = SavedSpecs(rows.specs, specs)
        BY <3>1
      <3>6. \A d \in DOMAIN rows.specs :
              /\ d \in DOMAIN rows'.specs
              /\ rows.specs[d] # Unpartitioned => rows'.specs[d] # Unpartitioned
        BY <3>5 DEF SavedSpecs
      <3> QED BY <3>4, <3>6
    <2>2. ASSUME NEW p \in Procs, Step(p) \/ Break(p), ~SaveGraph(p) PROVE rows' = rows
      BY <2>2 DEF Step, Break, Start, ReadFile, GetToken, FetchLineage, FetchQueries, SetToken, LoadDatasets, LoadEdges,
           LoadFails, ReadRevisions, AppendRevision, Exit, store
    <2>3. CASE World \/ UNCHANGED vars
      BY <2>3 DEF World, EditFile, EditConfig, Observe, Land, vars, store
    <2> HIDE DEF Learns
    <2> QED BY <1>1, <2>1, <2>2, <2>3 DEF Next
  <1> HIDE DEF Learns
  <1>2. Init => Typed
    BY TypedInit
  <1>3. Typed /\ [Next]_vars => Typed'
    BY TypedNext
  <1>4. Spec => [][Learns]_rows
    BY <1>1, <1>2, <1>3, PTL DEF Spec
  <1> QED BY <1>4 DEF MergeOnlyLearns, Learns

-----------------------------------------------------------------------------
(* The cursor waits for late rows. *)

LEMMA OldestIsClosed ==
  ASSUME NEW log \in SUBSET Nat, IsFiniteSet(log), NEW since \in Int,
         NEW last \in Oldest(log, since), NEW t \in log, t > since, t <= last
  PROVE  t \in Oldest(log, since)
  <1> DEFINE before(x) == {u \in log : since < u /\ u < x}
  <1>1. last \in Nat /\ Cardinality(before(last)) < FetchLimit
    BY DEF Oldest
  <1>2. before(t) \in SUBSET before(last)
    <2>1. \A u \in log : u < t => u < last
      BY <1>1
    <2> QED BY <2>1
  <1>3. IsFiniteSet(before(last))
    BY FS_Subset
  <1>4. FetchLimit \in Nat
    BY IngestAssumption DEF IngestAssumption
  <1> HIDE DEF before
  <1>5. Cardinality(before(t)) <= Cardinality(before(last)) /\ IsFiniteSet(before(t))
    BY <1>2, <1>3, FS_Subset
  <1>6. Cardinality(before(t)) \in Nat /\ Cardinality(before(last)) \in Nat
    BY <1>3, <1>5, FS_CardinalityType
  <1>7. Cardinality(before(t)) < FetchLimit
    BY <1>1, <1>4, <1>5, <1>6
  <1> QED BY <1>7 DEF Oldest, before

LEMMA OldestOfPart ==
  ASSUME NEW log \in SUBSET Nat, IsFiniteSet(log), NEW part \in SUBSET log, NEW since \in Int,
         NEW t \in part, t \in Oldest(log, since)
  PROVE  t \in Oldest(part, since)
  <1> DEFINE before(S) == {u \in S : since < u /\ u < t}
  <1>1. t > since /\ Cardinality(before(log)) < FetchLimit
    BY DEF Oldest
  <1>2. before(part) \in SUBSET before(log)
    OBVIOUS
  <1>3. IsFiniteSet(before(log))
    BY FS_Subset
  <1>4. FetchLimit \in Nat
    BY IngestAssumption DEF IngestAssumption
  <1> HIDE DEF before
  <1>5. Cardinality(before(part)) <= Cardinality(before(log)) /\ IsFiniteSet(before(part))
    BY <1>2, <1>3, FS_Subset
  <1>6. Cardinality(before(part)) \in Nat /\ Cardinality(before(log)) \in Nat
    BY <1>3, <1>5, FS_CardinalityType
  <1>7. Cardinality(before(part)) < FetchLimit
    BY <1>1, <1>4, <1>5, <1>6
  <1> QED BY <1>1, <1>7 DEF Oldest, before

\* Only FetchLineage adds to what was fetched and to what was crowded out.
LEMMA CoveredStays ==
  ASSUME Typed, [Next]_vars
  PROVE  \A x : CoveredBy(x, now, fetched, crowded) => CoveredBy(x, now', fetched', crowded')
  <1>1. project' = project
    BY WorldStaysTyped
  <1>2. now \in Nat
    BY DEF Typed, WorldTyped
  <1>3. now' = now \/ now' = now + 1
    BY DEF Next, World, EditFile, EditConfig, Observe, Land, vars, world, Step, Break, Start, ReadFile, GetToken,
           FetchLineage, FetchQueries, SetToken, LoadDatasets, LoadEdges, LoadFails, SaveGraph, ReadRevisions,
           AppendRevision, Exit
  <1>4. fetched \subseteq fetched' /\ crowded \subseteq crowded'
    <2>1. ASSUME NEW p \in Procs, FetchLineage(p) PROVE fetched \subseteq fetched' /\ crowded \subseteq crowded'
      BY <2>1 DEF FetchLineage
    <2>2. ASSUME NEW p \in Procs, Step(p) \/ Break(p), ~FetchLineage(p) PROVE fetched' = fetched /\ crowded' = crowded
      BY <2>2 DEF Step, Break, Start, ReadFile, GetToken, FetchQueries, SetToken, LoadDatasets, LoadEdges,
             LoadFails, SaveGraph, ReadRevisions, AppendRevision, Exit, ghosts
    <2>3. CASE World \/ UNCHANGED vars
      BY <2>3 DEF World, EditFile, EditConfig, Observe, Land, vars, ghosts
    <2> QED BY <2>1, <2>2, <2>3 DEF Next
  <1>5. ASSUME NEW x, CoveredBy(x, now, fetched, crowded) PROVE CoveredBy(x, now', fetched', crowded')
    <2>1. x \in Int /\ x <= now /\ \A t \in 1 .. now' : t <= x => t \in 1 .. now
      BY <1>2, <1>3, <1>5 DEF CoveredBy
    <2>2. x <= now'
      BY <1>2, <1>3, <2>1
    <2> QED BY <1>1, <1>4, <1>5, <2>1, <2>2 DEF CoveredBy
  <1> QED BY <1>5

\* What lineage_token makes of a fetch: nothing at or before it is still to come.
LEMMA TokenIsCovered ==
  ASSUME Typed, NEW since, CoveredBy(since, now, fetched, crowded), NEW native, native = Rows(since),
         NEW dated, dated = Dated(native), dated # {}, NEW x, x = LineageToken(dated),
         NEW out, out = crowded \cup {t \in landed \ native : since < t /\ t <= x}
  PROVE  CoveredBy(x, now, fetched \cup native, out)
  <1> DEFINE M == Max(dated)
             logged == landed \cap project.columns
  <1>1. /\ now \in Nat /\ landed \subseteq 1 .. now /\ Lag \in Nat /\ WorldTyped
        /\ \A t \in 1 .. now : t < now /\ t + Lag <= now => t \in landed
    BY ProjectIs DEF Typed, WorldTyped
  <1>2. /\ since \in Int
        /\ \A t \in 1 .. now : t <= since =>
             t \in fetched \/ (project.platform = "databricks" /\ t \in crowded \ project.columns)
    BY DEF CoveredBy
  <1>3. native \subseteq landed /\ landed \in SUBSET Nat /\ IsFiniteSet(landed)
    <2>1. native \subseteq landed
      BY <1>1, RowsAre
    <2>2. landed \in SUBSET Nat
      BY <1>1
    <2>3. landed \in SUBSET Times
      BY <1>1, TimesAre DEF WorldTyped
    <2> QED BY <1>1, <2>1, <2>2, <2>3, TimesAre
  <1>0. project.platform \in {"snowflake", "databricks", "bigquery"}
    BY <1>1, IngestAssumption DEF IngestAssumption, WorldTyped
  <1>4. dated \subseteq native
    BY <1>0 DEF Dated
  <1>5. M \in dated /\ \A y \in dated : y <= M
    <2>1. ASSUME NEW y \in dated PROVE y \in Nat /\ y <= now
      BY <1>1, <1>3, <1>4
    <2> QED BY <1>1, <2>1, GreatestNumber
  <1>6. x = M - Lag
    BY DEF LineageToken
  <1>7. logged \in SUBSET landed /\ IsFiniteSet(logged) /\ logged \in SUBSET Nat
    BY <1>3, FS_Subset
  <1> HIDE DEF M, logged
  <1>8. x \in Int /\ x <= now
    BY <1>1, <1>3, <1>4, <1>5, <1>6
  <1>9. ASSUME NEW t \in 1 .. now, t <= x
        PROVE  t \in fetched \cup native \/ (project.platform = "databricks" /\ t \in out \ project.columns)
    <2>1. t \in landed /\ t <= M
      <3>1. t <= M /\ t + Lag <= now /\ M \in 1 .. now
        BY <1>1, <1>3, <1>4, <1>5, <1>6, <1>9
      <3>2. CASE t < now
        BY <1>1, <3>1, <3>2
      <3>3. CASE t = now
        <4>1. M = t
          BY <1>1, <3>1, <3>3
        <4> QED BY <1>3, <1>4, <1>5, <3>1, <4>1
      <3> QED BY <1>1, <3>1, <3>2, <3>3
    <2>2. CASE t <= since
      BY <1>2, <2>2
    <2>3. CASE t > since
      <3>2. CASE project.platform = "snowflake"
        <4>1. native = Oldest(landed, since) /\ dated = native
          BY <3>2 DEF Rows, Dated
        <4>2. t \in Oldest(landed, since)
          BY <1>2, <1>3, <1>5, <2>1, <2>3, <4>1, OldestIsClosed
        <4> QED BY <4>1, <4>2
      <3>3. CASE project.platform = "databricks"
        <4>1. native = Oldest(landed, since) \cup Oldest(logged, since) /\ dated = native \cap project.columns
          BY <3>3 DEF Rows, ColumnRows, Dated, logged
        <4>2. M \in logged
          BY <1>3, <1>5, <4>1 DEF logged
        <4>3. M \in Oldest(logged, since)
          <5>1. CASE M \in Oldest(landed, since)
            BY <1>2, <1>3, <1>7, <4>2, <5>1, OldestOfPart
          <5> QED BY <1>5, <4>1, <5>1
        <4>4. CASE t \in project.columns
          <5>1. t \in logged
            BY <2>1, <4>4 DEF logged
          <5>2. t \in Oldest(logged, since)
            BY <1>2, <1>7, <2>1, <2>3, <4>3, <5>1, OldestIsClosed
          <5> QED BY <4>1, <5>2
        <4>5. CASE t \notin project.columns
          BY <1>9, <2>1, <2>3, <3>3, <4>5
        <4> QED BY <4>4, <4>5
      <3>4. CASE project.platform = "bigquery"
        BY <3>4 DEF Dated
      <3> QED BY <1>0, <3>2, <3>3, <3>4
    <2> QED BY <1>1, <1>2, <2>2, <2>3
  <1> QED BY <1>8, <1>9 DEF CoveredBy

LEMMA CursorInit == ASSUME Init PROVE CursorInv
  <1>1. Covered(0) /\ token = 0
    BY DEF Init, Covered, CoveredBy
  <1>2. \A p \in Procs : run[p].pc = "idle"
    BY DEF Init, Idle
  <1> QED BY <1>1, <1>2 DEF CursorInv

LEMMA CursorNext == ASSUME Typed, CursorInv, [Next]_vars PROVE CursorInv'
  <1>1. \A x : CoveredBy(x, now, fetched, crowded) => CoveredBy(x, now', fetched', crowded')
    BY CoveredStays
  <1>2. project' = project /\ Lag' = Lag
    BY WorldStaysTyped DEF Lag
  <1> DEFINE Stands(r) == /\ r.pc = "fetch" => CoveredBy(r.since, now', fetched', crowded')
                          /\ r.pc = "advance" => CoveredBy(LineageToken(r.native), now', fetched', crowded')
  <1>3. CoveredBy(token, now', fetched', crowded') /\ \A q \in Procs : Stands(run[q])
    BY <1>1 DEF CursorInv, Covered
  <1>4. ASSUME CoveredBy(token', now', fetched', crowded'), \A q \in Procs : Stands(run'[q]) PROVE CursorInv'
    BY <1>2, <1>4 DEF CursorInv, Covered, CoveredBy, LineageToken
  <1>5. CASE World \/ UNCHANGED vars
    <2>1. token' = token /\ run' = run
      BY <1>5 DEF World, EditFile, EditConfig, Observe, Land, vars, store
    <2> HIDE DEF Stands
    <2> QED BY <1>3, <1>4, <2>1
  <1>6. ASSUME NEW p \in Procs, Step(p) \/ Break(p) PROVE CursorInv'
    <2> DEFINE r == run[p]
    <2>1. ASSUME NEW pc, NEW at, NEW g, NEW since, NEW native, NEW previous, NEW revision,
                 Becomes(p, Rec(pc, at, g, since, native, previous, revision)),
                 pc = "fetch" => CoveredBy(since, now', fetched', crowded'),
                 pc = "advance" => CoveredBy(LineageToken(native), now', fetched', crowded')
          PROVE  \A q \in Procs : Stands(run'[q])
      <3>1. Stands(run'[p])
        BY <2>1, Fields DEF Becomes
      <3> HIDE DEF Stands
      <3> QED BY <1>3, <2>1, <3>1 DEF Becomes
    <2>2. ASSUME Becomes(p, Idle) PROVE \A q \in Procs : Stands(run'[q])
      <3> HIDE DEF Stands
      <3> QED BY <2>1, <2>2, IdleIs
    <2> HIDE DEF Stands
    <2>3. CASE FetchLineage(p)
      <3> DEFINE native == Rows(r.since)
                 g == MergedInto(r.current, NativeEdges(native))
                 dated == Dated(native)
                 x == LineageToken(dated)
      <3>1. token' = token /\ now' = now /\ fetched' = fetched \cup native
            /\ crowded' = crowded \cup {t \in landed \ native : r.since < t /\ dated # {} /\ t <= x}
        BY <2>3 DEF FetchLineage, store, world
      <3>2. \/ dated # {} /\ Becomes(p, Rec("advance", r.at, g, r.since, dated, r.previous, r.revision))
            \/ dated = {} /\ Becomes(p, Rec("read", r.at + 1, g, 0, r.native, r.previous, r.revision))
        BY <2>3, FetchesLineage
      <3>3. CoveredBy(r.since, now, fetched, crowded)
        BY <2>3 DEF FetchLineage, CursorInv, Covered
      <3>4. ASSUME dated # {} PROVE CoveredBy(x, now', fetched', crowded')
        <4> DEFINE out == crowded \cup {t \in landed \ native : r.since < t /\ t <= x}
        <4>1. CoveredBy(x, now, fetched \cup native, out)
          BY <3>3, <3>4, TokenIsCovered
        <4>2. crowded' = out
          BY <3>1, <3>4
        <4> HIDE DEF out, x, native, r
        <4> QED BY <3>1, <4>1, <4>2
      <3> HIDE DEF g, native, dated, x, r
      <3>5. CASE dated # {} /\ Becomes(p, Rec("advance", r.at, g, r.since, dated, r.previous, r.revision))
        <4>1. \A q \in Procs : Stands(run'[q])
          BY <2>1, <3>4, <3>5 DEF x
        <4> QED BY <1>3, <1>4, <3>1, <4>1
      <3>6. CASE dated = {} /\ Becomes(p, Rec("read", r.at + 1, g, 0, r.native, r.previous, r.revision))
        <4>1. \A q \in Procs : Stands(run'[q])
          BY <2>1, <3>6
        <4> QED BY <1>3, <1>4, <3>1, <4>1
      <3> QED BY <3>2, <3>5, <3>6
    <2>4. CASE SetToken(p)
      <3>1. CoveredBy(token', now', fetched', crowded')
        BY <1>1, <2>4 DEF SetToken, CursorInv, Covered
      <3>2. \A q \in Procs : Stands(run'[q])
        BY <2>1, <2>4, SetsToken
      <3> QED BY <1>4, <3>1, <3>2
    <2>5. CASE GetToken(p)
      <3>1. token' = token
        BY <2>5 DEF GetToken, store
      <3>2. \A q \in Procs : Stands(run'[q])
        BY <1>3, <2>1, <2>5, GetsToken
      <3> QED BY <1>3, <1>4, <3>1, <3>2
    <2>6. CASE ~FetchLineage(p) /\ ~SetToken(p) /\ ~GetToken(p)
      <3>1. token' = token
        BY <1>6, <2>6 DEF Step, Break, Start, ReadFile, FetchQueries, LoadDatasets, LoadEdges,
             LoadFails, SaveGraph, ReadRevisions, AppendRevision, Exit, store
      <3>2. \A q \in Procs : Stands(run'[q])
        <4>1. CASE Start(p)
          BY <2>1, <4>1, Starts
        <4>2. CASE ReadFile(p)
          BY <2>1, <4>2, ReadsFile
        <4>3. CASE FetchQueries(p)
          BY <2>1, <4>3, FetchesQueries
        <4>4. CASE LoadDatasets(p)
          BY <2>1, <4>4, LoadsDatasets
        <4>5. CASE LoadEdges(p)
          <5>1. Becomes(p, Rec("save", r.at, r.current, r.since, r.native,
                               [specs |-> r.previous.specs, edges |-> rows.edges], r.revision))
            BY <4>5, LoadsEdges
          <5> QED BY <2>1, <5>1
        <4>6. CASE LoadFails(p)
          <5>1. Becomes(p, Rec("KeyError", r.at, r.current, r.since, r.native, r.previous, r.revision))
            BY <4>6, MovesOn DEF LoadFails
          <5> QED BY <2>1, <5>1
        <4>7. CASE SaveGraph(p)
          <5>1. Becomes(p, Rec("log", r.at, r.current, r.since, r.native, r.previous, r.revision))
            BY <4>7, MovesOn DEF SaveGraph
          <5> QED BY <2>1, <5>1
        <4>8. CASE ReadRevisions(p)
          BY <2>1, <2>2, <4>8, ReadsRevisions
        <4>9. CASE AppendRevision(p) \/ Exit(p) \/ Break(p)
          BY <2>2, <4>9, RunBecomes DEF AppendRevision, Exit, Break, Typed
        <4> QED BY <1>6, <2>6, <4>1, <4>2, <4>3, <4>4, <4>5, <4>6, <4>7, <4>8, <4>9 DEF Step
      <3> QED BY <1>3, <1>4, <3>1, <3>2
    <2> QED BY <2>3, <2>4, <2>5, <2>6
  <1> QED BY <1>5, <1>6 DEF Next

-----------------------------------------------------------------------------
(* The kinds of steps: a run starts, adds what a source reports to its graph, keeps its *)
(* graph, saves it, or leaves it behind.                                                *)

Others(p) == DOMAIN run' = Procs /\ \A q \in Procs \ {p} : run'[q] = run[q]

Quiet == UNCHANGED <<project, content, declared, versions, rows, undisturbed>>

\* Past a source that is no file, or not past any.
PastNoFile(p) ==
  run'[p].at = run[p].at \/ (run'[p].at = run[p].at + 1 /\ Sources[run[p].at] = Adapter)

Begins(p) ==
  /\ run'[p].pc = "read" /\ run'[p].at = 1
  /\ run'[p].current = [specs |-> declared, edges |-> << >>]

Adds(p, es) ==
  /\ Quiet
  /\ run[p].pc \in Building /\ run'[p].pc \in Building
  /\ IsSeq(es) /\ Merges(run[p].current.specs, run[p].current.edges, es, run'[p].current)

Keeps(p) ==
  /\ Quiet /\ UNCHANGED <<fetched, cut>>
  /\ run[p].pc \in Building /\ run'[p].pc \in Building /\ run'[p].current = run[p].current /\ PastNoFile(p)

Saves(p) ==
  /\ run[p].pc = "save" /\ run'[p].pc = "log"
  /\ run'[p].current = run[p].current /\ run'[p].at = run[p].at

LeavesOff(p) ==
  /\ Quiet /\ UNCHANGED fetched /\ run'[p].pc \notin Holding
  /\ run'[p].pc = "append" => run[p].pc = "log"
  /\ (cut' = cut /\ run[p].pc \notin Building) \/ cut' = TRUE

Kinds(p) ==
  \/ Start(p) /\ Begins(p)
  \/ /\ ReadFile(p) /\ Adds(p, FileEdges(Sources[run[p].at], content[Sources[run[p].at]]))
     /\ run'[p].at = run[p].at + 1
  \/ FetchLineage(p) /\ Adds(p, NativeEdges(Rows(run[p].since))) /\ PastNoFile(p)
  \/ FetchQueries(p) /\ Adds(p, EventEdges(Queries(run[p].since), QueryLog)) /\ PastNoFile(p)
  \/ Keeps(p)
  \/ SaveGraph(p) /\ Saves(p)
  \/ LeavesOff(p)

LEMMA KindsOfSteps ==
  ASSUME Typed, NEW p \in Procs, Step(p) \/ Break(p)
  PROVE  Others(p) /\ Kinds(p)
  <1> DEFINE r == run[p]
             s == run'[p]
  <1>1. IsGraph(r.current) /\ IsPlace(r.pc, r.at, r.previous) /\ WorldTyped
    BY RunIs DEF Typed
  <1>2. ASSUME NEW pc, NEW at, NEW g, NEW since, NEW native, NEW previous, NEW revision,
               Becomes(p, Rec(pc, at, g, since, native, previous, revision))
        PROVE  Others(p) /\ s.pc = pc /\ s.at = at /\ s.current = g
    BY <1>2, Fields DEF Becomes, Others
  <1>3. ASSUME Becomes(p, Idle) PROVE Others(p) /\ s.pc = "idle"
    BY <1>2, <1>3, IdleIs
  <1>4. CASE Start(p)
    <2>1. Others(p) /\ Begins(p)
      <3> HIDE DEF s
      <3>1. Others(p) /\ s.pc = "read" /\ s.at = 1 /\ s.current = [specs |-> declared, edges |-> << >>]
        BY <1>2, <1>4, Starts
      <3> QED BY <3>1 DEF Begins, s
    <2> QED BY <1>4, <2>1 DEF Kinds
  <1>5. CASE ReadFile(p)
    <2> DEFINE f == Sources[r.at]
               es == FileEdges(f, content[f])
               g == MergedInto(r.current, es)
    <2>1. r.pc = "read" /\ r.at \in 1 .. Len(Sources) /\ f # Adapter
      BY <1>1, <1>5, ProjectIs DEF ReadFile, Source, IsPlace
    <2>2. IsSeq(content[f])
      BY <1>1, <2>1, ProjectIs
    <2>3. IsSeq(es)
      BY <2>2, FileEdgesAre
    <2>4. Becomes(p, Rec("read", r.at + 1, g, r.since, r.native, r.previous, r.revision))
      BY <1>5, ReadsFile
    <2> HIDE DEF es
    <2>5. Merges(r.current.specs, r.current.edges, es, g)
      BY <1>1, <2>3, Merging
    <2>6. Quiet
      BY <1>5 DEF ReadFile, Quiet, world, store, ghosts
    <2> HIDE DEF g, s
    <2>7. Others(p) /\ s.pc = "read" /\ s.at = r.at + 1 /\ s.current = g
      BY <1>2, <2>4
    <2>8. Adds(p, es)
      BY <2>1, <2>3, <2>5, <2>6, <2>7 DEF Adds, Building, s
    <2> QED BY <1>5, <2>7, <2>8 DEF Kinds, es, s
  <1>6. CASE FetchLineage(p)
    <2> DEFINE native == Rows(r.since)
               es == NativeEdges(native)
               g == MergedInto(r.current, es)
    <2>1. r.pc = "fetch" /\ Sources[r.at] = Adapter
      BY <1>1, <1>6 DEF FetchLineage, IsPlace
    <2>2. IsSeq(es)
      BY <1>1, RowsAre, NativeIs DEF Native
    <2>3. \/ Becomes(p, Rec("advance", r.at, g, r.since, Dated(native), r.previous, r.revision))
          \/ Becomes(p, Rec("read", r.at + 1, g, 0, r.native, r.previous, r.revision))
      BY <1>6, FetchesLineage
    <2> HIDE DEF es
    <2>4. Merges(r.current.specs, r.current.edges, es, g)
      BY <1>1, <2>2, Merging
    <2>5. Quiet
      BY <1>6 DEF FetchLineage, Quiet, world, store
    <2> HIDE DEF g, s, native
    <2>6. Others(p) /\ s.pc \in {"advance", "read"} /\ (s.at = r.at \/ s.at = r.at + 1) /\ s.current = g
      BY <1>2, <2>3
    <2>7. Adds(p, es) /\ PastNoFile(p)
      BY <2>1, <2>2, <2>4, <2>5, <2>6 DEF Adds, Building, s, PastNoFile
    <2> QED BY <1>6, <2>6, <2>7 DEF Kinds, es, native
  <1>7. CASE FetchQueries(p)
    <2> DEFINE es == EventEdges(Queries(r.since), QueryLog)
               g == MergedInto(r.current, es)
    <2>1. r.pc = "fetch" /\ Sources[r.at] = Adapter
      BY <1>1, <1>7 DEF FetchQueries, IsPlace
    <2>2. IsSeq(es)
      BY <1>1, RowsAre, QueriesAreNoFiles
    <2>3. Becomes(p, Rec("read", r.at + 1, g, 0, r.native, r.previous, r.revision))
      BY <1>7, FetchesQueries
    <2> HIDE DEF es
    <2>4. Merges(r.current.specs, r.current.edges, es, g)
      BY <1>1, <2>2, Merging
    <2>5. Quiet
      BY <1>7 DEF FetchQueries, Quiet, world, store, ghosts
    <2> HIDE DEF g, s
    <2>6. Others(p) /\ s.pc = "read" /\ s.at = r.at + 1 /\ s.current = g
      BY <1>2, <2>3
    <2>7. Adds(p, es) /\ PastNoFile(p)
      BY <2>1, <2>2, <2>4, <2>5, <2>6 DEF Adds, Building, s, PastNoFile
    <2> QED BY <1>7, <2>6, <2>7 DEF Kinds, es
  <1> HIDE DEF s
  <1>8. CASE GetToken(p)
    <2>1. Becomes(p, Rec("fetch", r.at, r.current, token, r.native, r.previous, r.revision))
      BY <1>8, GetsToken
    <2>2. Others(p) /\ s.pc = "fetch" /\ s.at = r.at /\ s.current = r.current
      BY <1>2, <2>1
    <2>3. Keeps(p)
      BY <1>8, <2>2 DEF GetToken, Keeps, Quiet, world, store, ghosts, PastNoFile, Building, s
    <2> QED BY <2>2, <2>3 DEF Kinds
  <1>9. CASE SetToken(p)
    <2>1. Becomes(p, Rec("read", r.at + 1, r.current, 0, {}, r.previous, r.revision))
      BY <1>9, SetsToken
    <2>2. Others(p) /\ s.pc = "read" /\ s.at = r.at + 1 /\ s.current = r.current
      BY <1>2, <2>1
    <2>3. Keeps(p)
      BY <1>1, <1>9, <2>2 DEF SetToken, IsPlace, Keeps, Quiet, world, ghosts, PastNoFile, Building, s
    <2> QED BY <2>2, <2>3 DEF Kinds
  <1>10. CASE LoadDatasets(p)
    <2>1. Becomes(p, Rec("edges", r.at, r.current, r.since, r.native, [specs |-> rows.specs, edges |-> {}], r.revision))
      BY <1>10, LoadsDatasets
    <2>2. Others(p) /\ s.pc = "edges" /\ s.at = r.at /\ s.current = r.current
      BY <1>2, <2>1
    <2>3. Keeps(p)
      BY <1>10, <2>2 DEF LoadDatasets, Keeps, Quiet, world, store, ghosts, PastNoFile, Building, s
    <2> QED BY <2>2, <2>3 DEF Kinds
  <1>11. CASE LoadEdges(p)
    <2>1. Becomes(p, Rec("save", r.at, r.current, r.since, r.native,
                         [specs |-> r.previous.specs, edges |-> rows.edges], r.revision))
      BY <1>11, LoadsEdges
    <2>2. Others(p) /\ s.pc = "save" /\ s.at = r.at /\ s.current = r.current
      BY <1>2, <2>1
    <2>3. Keeps(p)
      BY <1>11, <2>2 DEF LoadEdges, Keeps, Quiet, world, store, ghosts, PastNoFile, Building, s
    <2> QED BY <2>2, <2>3 DEF Kinds
  <1>12. CASE LoadFails(p)
    <2>1. Becomes(p, Rec("KeyError", r.at, r.current, r.since, r.native, r.previous, r.revision))
      BY <1>12, MovesOn DEF LoadFails
    <2>2. Others(p) /\ s.pc = "KeyError"
      BY <1>2, <2>1
    <2>3. LeavesOff(p)
      BY <1>12, <2>2 DEF LoadFails, LeavesOff, Quiet, world, store, Building, Holding, s
    <2> QED BY <2>2, <2>3 DEF Kinds
  <1>13. CASE SaveGraph(p)
    <2>1. Becomes(p, Rec("log", r.at, r.current, r.since, r.native, r.previous, r.revision))
      BY <1>13, MovesOn DEF SaveGraph
    <2>2. Others(p) /\ s.pc = "log" /\ s.at = r.at /\ s.current = r.current
      BY <1>2, <2>1
    <2>3. Saves(p)
      BY <1>13, <2>2 DEF SaveGraph, Saves, s
    <2> QED BY <1>13, <2>2, <2>3 DEF Kinds
  <1>14. CASE ReadRevisions(p)
    <2> DEFINE revision == Recorded(Newest(ReadLog), run[p].previous, run[p].current)
    <2>1. Becomes(p, Idle) \/ Becomes(p, Rec("append", 1, EmptyGraph, 0, {}, None, revision))
      BY <1>14, ReadsRevisions
    <2> HIDE DEF revision
    <2>2. Others(p) /\ s.pc \in {"idle", "append"}
      BY <1>2, <1>3, <2>1
    <2>3. LeavesOff(p)
      BY <1>14, <2>2 DEF ReadRevisions, LeavesOff, Quiet, world, store, ghosts, Building, Holding, s
    <2> QED BY <2>2, <2>3 DEF Kinds
  <1>15. CASE AppendRevision(p)
    <2>1. Others(p) /\ s.pc = "idle"
      BY <1>3, <1>15, RunBecomes DEF AppendRevision, Typed
    <2>2. LeavesOff(p)
      BY <1>15, <2>1 DEF AppendRevision, LeavesOff, Quiet, world, ghosts, Building, Holding, s
    <2> QED BY <2>1, <2>2 DEF Kinds
  <1>16. CASE Exit(p)
    <2>1. Others(p) /\ s.pc = "idle"
      BY <1>3, <1>16, RunBecomes DEF Exit, Typed
    <2>2. LeavesOff(p)
      BY <1>16, <2>1 DEF Exit, LeavesOff, Quiet, world, store, ghosts, Building, Holding, s
    <2> QED BY <2>1, <2>2 DEF Kinds
  <1>17. CASE Break(p)
    <2>1. Others(p) /\ s.pc = "idle"
      BY <1>3, <1>17, RunBecomes DEF Break, Typed
    <2>2. LeavesOff(p)
      BY <1>17, <2>1 DEF Break, LeavesOff, Quiet, world, store, Building, Holding, s
    <2> QED BY <2>1, <2>2 DEF Kinds
  <1> QED BY <1>4, <1>5, <1>6, <1>7, <1>8, <1>9, <1>10, <1>11, <1>12, <1>13, <1>14, <1>15, <1>16, <1>17 DEF Step

-----------------------------------------------------------------------------
(* Nothing that was fetched is skipped. *)

LEMMA DatasetsInit == ASSUME Init PROVE GraphsHaveDatasets
  BY DEF Init, Idle, GraphsHaveDatasets, Holding, Building

LEMMA DatasetsNext ==
  ASSUME Declaring, Typed, GraphsHaveDatasets, [Next]_vars
  PROVE  GraphsHaveDatasets'
  <1>1. CASE World \/ UNCHANGED vars
    <2>1. run' = run
      BY <1>1 DEF World, EditFile, EditConfig, Observe, Land, vars
    <2> QED BY <2>1 DEF GraphsHaveDatasets
  <1>2. ASSUME NEW p \in Procs, Step(p) \/ Break(p) PROVE GraphsHaveDatasets'
    <2>1. Others(p) /\ Kinds(p)
      BY <1>2, KindsOfSteps
    <2>2. run[p].pc \in Holding => DOMAIN run[p].current.specs # {}
      BY DEF GraphsHaveDatasets
    <2>3. ASSUME run'[p].pc \in Holding PROVE DOMAIN run'[p].current.specs # {}
      <3>1. CASE Begins(p)
        <4>1. DOMAIN declared # {}
          BY DEF Declaring, Typed, WorldTyped
        <4> QED BY <3>1, <4>1 DEF Begins
      <3>2. ASSUME NEW es, Adds(p, es) PROVE DOMAIN run'[p].current.specs # {}
        <4>1. DOMAIN run[p].current.specs # {}
          BY <2>2, <3>2 DEF Adds, Holding
        <4> QED BY <3>2, <4>1 DEF Adds, Merges
      <3>3. CASE Keeps(p) \/ Saves(p)
        BY <2>2, <3>3 DEF Keeps, Saves, Holding, Building
      <3>4. CASE LeavesOff(p)
        BY <2>3, <3>4 DEF LeavesOff
      <3> QED BY <2>1, <3>1, <3>2, <3>3, <3>4 DEF Kinds
    <2> QED BY <2>1, <2>3 DEF Others, GraphsHaveDatasets
  <1> QED BY <1>1, <1>2 DEF Next

LEMMA NativeKeys ==
  ASSUME WorldTyped, NEW t \in Times
  PROVE  KeyOf(t) = <<Event[t].src, Event[t].dst, EvidenceOf(t)>> /\ EvidenceOf(t) \notin Files
  <1>1. project.platform \in {"snowflake", "databricks", "bigquery"}
    BY IngestAssumption DEF IngestAssumption, WorldTyped
  <1>2. AccessHistory \notin Files /\ UnityCatalog \notin Files /\ JobOf(t) \notin Files
    BY EvidenceAssumption DEF EvidenceAssumption, WorldTyped, Files, Times, Event
  <1> QED BY <1>1, <1>2 DEF KeyOf, Key, Edge, EvidenceOf

\* Saving keeps the rows of what no file says, and adds all that the graph has.
LEMMA SavingKeeps ==
  ASSUME Typed, NEW p \in Procs, SaveGraph(p), NEW k
  PROVE  /\ k \in Keys(rows.edges) /\ k[3] \notin Files => k \in Keys(rows'.edges)
         /\ k \in Keys(ToSet(run[p].current.edges)) => k \in Keys(rows'.edges)
  <1> DEFINE es == run[p].current.edges
             new == LastOfEachKey(es)
  <1>1. rows'.edges = {e \in rows.edges : e.evidence \notin Files /\ Key(e) \notin Keys(new)} \cup new
    BY DEF SaveGraph, SavedEdges, Replaced
  <1>2. IsSeq(es)
    BY RunIs DEF IsGraph
  <1> HIDE DEF es
  <1>3. Keys(new) = Keys(ToSet(es))
    BY <1>2, LastFacts
  <1> HIDE DEF new
  <1>4. \A e : Key(e)[3] = e.evidence
    BY DEF Key
  <1>5. Keys(new) \subseteq Keys(rows'.edges)
    BY <1>1 DEF Keys
  <1>6. ASSUME k \in Keys(rows.edges), k[3] \notin Files PROVE k \in Keys(rows'.edges)
    BY <1>1, <1>4, <1>5, <1>6 DEF Keys
  <1> QED BY <1>3, <1>5, <1>6 DEF es

LEMMA FetchedInit == ASSUME Init PROVE FetchedInv
  BY DatasetsInit DEF Init, FetchedInv

LEMMA FetchedNext ==
  ASSUME Declaring, Typed, FetchedInv, [Next]_vars
  PROVE  FetchedInv'
  <1>0. GraphsHaveDatasets'
    BY DatasetsNext DEF FetchedInv
  <1>1. project' = project /\ WorldTyped
    BY WorldStaysTyped DEF Typed
  <1>2. \A t : KeyOf(t)' = KeyOf(t)
    BY <1>1 DEF KeyOf, EvidenceOf, Event
  <1>3. CASE World \/ UNCHANGED vars
    <2>1. run' = run /\ rows' = rows /\ fetched' = fetched /\ cut' = cut
      BY <1>3 DEF World, EditFile, EditConfig, Observe, Land, vars, store, ghosts
    <2> QED BY <1>0, <1>2, <2>1 DEF FetchedInv, OnItsWay
  <1>4. ASSUME NEW p \in Procs, Step(p) \/ Break(p) PROVE FetchedInv'
    <2>1. Others(p) /\ Kinds(p)
      BY <1>4, KindsOfSteps
    <2>2. SUFFICES ASSUME ~cut', NEW t \in fetched' PROVE OnItsWay(t)'
      BY <1>0 DEF FetchedInv
    <2> DEFINE Stored == KeyOf(t) \in Keys(rows.edges)
               Carried(q) == run[q].pc \in Building /\ KeyOf(t) \in Keys(ToSet(run[q].current.edges))
    <2>3. OnItsWay(t) <=> Stored \/ \E q \in Procs : Carried(q)
      BY DEF OnItsWay
    <2>4. ASSUME Stored' \/ \E q \in Procs : Carried(q)' PROVE OnItsWay(t)'
      BY <2>4 DEF OnItsWay
    <2>5. \A q \in Procs \ {p} : Carried(q) => Carried(q)'
      BY <1>2, <2>1 DEF Others
    <2>6. rows' = rows => (Stored => Stored')
      BY <1>2
    <2>7. ASSUME cut' = cut, t \in fetched, rows' = rows, Carried(p) => Carried(p)' PROVE OnItsWay(t)'
      <3>1. OnItsWay(t)
        BY <2>2, <2>7 DEF FetchedInv
      <3>2. Stored \/ \E q \in Procs : Carried(q)
        BY <2>3, <3>1
      <3> HIDE DEF Stored, Carried
      <3> QED BY <2>4, <2>5, <2>6, <2>7, <3>2
    <2>8. CASE Start(p)
      <3>1. cut' = cut /\ fetched' = fetched /\ rows' = rows /\ ~Carried(p)
        BY <2>8 DEF Start, store, Building
      <3> QED BY <2>2, <2>7, <3>1
    <2>9. ASSUME NEW es, Adds(p, es) PROVE rows' = rows /\ (Carried(p) => Carried(p)')
      <3>1. rows' = rows /\ run'[p].pc \in Building
        BY <2>9 DEF Adds, Quiet
      <3>2. ToSet(run[p].current.edges) \subseteq ToSet(run'[p].current.edges)
        <4>1. IsSeq(run[p].current.edges) /\ IsSeq(es)
          BY <2>9, RunIs DEF IsGraph, Adds
        <4>2. \/ run'[p].current.edges = run[p].current.edges
              \/ run'[p].current.edges = run[p].current.edges \o es
          BY <2>9 DEF Adds, Merges
        <4>3. ToSet(run[p].current.edges) \subseteq ToSet(run[p].current.edges \o es)
          BY <4>1, ConcatIs
        <4> QED BY <4>2, <4>3
      <3> QED BY <1>2, <3>1, <3>2 DEF Keys
    <2>10. ASSUME NEW es, Adds(p, es), ReadFile(p) \/ FetchQueries(p) PROVE OnItsWay(t)'
      <3>1. cut' = cut /\ fetched' = fetched
        BY <2>10 DEF ReadFile, FetchQueries, ghosts
      <3>2. rows' = rows /\ (Carried(p) => Carried(p)')
        BY <2>9, <2>10
      <3> HIDE DEF Carried
      <3> QED BY <2>2, <2>7, <3>1, <3>2
    <2>11. ASSUME FetchLineage(p), Adds(p, NativeEdges(Rows(run[p].since))) PROVE OnItsWay(t)'
      <3> DEFINE native == Rows(run[p].since)
                 es == NativeEdges(native)
      <3>1. cut' = cut /\ fetched' = fetched \cup native
        BY <2>11 DEF FetchLineage
      <3>2. CASE t \in native
        <4>1. native \in SUBSET Times
          BY <1>1, RowsAre
        <4>2. KeyOf(t) \in Keys(ToSet(es))
          <5> HIDE DEF native
          <5> QED BY <1>1, <3>2, <4>1, NativeIs DEF Native
        <4> HIDE DEF es, native
        <4>3. Adds(p, es)
          BY <2>11 DEF es, native
        <4>4. DOMAIN run[p].current.specs # {}
          BY <4>3 DEF Adds, FetchedInv, GraphsHaveDatasets, Holding
        <4>5. ToSet(es) \subseteq ToSet(run'[p].current.edges) /\ run'[p].pc \in Building
          BY <4>3, <4>4 DEF Adds, Merges
        <4>6. Carried(p)'
          BY <1>2, <4>2, <4>5 DEF Keys
        <4> HIDE DEF Carried
        <4> QED BY <2>4, <4>6
      <3>3. CASE t \in fetched
        <4>1. rows' = rows /\ (Carried(p) => Carried(p)')
          BY <2>9, <2>11
        <4> HIDE DEF Carried
        <4> QED BY <2>7, <3>1, <3>3, <4>1
      <3> QED BY <2>2, <3>1, <3>2, <3>3
    <2>12. CASE Keeps(p)
      <3>1. cut' = cut /\ fetched' = fetched /\ rows' = rows
        BY <2>12 DEF Keeps, Quiet
      <3>2. Carried(p) => Carried(p)'
        BY <1>2, <2>12 DEF Keeps
      <3> HIDE DEF Carried
      <3> QED BY <2>2, <2>7, <3>1, <3>2
    <2>13. CASE SaveGraph(p)
      <3>1. cut' = cut /\ fetched' = fetched
        BY <2>13 DEF SaveGraph
      <3>2. t \in Times
        <4>1. t \in 1 .. now /\ now \in Nat /\ now <= Len(Event)
          BY <1>1, <2>2, <3>1 DEF WorldTyped
        <4>2. Times = 1 .. Len(Event) /\ Len(Event) \in Nat
          BY <1>1, TimesAre
        <4> QED BY <4>1, <4>2
      <3>3. KeyOf(t)[3] \notin Files
        BY <1>1, <3>2, NativeKeys
      <3>4. Stored => Stored'
        BY <1>2, <2>13, <3>3, SavingKeeps
      <3>5. Carried(p) => Stored'
        BY <1>2, <2>13, SavingKeeps
      <3>6. Stored \/ \E q \in Procs : Carried(q)
        BY <2>2, <2>3, <3>1 DEF FetchedInv
      <3> HIDE DEF Stored, Carried
      <3> QED BY <2>4, <2>5, <3>4, <3>5, <3>6
    <2>14. CASE LeavesOff(p)
      <3>1. fetched' = fetched /\ rows' = rows /\ cut' = cut /\ run[p].pc \notin Building
        BY <2>2, <2>14 DEF LeavesOff, Quiet
      <3> QED BY <2>2, <2>7, <3>1
    <2> HIDE DEF Stored, Carried
    <2> QED BY <2>1, <2>8, <2>10, <2>11, <2>12, <2>13, <2>14 DEF Kinds
  <1> QED BY <1>3, <1>4 DEF Next

\* Whatever lies at or before the cursor has been fetched, however late its row reached
\* the platform's log; and while no ingest is cut short, whatever was fetched is in the
\* store when none is running.  For configurations that declare a dataset.
THEOREM CursorsAreSafe == Declaring => (Spec => []CursorIsSafe)
  <1> SUFFICES ASSUME Declaring PROVE Spec => []CursorIsSafe
    OBVIOUS
  <1>1. Init => Typed /\ CursorInv /\ FetchedInv
    BY TypedInit, CursorInit, FetchedInit
  <1>2. Typed /\ CursorInv /\ FetchedInv /\ [Next]_vars => (Typed /\ CursorInv /\ FetchedInv)'
    BY TypedNext, CursorNext, FetchedNext
  <1>3. CursorInv => CursorWaitsForLateRows
    BY DEF CursorInv, Covered, CoveredBy, CursorWaitsForLateRows
  <1>4. FetchedInv => NothingSkipped
    BY DEF FetchedInv, OnItsWay, NothingSkipped, Idling, Building, KeyOf
  <1>5. Typed /\ CursorInv /\ FetchedInv => CursorIsSafe
    BY <1>3, <1>4 DEF CursorIsSafe
  <1> QED BY <1>1, <1>2, <1>5, PTL DEF Spec

-----------------------------------------------------------------------------
(* Each file's part of a graph, and of the store, is of one version of it. *)

LEMMA PartOfConcat ==
  ASSUME NEW s, NEW t, IsSeq(s), IsSeq(t), NEW f
  PROVE  /\ NothingOf(t, f) => Part(s \o t, f) = Part(s, f)
         /\ NothingOf(s, f) => Part(s \o t, f) = Part(t, f)
         /\ NothingOf(s, f) /\ NothingOf(t, f) => NothingOf(s \o t, f)
  <1>1. LastOfEachKey(s \o t) = {e \in LastOfEachKey(s) : Key(e) \notin Keys(ToSet(t))} \cup LastOfEachKey(t)
    BY LastOfConcat
  <1>2. LastOfEachKey(s) \subseteq ToSet(s) /\ LastOfEachKey(t) \subseteq ToSet(t)
    BY LastFacts
  <1>3. \A e, x : Key(e) = Key(x) => e.evidence = x.evidence
    BY DEF Key
  <1>4. ASSUME NothingOf(t, f) PROVE Part(s \o t, f) = Part(s, f)
    <2>1. \A e \in LastOfEachKey(s) : e.evidence = f => Key(e) \notin Keys(ToSet(t))
      BY <1>3, <1>4 DEF NothingOf, Keys
    <2> QED BY <1>1, <1>2, <1>4, <2>1 DEF Part, NothingOf
  <1>5. ASSUME NothingOf(s, f) PROVE Part(s \o t, f) = Part(t, f)
    BY <1>1, <1>2, <1>5 DEF Part, NothingOf
  <1>6. ASSUME NothingOf(s, f), NothingOf(t, f) PROVE NothingOf(s \o t, f)
    <2>1. ToSet(s \o t) = ToSet(s) \cup ToSet(t)
      BY ConcatIs
    <2> QED BY <1>6, <2>1 DEF NothingOf
  <1> QED BY <1>4, <1>5, <1>6

LEMMA PartOfNothing == ASSUME NEW f PROVE Part(<< >>, f) = {} /\ NothingOf(<< >>, f)
  BY EmptyIsGraph DEF Part, LastOfEachKey, NothingOf

\* All that a file's edges say is under its evidence.
LEMMA PartOfFile ==
  ASSUME NEW f, NEW c, IsSeq(c)
  PROVE  /\ Part(FileEdges(f, c), f) = Stated(f, c)
         /\ \A x : x # f => NothingOf(FileEdges(f, c), x)
  <1> DEFINE es == FileEdges(f, c)
  <1>1. IsSeq(es) /\ \A e \in ToSet(es) : e.evidence = f
    BY FileEdgesAre
  <1>2. LastOfEachKey(es) \subseteq ToSet(es)
    BY <1>1, LastFacts
  <1>3. Stated(f, c) = LastOfEachKey(es)
    BY DEF Stated
  <1> HIDE DEF es
  <1> QED BY <1>1, <1>2, <1>3 DEF Part, NothingOf, es

\* What save_graph leaves of a file.
LEMMA StoredBySave ==
  ASSUME NEW p \in Procs, SaveGraph(p), NEW f \in Files
  PROVE  {e \in rows'.edges : e.evidence = f} = Part(run[p].current.edges, f)
  <1> DEFINE new == LastOfEachKey(run[p].current.edges)
  <1>1. rows'.edges = {e \in rows.edges : e.evidence \notin Files /\ Key(e) \notin Keys(new)} \cup new
    BY DEF SaveGraph, SavedEdges, Replaced
  <1>2. Part(run[p].current.edges, f) = {e \in new : e.evidence = f}
    BY DEF Part
  <1> HIDE DEF new
  <1> QED BY <1>1, <1>2

LEMMA AddedParts ==
  ASSUME Typed, NEW p \in Procs, NEW es, Adds(p, es), NEW f
  PROVE  /\ NothingOf(es, f) => /\ Part(run'[p].current.edges, f) = Part(run[p].current.edges, f)
                                /\ NothingOf(run[p].current.edges, f) => NothingOf(run'[p].current.edges, f)
         /\ NothingOf(run[p].current.edges, f) =>
              Part(run'[p].current.edges, f) \in {Part(run[p].current.edges, f), Part(es, f)}
         /\ NothingOf(run[p].current.edges, f) /\ DOMAIN run[p].current.specs # {} =>
              Part(run'[p].current.edges, f) = Part(es, f)
  <1> DEFINE a == run[p].current.edges
             b == run'[p].current.edges
  <1>1. IsSeq(a) /\ IsSeq(es)
    BY RunIs DEF IsGraph, Adds
  <1>2. (b = a \/ b = a \o es) /\ (DOMAIN run[p].current.specs # {} => b = a \o es)
    BY DEF Adds, Merges
  <1> HIDE DEF a, b
  <1>3. /\ NothingOf(es, f) => Part(a \o es, f) = Part(a, f)
        /\ NothingOf(a, f) => Part(a \o es, f) = Part(es, f)
        /\ NothingOf(a, f) /\ NothingOf(es, f) => NothingOf(a \o es, f)
    BY <1>1, PartOfConcat
  <1>4. /\ NothingOf(es, f) => Part(b, f) = Part(a, f) /\ (NothingOf(a, f) => NothingOf(b, f))
        /\ NothingOf(a, f) => Part(b, f) \in {Part(a, f), Part(es, f)}
        /\ NothingOf(a, f) /\ DOMAIN run[p].current.specs # {} => Part(b, f) = Part(es, f)
    BY <1>2, <1>3
  <1> QED BY <1>4 DEF a, b

\* The adapters' edges are of no file.
LEMMA AdaptersAddNothing ==
  ASSUME WorldTyped, NEW since, NEW f \in Files
  PROVE  NothingOf(NativeEdges(Rows(since)), f) /\ NothingOf(EventEdges(Queries(since), QueryLog), f)
  <1>1. Rows(since) \in SUBSET Times /\ Queries(since) \in SUBSET Times
    BY RowsAre
  <1>2. NothingOf(NativeEdges(Rows(since)), f)
    BY <1>1, NativeIs DEF Native, NothingOf
  <1>3. NothingOf(EventEdges(Queries(since), QueryLog), f)
    BY <1>1, QueriesAreNoFiles DEF NothingOf
  <1> QED BY <1>2, <1>3

LEMMA VersionsGrow ==
  ASSUME Typed, [Next]_vars
  PROVE  Files' = Files /\ Sources' = Sources /\ \A f \in Files : versions[f] \subseteq versions'[f]
  <1>1. Files' = Files /\ Sources' = Sources
    BY WorldStaysTyped DEF Files, Sources
  <1>2. ASSUME NEW f \in Files, EditFile(f) PROVE \A g \in Files : versions[g] \subseteq versions'[g]
    BY <1>2 DEF EditFile, Typed, WorldTyped
  <1>3. CASE ~(\E f \in Files : EditFile(f))
    <2>1. versions' = versions
      BY <1>3 DEF Next, World, EditConfig, Observe, Land, vars, ghosts, Step, Break, Start, ReadFile, GetToken,
           FetchLineage, FetchQueries, SetToken, LoadDatasets, LoadEdges, LoadFails, SaveGraph, ReadRevisions,
           AppendRevision, Exit
    <2> QED BY <1>1, <2>1
  <1> QED BY <1>1, <1>2, <1>3

LEMMA VersionsInit == ASSUME Init PROVE VersionsInv
  <1>1. GraphsAreOfOneVersion
    BY DEF Init, Idle, GraphsAreOfOneVersion, FromOneVersion, Holding, Building
  <1>2. OneVersionPerFile
    BY DEF Init, OneVersionPerFile, StoredOf
  <1> QED BY <1>1, <1>2 DEF VersionsInv

LEMMA VersionsNext ==
  ASSUME Typed, VersionsInv, [Next]_vars
  PROVE  VersionsInv'
  <1> DEFINE Now(es, f) == Part(es, f) = {} \/ \E c \in versions'[f] : Part(es, f) = Stated(f, c)
             Fine(r) == r.pc \in Holding =>
                          /\ \A f \in Files : Now(r.current.edges, f)
                          /\ \A i \in r.at .. Len(Sources) :
                               Sources[i] \in Files => NothingOf(r.current.edges, Sources[i])
             Kept(f) == \/ {e \in rows'.edges : e.evidence = f} = {}
                        \/ \E c \in versions'[f] : {e \in rows'.edges : e.evidence = f} = Stated(f, c)
  <1>1. /\ Files' = Files /\ Sources' = Sources
        /\ \A f \in Files : versions[f] \subseteq versions'[f]
    BY VersionsGrow
  <1>2. \A q \in Procs : Fine(run[q])
    BY <1>1 DEF VersionsInv, GraphsAreOfOneVersion, FromOneVersion, OfOneVersion
  <1>3. ASSUME \A q \in Procs : Fine(run'[q]), \A f \in Files : Kept(f) PROVE VersionsInv'
    <2>1. OneVersionPerFile'
      BY <1>1, <1>3 DEF OneVersionPerFile, StoredOf
    <2>2. GraphsAreOfOneVersion'
      BY <1>1, <1>3 DEF GraphsAreOfOneVersion, FromOneVersion, OfOneVersion
    <2> QED BY <2>1, <2>2 DEF VersionsInv
  <1>4. ASSUME rows' = rows, NEW f \in Files PROVE Kept(f)
    BY <1>1, <1>4 DEF VersionsInv, OneVersionPerFile, StoredOf
  <1> HIDE DEF Fine, Kept
  <1>5. CASE World \/ UNCHANGED vars
    <2>1. run' = run /\ rows' = rows
      BY <1>5 DEF World, EditFile, EditConfig, Observe, Land, vars, store
    <2> QED BY <1>2, <1>3, <1>4, <2>1
  <1>6. ASSUME NEW p \in Procs, Step(p) \/ Break(p) PROVE VersionsInv'
    <2>1. Others(p) /\ Kinds(p) /\ WorldTyped
      BY <1>6, KindsOfSteps DEF Typed
    <2>2. ASSUME Fine(run'[p]), \A f \in Files : Kept(f) PROVE VersionsInv'
      BY <1>2, <1>3, <2>1, <2>2 DEF Others
    <2> DEFINE r == run[p]
               s == run'[p]
    <2>0. Len(Sources) \in Nat /\ r.at \in 1 .. Len(Sources) + 1
      <3>1. IsPlace(r.pc, r.at, r.previous)
        BY RunIs
      <3> QED BY <2>1, <3>1, ProjectIs DEF IsPlace
    <2>3. CASE Start(p) /\ Begins(p)
      <3>1. rows' = rows
        BY <2>3 DEF Start, store
      <3>2. s.current.edges = << >>
        BY <2>3 DEF Begins
      <3>3. Fine(s)
        BY <3>2, PartOfNothing DEF Fine
      <3> QED BY <1>4, <2>2, <3>1, <3>3
    <2>4. CASE /\ ReadFile(p) /\ Adds(p, FileEdges(Sources[run[p].at], content[Sources[run[p].at]]))
               /\ run'[p].at = run[p].at + 1
      <3> DEFINE f == Sources[r.at]
                 es == FileEdges(f, content[f])
      <3>1. r.at \in 1 .. Len(Sources) /\ f \in Files /\ Len(Sources) \in Nat
        <4>1. r.at <= Len(Sources) /\ f # Adapter
          BY <2>4 DEF ReadFile, Source
        <4> QED BY <2>0, <2>1, <4>1, ProjectIs
      <3>2. IsSeq(content[f]) /\ content[f] \in versions'[f]
        BY <1>1, <2>1, <3>1, ProjectIs DEF WorldTyped
      <3>3. Part(es, f) = Stated(f, content[f]) /\ \A x : x # f => NothingOf(es, x)
        BY <3>2, PartOfFile
      <3>4. Adds(p, es) /\ rows' = rows /\ r.pc \in Holding /\ s.at = r.at + 1
        BY <2>4 DEF Adds, Quiet, Holding
      <3>5. \A i \in r.at .. Len(Sources) : Sources[i] \in Files => NothingOf(r.current.edges, Sources[i])
        BY <1>2, <3>4 DEF Fine
      <3>6. NothingOf(r.current.edges, f)
        BY <3>1, <3>5
      <3> HIDE DEF es
      <3>7. ASSUME NEW x \in Files PROVE Now(s.current.edges, x)
        <4>1. CASE x = f
          <5>1. Part(s.current.edges, f) \in {Part(r.current.edges, f), Part(es, f)}
            BY <3>4, <3>6, AddedParts
          <5>2. Now(r.current.edges, f)
            BY <1>2, <3>1, <3>4 DEF Fine
          <5> QED BY <3>2, <3>3, <4>1, <5>1, <5>2
        <4>2. CASE x # f
          <5>1. Part(s.current.edges, x) = Part(r.current.edges, x)
            BY <3>3, <3>4, <4>2, AddedParts
          <5>2. Now(r.current.edges, x)
            BY <1>2, <3>4 DEF Fine
          <5> QED BY <5>1, <5>2
        <4> QED BY <4>1, <4>2
      <3>8. ASSUME NEW i \in s.at .. Len(Sources), Sources[i] \in Files PROVE NothingOf(s.current.edges, Sources[i])
        <4>1. i \in r.at .. Len(Sources) /\ i # r.at /\ i \in 1 .. Len(Sources)
          BY <3>1, <3>4
        <4>2. Sources[i] # f
          <5>1. \A k, j \in DOMAIN Sources : Sources[k] = Sources[j] /\ k # j => Sources[k] = Adapter
            BY <2>1, EvidenceAssumption DEF EvidenceAssumption, WorldTyped, Sources
          <5> QED BY <2>1, <3>1, <3>8, <4>1, <5>1, ProjectIs
        <4> QED BY <3>3, <3>4, <3>5, <3>8, <4>1, <4>2, AddedParts
      <3>9. Fine(s)
        BY <3>7, <3>8 DEF Fine
      <3> QED BY <1>4, <2>2, <3>4, <3>9
    <2>5. ASSUME NEW es, Adds(p, es), PastNoFile(p), \A f \in Files : NothingOf(es, f) PROVE VersionsInv'
      <3>1. rows' = rows /\ r.pc \in Holding
        BY <2>5 DEF Adds, Quiet, Holding
      <3>2. ASSUME NEW f \in Files PROVE Now(s.current.edges, f)
        BY <1>2, <2>5, <3>1, AddedParts DEF Fine
      <3>3. ASSUME NEW i \in s.at .. Len(Sources), Sources[i] \in Files PROVE NothingOf(s.current.edges, Sources[i])
        <4>1. i \in r.at .. Len(Sources)
          <5>1. s.at = r.at \/ s.at = r.at + 1
            BY <2>5 DEF PastNoFile
          <5> QED BY <2>0, <3>3, <5>1
        <4>2. NothingOf(r.current.edges, Sources[i])
          BY <1>2, <3>1, <3>3, <4>1 DEF Fine
        <4> QED BY <2>5, <3>3, <4>2, AddedParts
      <3>4. Fine(s)
        BY <3>2, <3>3 DEF Fine
      <3> QED BY <1>4, <2>2, <3>1, <3>4
    <2>6. CASE Keeps(p)
      <3>1. rows' = rows /\ r.pc \in Holding /\ s.current = r.current
        BY <2>6 DEF Keeps, Quiet, Holding
      <3>2. \A i \in s.at .. Len(Sources) : i \in r.at .. Len(Sources)
        <4>1. s.at = r.at \/ s.at = r.at + 1
          BY <2>6 DEF Keeps, PastNoFile
        <4> HIDE DEF r, s
        <4> QED BY <2>0, <4>1
      <3>3. Fine(s)
        BY <1>2, <3>1, <3>2 DEF Fine
      <3> QED BY <1>4, <2>2, <3>1, <3>3
    <2>7. CASE SaveGraph(p) /\ Saves(p)
      <3>1. r.pc \in Holding /\ s.current = r.current /\ s.at = r.at
        BY <2>7 DEF Saves, Holding, Building
      <3>2. Fine(s)
        BY <1>2, <3>1 DEF Fine
      <3>3. ASSUME NEW f \in Files PROVE Kept(f)
        <4>1. {e \in rows'.edges : e.evidence = f} = Part(r.current.edges, f)
          BY <2>7, StoredBySave
        <4>2. Now(r.current.edges, f)
          BY <1>2, <3>1 DEF Fine
        <4> QED BY <4>1, <4>2 DEF Kept
      <3> QED BY <2>2, <3>2, <3>3
    <2>8. CASE LeavesOff(p)
      <3>1. rows' = rows /\ Fine(s)
        BY <2>8 DEF LeavesOff, Quiet, Fine
      <3> QED BY <1>4, <2>2, <3>1
    <2>9. \A f \in Files : /\ NothingOf(NativeEdges(Rows(r.since)), f)
                           /\ NothingOf(EventEdges(Queries(r.since), QueryLog), f)
      BY <2>1, AdaptersAddNothing
    <2> QED BY <2>1, <2>3, <2>4, <2>5, <2>6, <2>7, <2>8, <2>9 DEF Kinds
  <1> QED BY <1>5, <1>6 DEF Next

-----------------------------------------------------------------------------
(* An ingest that nothing disturbs is exact. *)

LEMMA ExactInit == ASSUME Init PROVE ExactInv
  BY DatasetsInit DEF Init, ExactInv

LEMMA SavedSpecsAre ==
  ASSUME NEW stored, NEW specs, NEW d \in DOMAIN specs, specs[d] # Unpartitioned
  PROVE  SavedSpecs(stored, specs)[d] = specs[d]
  BY DEF SavedSpecs

LEMMA ExactNext ==
  ASSUME Declaring, Typed, VersionsInv, ExactInv, [Next]_vars
  PROVE  ExactInv'
  <1> DEFINE Whole == /\ \A f \in Files : {e \in rows'.edges : e.evidence = f} = Stated(f, content'[f])
                      /\ \A d \in DOMAIN declared' : rows'.specs[d] = declared'[d]
             Good(r) == /\ r.pc \in Building =>
                             /\ \A i \in 1 .. r.at - 1 : Sources[i] \in Files =>
                                  Part(r.current.edges, Sources[i]) = Stated(Sources[i], content'[Sources[i]])
                             /\ \A d \in DOMAIN declared' :
                                  d \in DOMAIN r.current.specs /\ r.current.specs[d] = declared'[d]
                        /\ r.pc \in {"log", "append"} => Whole
  <1>0. GraphsHaveDatasets'
    BY DatasetsNext DEF ExactInv
  <1>1. Files' = Files /\ Sources' = Sources /\ WorldTyped
    BY VersionsGrow DEF Typed
  <1>2. ASSUME \A q \in Procs : undisturbed'[q] => Good(run'[q]) PROVE ExactInv'
    <2>1. \A q \in Procs : undisturbed'[q] => RunIsExact(run[q])'
      BY <1>1, <1>2 DEF RunIsExact, GraphIsExact, StoreIsExact, StoredOf
    <2> QED BY <1>0, <2>1 DEF ExactInv
  <1>3. ASSUME UNCHANGED <<content, declared, rows>>, NEW q \in Procs, undisturbed[q] PROVE Good(run[q])
    BY <1>1, <1>3 DEF ExactInv, RunIsExact, GraphIsExact, StoreIsExact, StoredOf
  <1> HIDE DEF Good
  <1>4. CASE World \/ UNCHANGED vars
    <2>1. CASE \E f \in Files : EditFile(f)
      <3>1. \A q \in Procs : ~undisturbed'[q]
        BY <2>1 DEF EditFile
      <3> QED BY <1>2, <3>1
    <2>2. CASE EditConfig
      <3>1. \A q \in Procs : ~undisturbed'[q]
        BY <2>2 DEF EditConfig
      <3> QED BY <1>2, <3>1
    <2>3. CASE Observe \/ (\E t \in Times : Land(t)) \/ UNCHANGED vars
      <3>1. UNCHANGED <<content, declared, rows, run, undisturbed>>
        BY <2>3 DEF Observe, Land, vars, store, ghosts, world
      <3> QED BY <1>2, <1>3, <3>1
    <2> QED BY <1>4, <2>1, <2>2, <2>3 DEF World
  <1>5. ASSUME NEW p \in Procs, Step(p) \/ Break(p) PROVE ExactInv'
    <2> DEFINE r == run[p]
               s == run'[p]
    <2>1. Others(p) /\ Kinds(p)
      BY <1>5, KindsOfSteps
    <2>2. /\ Len(Sources) \in Nat /\ IsPlace(r.pc, r.at, r.previous) /\ r.at \in 1 .. Len(Sources) + 1
          /\ \A f \in Files : f # Adapter
      <3>1. IsPlace(r.pc, r.at, r.previous)
        BY RunIs
      <3> QED BY <1>1, <3>1, ProjectIs DEF IsPlace
    <2>3. ASSUME Quiet, undisturbed[p] => Good(s) PROVE ExactInv'
      <3>1. UNCHANGED <<content, declared, rows, undisturbed>>
        BY <2>3 DEF Quiet
      <3> QED BY <1>2, <1>3, <2>1, <2>3, <3>1 DEF Others
    <2>4. CASE Start(p) /\ Begins(p)
      <3>1. \A q \in Procs \ {p} : ~undisturbed'[q]
        BY <2>4 DEF Start
      <3>2. declared' = declared /\ s.pc = "read" /\ s.at = 1 /\ s.current = [specs |-> declared, edges |-> << >>]
        BY <2>4 DEF Start, Begins, world
      <3>3. Good(s)
        <4>1. s.current.specs = declared
          BY <3>2
        <4> HIDE DEF s
        <4> QED BY <3>2, <4>1 DEF Good
      <3> QED BY <1>2, <3>1, <3>3
    <2>5. ASSUME undisturbed[p], r.pc \in Building PROVE GraphIsExact(r)
      BY <2>5 DEF ExactInv, RunIsExact
    <2>6. ASSUME NEW es, Adds(p, es) PROVE r.pc \in Building /\ s.pc \in Building /\ Quiet
      BY <2>6 DEF Adds
    <2>7. ASSUME NEW es, Adds(p, es), undisturbed[p], NEW d \in DOMAIN declared
          PROVE  d \in DOMAIN s.current.specs /\ s.current.specs[d] = declared[d]
      <3>1. d \in DOMAIN r.current.specs /\ r.current.specs[d] = declared[d]
        BY <2>5, <2>6, <2>7 DEF GraphIsExact
      <3> QED BY <2>7, <3>1 DEF Adds, Merges
    <2>8. CASE /\ ReadFile(p) /\ Adds(p, FileEdges(Sources[run[p].at], content[Sources[run[p].at]]))
               /\ run'[p].at = run[p].at + 1
      <3> DEFINE f == Sources[r.at]
                 es == FileEdges(f, content[f])
      <3>1. r.at \in 1 .. Len(Sources) /\ f \in Files
        <4>1. r.at <= Len(Sources) /\ f # Adapter
          BY <2>8 DEF ReadFile, Source
        <4> QED BY <1>1, <2>2, <4>1, ProjectIs
      <3>2. Part(es, f) = Stated(f, content[f]) /\ \A x : x # f => NothingOf(es, x)
        <4>1. IsSeq(content[f])
          BY <1>1, <3>1, ProjectIs
        <4> QED BY <4>1, PartOfFile
      <3>3. Adds(p, es) /\ s.at = r.at + 1 /\ r.pc \in Building /\ s.pc \in Building /\ Quiet
        BY <2>6, <2>8
      <3>4. NothingOf(r.current.edges, f) /\ DOMAIN r.current.specs # {}
        <4>1. r.pc \in Holding /\ r.at \in r.at .. Len(Sources)
          BY <3>1, <3>3 DEF Holding
        <4> QED BY <3>1, <4>1 DEF VersionsInv, GraphsAreOfOneVersion, FromOneVersion, ExactInv, GraphsHaveDatasets
      <3> HIDE DEF es
      <3>5. ASSUME undisturbed[p], NEW i \in 1 .. s.at - 1, Sources[i] \in Files
            PROVE  Part(s.current.edges, Sources[i]) = Stated(Sources[i], content[Sources[i]])
        <4>1. CASE i = r.at
          BY <3>2, <3>3, <3>4, <4>1, AddedParts
        <4>2. CASE i # r.at
          <5>1. i \in 1 .. r.at - 1 /\ i \in 1 .. Len(Sources)
            BY <2>2, <3>1, <3>3, <3>5, <4>2
          <5>2. Part(r.current.edges, Sources[i]) = Stated(Sources[i], content[Sources[i]])
            BY <2>5, <3>3, <3>5, <5>1 DEF GraphIsExact
          <5>3. Sources[i] # f
            <6>1. \A k, j \in DOMAIN Sources : Sources[k] = Sources[j] /\ k # j => Sources[k] = Adapter
              BY <1>1, EvidenceAssumption DEF EvidenceAssumption, WorldTyped, Sources
            <6> QED BY <1>1, <2>2, <3>1, <3>5, <4>2, <5>1, <6>1, ProjectIs
          <5> QED BY <3>2, <3>3, <5>2, <5>3, AddedParts
        <4> QED BY <4>1, <4>2
      <3>6. content' = content /\ declared' = declared
        BY <3>3 DEF Quiet
      <3>7. s.pc \notin {"log", "append"}
        BY <3>3 DEF Building
      <3>8. undisturbed[p] => Good(s)
        BY <2>7, <3>3, <3>5, <3>6, <3>7 DEF Good
      <3> QED BY <2>3, <3>3, <3>8
    <2>9. ASSUME NEW es, Adds(p, es), PastNoFile(p), \A f \in Files : NothingOf(es, f) PROVE ExactInv'
      <3>1. r.pc \in Building /\ s.pc \in Building /\ Quiet
        BY <2>6, <2>9
      <3>2. ASSUME undisturbed[p], NEW i \in 1 .. s.at - 1, Sources[i] \in Files
            PROVE  Part(s.current.edges, Sources[i]) = Stated(Sources[i], content[Sources[i]])
        <4>1. i \in 1 .. r.at - 1
          BY <2>2, <2>9, <3>2 DEF PastNoFile
        <4>2. Part(r.current.edges, Sources[i]) = Stated(Sources[i], content[Sources[i]])
          BY <2>5, <3>1, <3>2, <4>1 DEF GraphIsExact
        <4> QED BY <2>9, <3>2, <4>2, AddedParts
      <3>3. content' = content /\ declared' = declared
        BY <3>1 DEF Quiet
      <3>4. s.pc \notin {"log", "append"}
        BY <3>1 DEF Building
      <3>5. undisturbed[p] => Good(s)
        BY <2>7, <2>9, <3>2, <3>3, <3>4 DEF Good
      <3> QED BY <2>3, <3>1, <3>5
    <2>10. CASE Keeps(p)
      <3>1. r.pc \in Building /\ s.pc \in Building /\ Quiet /\ s.current = r.current
        BY <2>10 DEF Keeps
      <3>2. ASSUME NEW i \in 1 .. s.at - 1, Sources[i] \in Files PROVE i \in 1 .. r.at - 1
        BY <2>2, <2>10, <3>2 DEF Keeps, PastNoFile
      <3>3. content' = content /\ declared' = declared
        BY <3>1 DEF Quiet
      <3>4. s.pc \notin {"log", "append"}
        BY <3>1 DEF Building
      <3>5. undisturbed[p] => Good(s)
        BY <2>5, <3>1, <3>2, <3>3, <3>4 DEF Good, GraphIsExact
      <3> QED BY <2>3, <3>1, <3>5
    <2>11. CASE SaveGraph(p) /\ Saves(p)
      <3>1. \A q \in Procs \ {p} : ~undisturbed'[q]
        BY <2>11 DEF SaveGraph
      <3>2. undisturbed'[p] => undisturbed[p]
        BY <2>11 DEF SaveGraph
      <3>3. content' = content /\ declared' = declared /\ rows'.specs = SavedSpecs(rows.specs, r.current.specs)
        BY <2>11 DEF SaveGraph, world
      <3>4. r.at = Len(Sources) + 1 /\ r.pc \in Building /\ s.pc = "log"
        BY <2>2, <2>11 DEF Saves, IsPlace, Building
      <3>5. ASSUME undisturbed[p] PROVE Whole
        <4>1. GraphIsExact(r)
          BY <2>5, <3>4, <3>5
        <4>2. ASSUME NEW f \in Files PROVE {e \in rows'.edges : e.evidence = f} = Stated(f, content'[f])
          <5>1. PICK i \in 1 .. Len(Sources) : f = Sources[i]
            BY <1>1, ProjectIs DEF Files, FilesOf, ToSet, Sources
          <5>2. Part(r.current.edges, f) = Stated(f, content[f])
            BY <2>2, <3>4, <4>1, <5>1 DEF GraphIsExact
          <5> QED BY <2>11, <3>3, <5>2, StoredBySave
        <4>3. ASSUME NEW d \in DOMAIN declared PROVE rows'.specs[d] = declared[d]
          <5>1. declared[d] # Unpartitioned
            BY <1>1, IngestAssumption DEF IngestAssumption, WorldTyped
          <5>2. d \in DOMAIN r.current.specs /\ r.current.specs[d] = declared[d]
            BY <4>1 DEF GraphIsExact
          <5> QED BY <3>3, <5>1, <5>2, SavedSpecsAre
        <4> QED BY <3>3, <4>2, <4>3
      <3>6. undisturbed[p] => Good(s)
        <4>1. s.pc \notin Building
          BY <3>4 DEF Building
        <4> QED BY <3>4, <3>5, <4>1 DEF Good
      <3> QED BY <1>2, <3>1, <3>2, <3>6
    <2>12. CASE LeavesOff(p)
      <3>1. Quiet /\ s.pc \notin Building /\ s.pc # "log" /\ (s.pc = "append" => r.pc = "log")
        BY <2>12 DEF LeavesOff, Holding
      <3>2. undisturbed[p] => Good(r)
        BY <1>3, <3>1 DEF Quiet
      <3>3. undisturbed[p] => Good(s)
        BY <3>1, <3>2 DEF Good
      <3> QED BY <2>3, <3>1, <3>3
    <2>13. \A f \in Files : /\ NothingOf(NativeEdges(Rows(r.since)), f)
                            /\ NothingOf(EventEdges(Queries(r.since), QueryLog), f)
      BY <1>1, AdaptersAddNothing
    <2> QED BY <2>1, <2>4, <2>8, <2>9, <2>10, <2>11, <2>12, <2>13 DEF Kinds
  <1> QED BY <1>4, <1>5 DEF Next

\* An ingest that nothing overlaps leaves the store with exactly what its files and its
\* configuration say, whatever the store held before.  For configurations that declare a
\* dataset.
THEOREM UndisturbedIngestsAreExact == Declaring => (Spec => []UndisturbedIngestIsExact)
  <1> SUFFICES ASSUME Declaring PROVE Spec => []UndisturbedIngestIsExact
    OBVIOUS
  <1>1. Init => Typed /\ VersionsInv /\ ExactInv
    BY TypedInit, VersionsInit, ExactInit
  <1>2. Typed /\ VersionsInv /\ ExactInv /\ [Next]_vars => (Typed /\ VersionsInv /\ ExactInv)'
    BY TypedNext, VersionsNext, ExactNext
  <1>3. Typed /\ VersionsInv /\ ExactInv => UndisturbedIngestIsExact
    BY DEF ExactInv, RunIsExact, StoreIsExact, UndisturbedIngestIsExact
  <1> QED BY <1>1, <1>2, <1>3, PTL DEF Spec

-----------------------------------------------------------------------------
(* Every revision records what its own run changed. *)

LEMMA HeadIs ==
  ASSUME StoreTyped, NEW head, head = Newest(ReadLog)
  PROVE  /\ revisions = << >> => head = None
         /\ revisions # << >> => \E j \in 1 .. Len(revisions) :
              head = revisions[j] /\ (Len(revisions) <= RevisionLimit => j = Len(revisions))
  <1> DEFINE n == Len(revisions)
             X == ToSet(revisions)
             m == Min({RevisionLimit, n})
             l == SubSeq(revisions, 1, m)
  <1>1. n \in Nat /\ revisions \in Seq(X) /\ RevisionLimit \in Nat \ {0}
    BY SeqIsFunction, IngestAssumption DEF StoreTyped, IsSeq, IngestAssumption
  <1>2. revisions = << >> <=> n = 0
    BY <1>1, EmptySeq
  <1> HIDE DEF X
  <1>3. m \in {RevisionLimit, n} /\ m <= n /\ m <= RevisionLimit
    <2> DEFINE S == {RevisionLimit, n}
    <2> HIDE DEF n
    <2>1. PICK k \in S : \A y \in S : k <= y
      <3>1. CASE RevisionLimit <= n
        BY <1>1, <3>1
      <3>2. CASE n <= RevisionLimit
        BY <1>1, <3>2
      <3> QED BY <1>1, <3>1, <3>2
    <2>2. Min(S) \in S /\ \A y \in S : Min(S) <= y
      <3> HIDE DEF S
      <3> QED BY <2>1 DEF Min
    <2> QED BY <2>2
  <1>4. head = IF l = << >> THEN None ELSE l[Len(l)]
    BY DEF Newest, ReadLog, Last
  <1> HIDE DEF n, m
  <1>5. \A i \in 1 .. m : i \in 1 .. n
    BY <1>1, <1>3
  <1>6. l \in Seq(X) /\ Len(l) = (IF 1 <= m THEN m - 1 + 1 ELSE 0) /\ \A i \in 1 .. m - 1 + 1 : l[i] = revisions[1 + i - 1]
    BY <1>1, <1>3, <1>5, SubSeqProperties DEF n
  <1> HIDE DEF l
  <1>7. ASSUME revisions = << >> PROVE head = None
    <2>1. Len(l) = 0
      BY <1>1, <1>2, <1>3, <1>6, <1>7
    <2> QED BY <1>4, <1>6, <2>1, EmptySeq
  <1>8. ASSUME revisions # << >>
        PROVE  \E j \in 1 .. n : head = revisions[j] /\ (n <= RevisionLimit => j = n)
    <2>1. m \in 1 .. n /\ Len(l) = m /\ l[m] = revisions[m] /\ (n <= RevisionLimit => m = n)
      BY <1>1, <1>2, <1>3, <1>6, <1>8
    <2>2. l # << >>
      BY <2>1, <1>6, EmptySeq
    <2> QED BY <1>4, <2>1, <2>2
  <1> QED BY <1>7, <1>8 DEF n

LEMMA DigestsSay ==
  /\ \A g : EdgesOf(Digest(g)) = ToSet(g.edges)
  /\ \A g : EdgesOf(DigestOfRows(g)) = g.edges
  <1>1. \A g : Digest(g).edges = [x \in Range(g.edges) |-> Cardinality({i \in DOMAIN g.edges : g.edges[i] = x})]
    BY DEF Digest, ToBag
  <1>2. \A g : Range(g.edges) = ToSet(g.edges)
    BY DEF Range, ToSet
  <1>3. \A g : DigestOfRows(g).edges = [x \in g.edges |-> 1]
    BY DEF DigestOfRows
  <1> QED BY <1>1, <1>2, <1>3 DEF EdgesOf

\* What a run is about to record is the difference between the graph it loaded, which was
\* the head of the log, and its own.
LEMMA RecordedIsTruthful ==
  ASSUME StoreTyped, \A i \in DOMAIN revisions : revisions[i] # None,
         NEW previous, NEW g, NEW revision, revision # None,
         revision = Recorded(Newest(ReadLog), previous, g)
  PROVE  Truthful(revision) /\ ExtendsTheChain(revision)
  <1> DEFINE head == Newest(ReadLog)
  <1>1. Len(revisions) \in Nat /\ DOMAIN revisions = 1 .. Len(revisions)
        /\ (revisions = << >> <=> Len(revisions) = 0) /\ RevisionLimit \in Nat \ {0}
    BY SeqIsFunction, EmptySeq, IngestAssumption DEF StoreTyped, IsSeq, IngestAssumption
  <1>2. /\ revisions = << >> => head = None
        /\ revisions # << >> => \E j \in 1 .. Len(revisions) :
             head = revisions[j] /\ (Len(revisions) <= RevisionLimit => j = Len(revisions))
    BY HeadIs
  <1> HIDE DEF head
  <1>3. revision = Recorded(head, previous, g)
    BY DEF head
  <1>4. CASE head = None
    <2>1. revision.parent = None
      BY <1>3, <1>4 DEF Recorded
    <2>2. revisions = << >>
      BY <1>1, <1>2, <1>4
    <2> QED BY <2>1, <2>2 DEF Truthful, ExtendsTheChain
  <1>5. CASE head # None
    <2>1. /\ head.digest = DigestOfRows(previous)
          /\ revision = [digest |-> Digest(g), parent |-> head.digest, diff |-> Diff(previous.edges, g.edges)]
      BY <1>3, <1>5 DEF Recorded, StaleHead
    <2>2. PICK j \in 1 .. Len(revisions) : head = revisions[j] /\ (Len(revisions) <= RevisionLimit => j = Len(revisions))
      BY <1>2, <1>5
    <2>3. /\ revision.parent = head.digest /\ revision.digest = Digest(g)
          /\ revision.diff.added = Keys(ToSet(g.edges)) \ Keys(previous.edges)
          /\ revision.diff.removed = Keys(previous.edges) \ Keys(ToSet(g.edges))
      BY <2>1 DEF Diff
    <2>4. EdgesOf(revision.digest) = ToSet(g.edges) /\ EdgesOf(revision.parent) = previous.edges
      BY <2>1, <2>3, DigestsSay
    <2>5. Truthful(revision)
      BY <1>1, <2>2, <2>3, <2>4 DEF Truthful
    <2>6. ExtendsTheChain(revision)
      BY <1>1, <1>2, <1>5, <2>2, <2>3 DEF ExtendsTheChain, Last
    <2> QED BY <2>5, <2>6
  <1> QED BY <1>4, <1>5

LEMMA RevisionsInit == ASSUME Init PROVE RevisionsInv
  <1>1. revisions = << >> /\ \A p \in Procs : run[p].pc = "idle"
    BY DEF Init, Idle
  <1>2. DOMAIN revisions = {}
    BY <1>1
  <1> QED BY <1>1, <1>2 DEF RevisionsInv, TrueAttribution, RevisionsFormAChain

\* A revision that is appended is truthful, and extends the chain.
LEMMA AppendedIsTruthful ==
  ASSUME Typed, NEW r, r # None, Truthful(r), \A i \in DOMAIN revisions : revisions[i] # None,
         TrueAttribution, RevisionsFormAChain, project.overlap = 1 => ExtendsTheChain(r),
         revisions' = Append(revisions, r), project' = project
  PROVE  /\ \A i \in DOMAIN revisions' : revisions'[i] # None
         /\ TrueAttribution' /\ RevisionsFormAChain'
         /\ \A x : Truthful(x) =>
              (x.parent # None => \E j \in DOMAIN revisions' : revisions'[j].digest = x.parent)
  <1> DEFINE n == Len(revisions)
             log == revisions'
  <1>1. IsSeq(revisions) /\ n \in Nat /\ DOMAIN revisions = 1 .. n /\ (revisions = << >> <=> n = 0)
    BY SeqIsFunction, EmptySeq DEF Typed, StoreTyped, IsSeq
  <1>2. /\ DOMAIN log = 1 .. n + 1 /\ \A i \in 1 .. n : log[i] = revisions[i]
        /\ log[n + 1] = r
    BY <1>1, AppendIs
  <1> HIDE DEF n, log
  <1>3. \A i \in 1 .. n + 1 : i \in 1 .. n \/ i = n + 1
    BY <1>1
  <1>4. \A i \in 1 .. n : i \in 1 .. n + 1
    BY <1>1
  <1>5. \A i \in DOMAIN log : log[i] # None
    BY <1>1, <1>2, <1>3
  <1>6. ASSUME NEW i \in DOMAIN log, log[i].parent # None
        PROVE  /\ \E j \in 1 .. i - 1 : log[j].digest = log[i].parent
               /\ log[i].diff.added = Keys(EdgesOf(log[i].digest)) \ Keys(EdgesOf(log[i].parent))
               /\ log[i].diff.removed = Keys(EdgesOf(log[i].parent)) \ Keys(EdgesOf(log[i].digest))
    <2>1. CASE i \in 1 .. n
      <3>1. PICK j \in 1 .. i - 1 : revisions[j].digest = revisions[i].parent
        BY <1>1, <1>2, <1>6, <2>1 DEF TrueAttribution
      <3>2. j \in 1 .. n
        BY <1>1, <2>1
      <3>3. /\ revisions[i].diff.added = Keys(EdgesOf(revisions[i].digest)) \ Keys(EdgesOf(revisions[i].parent))
            /\ revisions[i].diff.removed = Keys(EdgesOf(revisions[i].parent)) \ Keys(EdgesOf(revisions[i].digest))
        BY <1>1, <1>2, <1>6, <2>1 DEF TrueAttribution
      <3> QED BY <1>2, <2>1, <3>1, <3>2, <3>3
    <2>2. CASE i = n + 1
      <3>1. log[i] = r
        BY <1>2, <2>2
      <3>2. PICK j \in 1 .. n : revisions[j].digest = r.parent
        BY <1>1, <1>6, <3>1 DEF Truthful
      <3>3. j \in 1 .. i - 1 /\ log[j] = revisions[j]
        BY <1>1, <1>2, <2>2
      <3> QED BY <1>6, <3>1, <3>2, <3>3 DEF Truthful
    <2> QED BY <1>2, <1>3, <2>1, <2>2
  <1>7. ASSUME project.overlap = 1, NEW i \in DOMAIN log, i <= RevisionLimit + 1
        PROVE  log[i].parent = IF i = 1 THEN None ELSE log[i - 1].digest
    <2>1. CASE i \in 1 .. n
      <3>1. revisions[i].parent = IF i = 1 THEN None ELSE revisions[i - 1].digest
        BY <1>1, <1>7, <2>1 DEF RevisionsFormAChain
      <3>2. CASE i = 1
        BY <1>2, <2>1, <3>1, <3>2
      <3>3. CASE i # 1
        <4>1. i - 1 \in 1 .. n
          BY <1>1, <2>1, <3>3
        <4> QED BY <1>2, <2>1, <3>1, <3>3, <4>1
      <3> QED BY <3>2, <3>3
    <2>2. CASE i = n + 1
      <3>1. n <= RevisionLimit
        BY <1>1, <1>7, <2>2, IngestAssumption DEF IngestAssumption
      <3>2. r.parent = IF revisions = << >> THEN None ELSE revisions[n].digest
        BY <1>7, <3>1 DEF ExtendsTheChain, Last, n
      <3>3. CASE n = 0
        BY <1>1, <1>2, <2>2, <3>2, <3>3
      <3>4. CASE n # 0
        <4>1. n \in 1 .. n /\ i # 1 /\ i - 1 = n
          BY <1>1, <2>2, <3>4
        <4> QED BY <1>1, <1>2, <2>2, <3>2, <3>4, <4>1
      <3> QED BY <3>3, <3>4
    <2> QED BY <1>2, <1>3, <2>1, <2>2
  <1>8. TrueAttribution'
    BY <1>6 DEF TrueAttribution, log
  <1>9. RevisionsFormAChain'
    BY <1>7 DEF RevisionsFormAChain, log
  <1>10. \A x : Truthful(x) => (x.parent # None => \E j \in DOMAIN log : log[j].digest = x.parent)
    BY <1>1, <1>2, <1>4 DEF Truthful
  <1> QED BY <1>5, <1>8, <1>9, <1>10 DEF log

\* A step appends a revision it has read the log for, and starts only when its turn comes.
LEMMA RunsMove ==
  ASSUME Typed, NEW p \in Procs, Step(p) \/ Break(p)
  PROVE  /\ ~ReadRevisions(p) => run'[p].pc # "append"
         /\ ~AppendRevision(p) => revisions' = revisions
         /\ ~Start(p) => run[p].pc # "idle"
         /\ AppendRevision(p) => run[p].pc = "append" /\ run'[p].pc = "idle"
  <1> DEFINE r == run[p]
             s == run'[p]
  <1>1. Kinds(p)
    BY KindsOfSteps
  <1>2. ASSUME Break(p) PROVE s.pc = "idle"
    BY <1>2, IdleIs, RunBecomes, Fields DEF Break, Typed, Becomes, Idle
  <1>3. ASSUME s.pc = "append" PROVE ReadRevisions(p)
    <2>1. LeavesOff(p) /\ r.pc = "log"
      BY <1>1, <1>3 DEF Kinds, Begins, Adds, Keeps, Saves, LeavesOff, Building
    <2>2. ~Break(p)
      BY <1>2, <1>3
    <2> QED BY <2>1, <2>2 DEF Step, Start, ReadFile, GetToken, FetchLineage, FetchQueries, SetToken, LoadDatasets,
                 LoadEdges, LoadFails, SaveGraph, AppendRevision, Exit
  <1>4. ~AppendRevision(p) => revisions' = revisions
    BY DEF Step, Break, Start, ReadFile, GetToken, FetchLineage, FetchQueries, SetToken, LoadDatasets,
           LoadEdges, LoadFails, SaveGraph, ReadRevisions, Exit, store
  <1>5. ~Start(p) => r.pc # "idle"
    BY DEF Step, Break, ReadFile, GetToken, FetchLineage, FetchQueries, SetToken, LoadDatasets,
           LoadEdges, LoadFails, SaveGraph, ReadRevisions, AppendRevision, Exit
  <1>6. AppendRevision(p) => r.pc = "append" /\ s.pc = "idle"
    BY DEF AppendRevision, Typed, Idle
  <1> QED BY <1>3, <1>4, <1>5, <1>6

LEMMA RevisionsNext ==
  ASSUME Typed, RevisionsInv, [Next]_vars
  PROVE  RevisionsInv'
  <1> DEFINE Alone(runs) == \A p, q \in Procs : runs[p].pc # "idle" /\ runs[q].pc # "idle" => p = q
  <1>1. project' = project /\ WorldTyped
    BY WorldStaysTyped DEF Typed
  <1>2. CASE World \/ UNCHANGED vars
    <2>1. revisions' = revisions /\ run' = run
      BY <1>2 DEF World, EditFile, EditConfig, Observe, Land, vars, store
    <2> QED BY <1>1, <2>1 DEF RevisionsInv, TrueAttribution, RevisionsFormAChain, Truthful, ExtendsTheChain
  <1>3. ASSUME NEW p \in Procs, Step(p) \/ Break(p) PROVE RevisionsInv'
    <2> DEFINE r == run[p]
               s == run'[p]
    <2>1. Others(p)
      BY <1>3, KindsOfSteps
    <2>2. /\ ~ReadRevisions(p) => s.pc # "append"
          /\ ~AppendRevision(p) => revisions' = revisions
          /\ ~Start(p) => r.pc # "idle"
          /\ AppendRevision(p) => r.pc = "append" /\ s.pc = "idle"
      BY <1>3, RunsMove
    <2>3. project.overlap = 1 => Alone(run')
      <3>1. CASE ~Start(p)
        BY <2>1, <2>2, <3>1 DEF RevisionsInv, Others
      <3>2. CASE Start(p)
        <4> DEFINE R == {q \in Procs : run[q].pc # "idle"}
        <4>1. ASSUME project.overlap = 1 PROVE R = {}
          <5>1. IsFiniteSet(R) /\ Cardinality(R) < 1
            <6>1. IsFiniteSet(R)
              BY FS_Subset, IngestAssumption DEF IngestAssumption
            <6> QED BY <3>2, <4>1, <6>1 DEF Start
          <5> HIDE DEF R
          <5>2. Cardinality(R) \in Nat
            BY <5>1, FS_CardinalityType
          <5>3. Cardinality(R) = 0
            BY <5>1, <5>2
          <5> QED BY <5>1, <5>3, FS_EmptySet
        <4> QED BY <2>1, <4>1 DEF Others
      <3> QED BY <3>1, <3>2
    <2> HIDE DEF Alone
    <2>4. CASE AppendRevision(p)
      <3> DEFINE new == r.revision
      <3>1. /\ new # None /\ Truthful(new) /\ (project.overlap = 1 => ExtendsTheChain(new))
            /\ \A i \in DOMAIN revisions : revisions[i] # None
            /\ TrueAttribution /\ RevisionsFormAChain
        BY <2>2, <2>4 DEF RevisionsInv
      <3>2. revisions' = revisions \/ revisions' = Append(revisions, new)
        BY <2>4 DEF AppendRevision
      <3>3. /\ \A i \in DOMAIN revisions' : revisions'[i] # None
            /\ TrueAttribution' /\ RevisionsFormAChain'
            /\ \A x : Truthful(x) =>
                 (x.parent # None => \E j \in DOMAIN revisions' : revisions'[j].digest = x.parent)
        <4>1. CASE revisions' = revisions
          BY <1>1, <3>1, <4>1 DEF TrueAttribution, RevisionsFormAChain, Truthful
        <4>2. CASE revisions' = Append(revisions, new)
          <5> HIDE DEF new
          <5> QED BY <1>1, <3>1, <4>2, AppendedIsTruthful
        <4> QED BY <3>2, <4>1, <4>2
      <3>4. ASSUME NEW q \in Procs, run'[q].pc = "append"
            PROVE  run'[q].revision # None /\ Truthful(run[q].revision)'
        <4>1. q # p /\ run'[q] = run[q]
          BY <2>1, <2>2, <2>4, <3>4 DEF Others
        <4>2. run[q].revision # None /\ Truthful(run[q].revision)
          BY <3>4, <4>1 DEF RevisionsInv
        <4> QED BY <3>3, <4>1, <4>2 DEF Truthful
      <3>5. ASSUME project.overlap = 1, NEW q \in Procs PROVE run'[q].pc # "append"
        <4>1. CASE q = p
          BY <2>2, <2>4, <4>1
        <4>2. CASE q # p
          BY <2>1, <2>2, <2>4, <3>5, <4>2 DEF RevisionsInv, Others
        <4> QED BY <4>1, <4>2
      <3> QED BY <1>1, <2>3, <3>3, <3>4, <3>5 DEF RevisionsInv, Alone
    <2>5. CASE ~AppendRevision(p)
      <3>1. revisions' = revisions
        BY <2>2, <2>5
      <3>2. /\ \A i \in DOMAIN revisions' : revisions'[i] # None
            /\ TrueAttribution' /\ RevisionsFormAChain'
        BY <1>1, <3>1 DEF RevisionsInv, TrueAttribution, RevisionsFormAChain
      <3>3. ASSUME NEW q \in Procs, run'[q].pc = "append"
            PROVE  /\ run'[q].revision # None /\ Truthful(run'[q].revision)
                   /\ project.overlap = 1 => ExtendsTheChain(run'[q].revision)
        <4>1. CASE q # p
          BY <2>1, <3>3, <4>1 DEF RevisionsInv, Others
        <4>2. CASE q = p
          <5> DEFINE new == Recorded(Newest(ReadLog), run[p].previous, run[p].current)
          <5>1. ReadRevisions(p)
            BY <2>2, <3>3, <4>2
          <5>2. \/ Becomes(p, Idle)
                \/ new # None /\ Becomes(p, Rec("append", 1, EmptyGraph, 0, {}, None, new))
            BY <5>1, ReadsRevisions
          <5>3. (Truthful(new) /\ ExtendsTheChain(new)) \/ new = None
            BY RecordedIsTruthful DEF Typed, RevisionsInv
          <5> HIDE DEF new
          <5>4. CASE Becomes(p, Idle)
            BY <3>3, <4>2, <5>4 DEF Becomes, Idle
          <5>5. CASE new # None /\ Becomes(p, Rec("append", 1, EmptyGraph, 0, {}, None, new))
            <6>1. run'[q].revision = new
              BY <4>2, <5>5, Fields DEF Becomes
            <6> QED BY <5>3, <5>5, <6>1
          <5> QED BY <5>2, <5>4, <5>5
        <4> QED BY <4>1, <4>2
      <3>4. \A q \in Procs : run'[q].pc = "append" =>
              /\ run'[q].revision # None /\ Truthful(run[q].revision)'
              /\ project.overlap = 1 => ExtendsTheChain(run[q].revision)'
        BY <3>1, <3>3 DEF Truthful, ExtendsTheChain
      <3> QED BY <1>1, <2>3, <3>2, <3>4 DEF RevisionsInv, Alone
    <2> QED BY <2>4, <2>5
  <1> QED BY <1>2, <1>3 DEF Next

\* Whoever interleaves or crashes: what the store holds of a file is of one version of it,
\* every revision records the difference between its parent's graph and its own, and
\* revisions of runs that do not overlap form a chain.
THEOREM RevisionsAreTrue == Spec => []RevisionsTellTheTruth
  <1>1. Init => Typed /\ VersionsInv /\ RevisionsInv
    BY TypedInit, VersionsInit, RevisionsInit
  <1>2. Typed /\ VersionsInv /\ RevisionsInv /\ [Next]_vars => (Typed /\ VersionsInv /\ RevisionsInv)'
    BY TypedNext, VersionsNext, RevisionsNext
  <1>3. VersionsInv /\ RevisionsInv => RevisionsTellTheTruth
    BY DEF VersionsInv, RevisionsInv, RevisionsTellTheTruth
  <1> QED BY <1>1, <1>2, <1>3, PTL DEF Spec

\* The rows have one edge for each key, with both its datasets; the cursor is a time that
\* the platform's log has passed; a run is at a known step.
THEOREM TypeCorrect == Spec => []TypeOK
  <1>1. Init => Typed /\ CursorInv
    BY TypedInit, CursorInit
  <1>2. Typed /\ CursorInv /\ [Next]_vars => (Typed /\ CursorInv)'
    BY TypedNext, CursorNext
  <1>3. Typed /\ CursorInv => TypeOK
    BY DEF Typed, WorldTyped, StoreTyped, RunTyped, IsPlace, CursorInv, Covered, CoveredBy, TypeOK
  <1> QED BY <1>1, <1>2, <1>3, PTL DEF Spec
=============================================================================
