---------------------------- MODULE GraphProofs ----------------------------
(***************************************************************************)
(* Users of the lineage graph, for every graph, findings, bills and reads  *)
(* and any number of them: repeats are counted by the router (Reports),    *)
(* findings are put into groups of one cause and worked on (Observations), *)
(* and savings, charges and proposals to retire are modest (Costs), which  *)
(* rests on what a walk of the graph finds (Lineage).  The order in which  *)
(* a graph is built leaves nobody before what it reads, so that what flows *)
(* down it, purposes and licences, is what everything above agreed to      *)
(* (Restrictions).  Each user has its own inductive invariant; the run's   *)
(* properties combine them.                                                *)
(***************************************************************************)
EXTENDS MCGraph, Rounds, FunctionTheorems, SequenceTheorems, TLAPS

(***************************************************************************)
(* report/notify.py                                                        *)
(***************************************************************************)

Notes == {[finding |-> f.finding, severity |-> n] : f \in Findings, n \in 0 .. CRITICAL}
Outcomes == {"below_threshold", "no_route", "quiet_hours", "duplicate", "sent"}
Firings == [note : Notes, at : Nat, outcome : Outcomes]
Entries == [first : Nat, last : Nat, count : Nat]

KeyOf(i)     == Fingerprint(firings[i].note)
SentAs(i, k) == Sent(i) /\ KeyOf(i) = k

\* Of a finding that was sent the router knows when it was last, and has counted from the first.
CountedFrom(i) ==
  Sent(i) /\ (\A k \in 1 .. i - 1 : ~SentAs(k, KeyOf(i))) =>
    seen[KeyOf(i)].count = Cardinality({j \in i .. Len(firings) : KeyOf(j) = KeyOf(i)})
Spaced(i, j) ==
  i < j /\ Sent(i) /\ Sent(j) /\ KeyOf(i) = KeyOf(j) => firings[j].at - firings[i].at >= Window
Excused(i) ==
  /\ firings[i].outcome = "duplicate" =>
       \E j \in 1 .. i - 1 : SentAs(j, KeyOf(i)) /\ firings[i].at - firings[j].at < Window
  /\ firings[i].note.severity >= CRITICAL /\ (\E r \in Routes : Accepts(r, firings[i].note))
       => firings[i].outcome \in {"sent", "duplicate"}

NotifyTypeOK ==
  /\ hoursGone \in Nat /\ firings \in Seq(Firings)
  /\ seen = [k \in DOMAIN seen |-> seen[k]] /\ \A k \in DOMAIN seen : seen[k] \in Entries
LastIsLatest ==
  /\ \A k \in DOMAIN seen : \E i \in DOMAIN firings : SentAs(i, k) /\ firings[i].at = seen[k].last
  /\ \A i \in DOMAIN firings : Sent(i) => KeyOf(i) \in DOMAIN seen /\ firings[i].at <= seen[KeyOf(i)].last

NotifyInv ==
  /\ NotifyTypeOK /\ LastIsLatest
  /\ \A i, j \in DOMAIN firings : Spaced(i, j)
  /\ \A i \in DOMAIN firings : Excused(i) /\ CountedFrom(i)

LEMMA FiringsAre ==
  ASSUME NotifyTypeOK
  PROVE  /\ Len(firings) \in Nat /\ DOMAIN firings = 1 .. Len(firings)
         /\ \A i \in DOMAIN firings : firings[i] \in Firings /\ firings[i].note \in Notes /\ firings[i].at \in Nat
                                      /\ firings[i].outcome \in Outcomes
  <1>1. firings \in Seq(Firings)
    BY DEF NotifyTypeOK
  <1>2. \A i \in DOMAIN firings : firings[i] \in Firings
    <2> HIDE DEF Firings
    <2> QED BY <1>1, ElementOfSeq
  <1> QED BY <1>1, <1>2, LenProperties DEF Firings

\* A fingerprint tells the finding and its severity, which is all there is to a note.
LEMMA FingerprintTells ==
  ASSUME NEW m \in Notes, NEW n \in Notes
  PROVE  Fingerprint(m) = Fingerprint(n) <=> m = n
  <1>1. PICK f \in Findings, a \in 0 .. CRITICAL : m = [finding |-> f.finding, severity |-> a]
    BY DEF Notes
  <1>2. PICK g \in Findings, b \in 0 .. CRITICAL : n = [finding |-> g.finding, severity |-> b]
    BY DEF Notes
  <1> QED BY <1>1, <1>2 DEF Fingerprint

\* What stopped a note, or did not.
LEMMA OutcomesMean ==
  ASSUME NEW note \in Notes, NEW t \in Nat, NotifyTypeOK
  PROVE  LET o == ShouldNotify(note, t)  k == Fingerprint(note) IN
         /\ o \in Outcomes
         /\ o = "sent" /\ k \in DOMAIN seen => t - seen[k].last >= Window
         /\ o = "duplicate" => k \in DOMAIN seen /\ t - seen[k].last < Window
         /\ note.severity >= CRITICAL /\ (\E r \in Routes : Accepts(r, note)) => o \in {"sent", "duplicate"}
  <1> DEFINE o == ShouldNotify(note, t)
             k == Fingerprint(note)
  <1>1. note.severity \in Int /\ Override \in Nat /\ Window \in Nat /\ Override <= CRITICAL /\ CRITICAL = 3
    BY NotifyAssumption DEF NotifyAssumption, Notes, CRITICAL
  <1>2. k \in DOMAIN seen => seen[k].last \in Nat
    BY DEF NotifyTypeOK, Entries
  <1>3. note.severity >= CRITICAL => ~Suppresses(note, t)
    BY <1>1 DEF Suppresses
  <1>4. o \in Outcomes
    BY DEF ShouldNotify, Outcomes
  <1>5. o = "sent" => ~(k \in DOMAIN seen /\ t - seen[k].last < Window)
    BY DEF ShouldNotify
  <1>6. o = "duplicate" => k \in DOMAIN seen /\ t - seen[k].last < Window
    BY DEF ShouldNotify
  <1>7. ~Suppresses(note, t) /\ (\E r \in Routes : Accepts(r, note)) => o \in {"sent", "duplicate"}
    BY DEF ShouldNotify
  <1> HIDE DEF o, k
  <1>8. o = "sent" /\ k \in DOMAIN seen => t - seen[k].last >= Window
    BY <1>1, <1>2, <1>5
  <1> QED BY <1>3, <1>4, <1>6, <1>7, <1>8 DEF o, k

LEMMA NotifyInvInit == NotifyInit => NotifyInv
  BY DEF NotifyInit, NotifyInv, NotifyTypeOK, LastIsLatest

\* One call of route.
LEMMA RouteKeeps ==
  ASSUME NotifyInv, NEW note \in Notes, NEW t \in Nat, RouteIt(note, t)
  PROVE  NotifyInv'
  <1>0. PICK N : N = Len(firings)
    OBVIOUS
  <1> DEFINE k == Fingerprint(note)
             o == ShouldNotify(note, t)
             e == [note |-> note, at |-> t, outcome |-> o]
  <1>1. /\ NotifyTypeOK /\ N \in Nat /\ DOMAIN firings = 1 .. N
        /\ \A i \in 1 .. N : firings[i] \in Firings /\ firings[i].note \in Notes /\ firings[i].at \in Nat
    BY <1>0, FiringsAre DEF NotifyInv
  <1>2. /\ o \in Outcomes
        /\ o = "sent" /\ k \in DOMAIN seen => t - seen[k].last >= Window
        /\ o = "duplicate" => k \in DOMAIN seen /\ t - seen[k].last < Window
        /\ note.severity >= CRITICAL /\ (\E r \in Routes : Accepts(r, note)) => o \in {"sent", "duplicate"}
    BY <1>1, OutcomesMean
  <1>3. e \in Firings /\ e.note = note /\ e.at = t /\ e.outcome = o
    BY <1>2 DEF Firings
  <1>4. firings' = Append(firings, e) /\ hoursGone' = hoursGone
    BY DEF RouteIt
  <1>5. /\ firings' \in Seq(Firings) /\ Len(firings') = N + 1 /\ DOMAIN firings' = 1 .. N + 1
        /\ firings'[N + 1] = e /\ \A i \in 1 .. N : firings'[i] = firings[i]
    <2>1. firings \in Seq(Firings)
      BY <1>1 DEF NotifyTypeOK
    <2> HIDE DEF e
    <2> QED BY <1>0, <1>1, <1>3, <1>4, <2>1, AppendProperties
  <1>6. /\ \A i \in 1 .. N : Sent(i)' = Sent(i) /\ KeyOf(i)' = KeyOf(i)
        /\ (Sent(N + 1)' <=> o = "sent") /\ KeyOf(N + 1)' = k
    <2> HIDE DEF e, o
    <2> QED BY <1>3, <1>5 DEF Sent, KeyOf
  <1> HIDE DEF o
  <1>7. /\ seen' = [x \in DOMAIN seen' |-> seen'[x]]
        /\ DOMAIN seen' = IF o = "sent" THEN DOMAIN seen \cup {k} ELSE DOMAIN seen
        /\ \A x \in DOMAIN seen : x # k => seen'[x] = seen[x]
        /\ k \in DOMAIN seen => /\ seen'[k] \in Entries /\ seen'[k].count = seen[k].count + 1
                                /\ seen'[k].last = IF o = "sent" THEN t ELSE seen[k].last
        /\ k \notin DOMAIN seen /\ o = "sent" => seen'[k] = [first |-> t, last |-> t, count |-> 1]
    <2> HIDE DEF k
    <2>1. seen' = IF o = "sent"
             THEN [x \in DOMAIN seen \cup {k} |->
                     IF x # k THEN seen[x]
                     ELSE [first |-> IF k \in DOMAIN seen THEN seen[k].first ELSE t, last |-> t,
                           count |-> IF k \in DOMAIN seen THEN seen[k].count + 1 ELSE 1]]
             ELSE [x \in DOMAIN seen |-> IF x = k THEN [seen[x] EXCEPT !.count = @ + 1] ELSE seen[x]]
      BY DEF RouteIt, k, o
    <2>2. k \in DOMAIN seen => seen[k] \in Entries
      BY <1>1 DEF NotifyTypeOK
    <2>3. k \in DOMAIN seen => seen[k].first \in Nat /\ seen[k].count + 1 \in Nat
      BY <2>2 DEF Entries
    <2>4. k \in DOMAIN seen =>
            /\ [seen[k] EXCEPT !.count = @ + 1] \in Entries
            /\ [seen[k] EXCEPT !.count = @ + 1].count = seen[k].count + 1
            /\ [seen[k] EXCEPT !.count = @ + 1].last = seen[k].last
      BY <2>2 DEF Entries
    <2>5. CASE o = "sent"
      BY <2>1, <2>3, <2>5 DEF Entries
    <2>6. CASE o # "sent"
      BY <2>1, <2>4, <2>6
    <2> QED BY <2>5, <2>6
  <1> HIDE DEF k, e
  <1>8. NotifyTypeOK'
    <2>1. \A x \in DOMAIN seen' : seen'[x] \in Entries
      <3>1. [first |-> t, last |-> t, count |-> 1] \in Entries
        BY DEF Entries
      <3> QED BY <1>1, <1>7, <3>1 DEF NotifyTypeOK
    <2> QED BY <1>1, <1>4, <1>5, <1>7, <2>1 DEF NotifyTypeOK
  <1>9. k \in DOMAIN seen => /\ seen[k].last \in Nat /\ seen[k].count \in Nat /\ Window \in Nat
                             /\ o = "sent" => seen[k].last <= t
    <2>1. Window \in Nat /\ (k \in DOMAIN seen => seen[k].last \in Nat /\ seen[k].count \in Nat)
      BY <1>1, NotifyAssumption DEF NotifyTypeOK, Entries, NotifyAssumption
    <2> QED BY <1>2, <2>1
  <1>10. LastIsLatest'
    <2>1. ASSUME NEW x \in DOMAIN seen'
          PROVE  \E i \in DOMAIN firings' : SentAs(i, x)' /\ firings'[i].at = seen'[x].last
      <3>1. CASE x = k /\ o = "sent"
        <4>1. SentAs(N + 1, x)' /\ firings'[N + 1].at = seen'[x].last /\ N + 1 \in DOMAIN firings'
          BY <1>1, <1>3, <1>5, <1>6, <1>7, <3>1 DEF SentAs
        <4> QED BY <4>1
      <3>2. CASE ~(x = k /\ o = "sent")
        <4>1. x \in DOMAIN seen /\ seen'[x].last = seen[x].last
          BY <1>7, <3>2
        <4>2. PICK i \in 1 .. N : SentAs(i, x) /\ firings[i].at = seen[x].last
          BY <1>1, <4>1 DEF NotifyInv, LastIsLatest
        <4>3. SentAs(i, x)' /\ i \in DOMAIN firings' /\ firings'[i].at = seen'[x].last
          BY <1>1, <1>5, <1>6, <4>1, <4>2 DEF SentAs
        <4> QED BY <4>3
      <3> QED BY <3>1, <3>2
    <2>2. ASSUME NEW i \in DOMAIN firings', Sent(i)'
          PROVE  KeyOf(i)' \in DOMAIN seen' /\ firings'[i].at <= seen'[KeyOf(i)'].last
      <3>1. CASE i = N + 1
        BY <1>3, <1>5, <1>6, <1>7, <1>9, <2>2, <3>1
      <3>2. CASE i \in 1 .. N
        <4>1. Sent(i) /\ KeyOf(i)' = KeyOf(i) /\ firings'[i].at = firings[i].at /\ firings[i].at \in Nat
          BY <1>1, <1>5, <1>6, <2>2, <3>2
        <4>2. KeyOf(i) \in DOMAIN seen /\ firings[i].at <= seen[KeyOf(i)].last
          BY <1>1, <3>2, <4>1 DEF NotifyInv, LastIsLatest
        <4> QED BY <1>7, <1>9, <4>1, <4>2
      <3> QED BY <1>1, <1>5, <3>1, <3>2
    <2> QED BY <2>1, <2>2 DEF LastIsLatest
  <1>11. ASSUME NEW i \in DOMAIN firings', NEW j \in DOMAIN firings' PROVE Spaced(i, j)'
    <2>1. SUFFICES ASSUME i < j, Sent(i)', Sent(j)', KeyOf(i)' = KeyOf(j)'
                   PROVE  firings'[j].at - firings'[i].at >= Window
      BY DEF Spaced
    <2>2. i \in 1 .. N /\ j \in 1 .. N + 1
      BY <1>1, <1>5, <2>1
    <2>3. CASE j \in 1 .. N
      BY <1>1, <1>5, <1>6, <2>1, <2>2, <2>3 DEF NotifyInv, Spaced
    <2>4. CASE j = N + 1
      <3>1. Sent(i) /\ KeyOf(i) = k /\ o = "sent" /\ firings'[i].at = firings[i].at /\ firings[i].at \in Nat
        BY <1>1, <1>5, <1>6, <2>1, <2>2, <2>4
      <3>2. k \in DOMAIN seen /\ firings[i].at <= seen[k].last
        BY <1>1, <2>2, <3>1 DEF NotifyInv, LastIsLatest
      <3>3. t - seen[k].last >= Window /\ firings'[j].at = t
        BY <1>2, <1>3, <1>5, <2>4, <3>1, <3>2
      <3> QED BY <1>9, <3>1, <3>2, <3>3
    <2> QED BY <1>1, <2>2, <2>3, <2>4
  <1>12. ASSUME NEW i \in DOMAIN firings' PROVE Excused(i)'
    <2>1. CASE i \in 1 .. N
      <3>1. firings'[i] = firings[i] /\ KeyOf(i)' = KeyOf(i) /\ Excused(i)
        BY <1>1, <1>5, <1>6, <2>1 DEF NotifyInv
      <3>2. \A j \in 1 .. i - 1 : j \in 1 .. N
        BY <1>1, <2>1
      <3>3. \A j \in 1 .. i - 1 : firings'[j] = firings[j] /\ \A x : SentAs(j, x)' <=> SentAs(j, x)
        BY <1>5, <1>6, <3>2 DEF SentAs
      <3> QED BY <3>1, <3>3 DEF Excused, Accepts
    <2>2. CASE i = N + 1
      <3>1. ASSUME o = "duplicate" PROVE \E j \in 1 .. i - 1 : SentAs(j, k)' /\ t - firings'[j].at < Window
        <4>1. PICK j \in 1 .. N : SentAs(j, k) /\ firings[j].at = seen[k].last
          BY <1>1, <1>2, <3>1 DEF NotifyInv, LastIsLatest
        <4>2. SentAs(j, k)' /\ t - firings'[j].at < Window /\ j \in 1 .. i - 1
          BY <1>1, <1>2, <1>5, <1>6, <2>2, <3>1, <4>1 DEF SentAs
        <4> QED BY <4>2
      <3>2. firings'[i].note = note /\ firings'[i].at = t /\ firings'[i].outcome = o /\ KeyOf(i)' = k
        BY <1>3, <1>5, <1>6, <2>2
      <3> QED BY <1>2, <3>1, <3>2 DEF Excused, Accepts
    <2> QED BY <1>1, <1>5, <2>1, <2>2
  <1>13. ASSUME NEW i \in DOMAIN firings' PROVE CountedFrom(i)'
    <2>0. PICK x : x = KeyOf(i)'
      OBVIOUS
    <2> DEFINE T == {j \in i .. N : KeyOf(j) = x}
    <2>1. SUFFICES ASSUME Sent(i)', \A j \in 1 .. i - 1 : ~SentAs(j, x)'
                   PROVE  seen'[x].count = Cardinality({j \in i .. N + 1 : KeyOf(j)' = x})
      BY <1>5, <2>0 DEF CountedFrom
    <2>2. {j \in i .. N + 1 : KeyOf(j)' = x} = IF k = x THEN T \cup {N + 1} ELSE T
      <3>1. i \in 1 .. N + 1
        BY <1>5
      <3>2. \A j \in i .. N : j \in 1 .. N /\ KeyOf(j)' = KeyOf(j)
        BY <1>1, <1>6, <3>1
      <3>3. KeyOf(N + 1)' = k
        BY <1>6
      <3>4. i .. N + 1 = (i .. N) \cup {N + 1} /\ N + 1 \notin i .. N
        BY <1>1, <3>1
      <3> QED BY <3>2, <3>3, <3>4
    <2>3. IsFiniteSet(T) /\ Cardinality(T) \in Nat /\ N + 1 \notin T
      <3>1. IsFiniteSet(i .. N) /\ T \subseteq i .. N /\ N + 1 \notin i .. N
        BY <1>1, <1>5, FS_Interval
      <3> HIDE DEF T
      <3> QED BY <3>1, FS_Subset, FS_CardinalityType
    <2>4. Cardinality(T \cup {N + 1}) = Cardinality(T) + 1
      <3> HIDE DEF T
      <3> QED BY <2>3, FS_AddElement
    <2>5. CASE i \in 1 .. N
      <3>1. Sent(i) /\ x = KeyOf(i) /\ \A j \in 1 .. i - 1 : ~SentAs(j, x)
        <4>1. \A j \in 1 .. i - 1 : j \in 1 .. N
          BY <1>1, <2>5
        <4> QED BY <1>6, <2>0, <2>1, <2>5, <4>1 DEF SentAs
      <3>2. seen[x].count = Cardinality(T) /\ x \in DOMAIN seen
        BY <1>1, <2>5, <3>1 DEF NotifyInv, CountedFrom, LastIsLatest
      <3>3. seen'[x].count = IF k = x THEN seen[x].count + 1 ELSE seen[x].count
        BY <1>7, <3>2
      <3> HIDE DEF T
      <3> QED BY <2>2, <2>4, <3>2, <3>3
    <2>6. CASE i = N + 1
      <3>1. x = k /\ o = "sent" /\ T = {}
        BY <1>1, <1>6, <2>0, <2>1, <2>6
      <3>2. k \notin DOMAIN seen
        <4>1. SUFFICES ASSUME k \in DOMAIN seen PROVE FALSE
          OBVIOUS
        <4>2. PICK j \in 1 .. N : SentAs(j, k)
          BY <1>1, <4>1 DEF NotifyInv, LastIsLatest
        <4>3. SentAs(j, k)' /\ j \in 1 .. i - 1
          BY <1>1, <1>6, <2>6, <4>2 DEF SentAs
        <4> QED BY <2>1, <3>1, <4>3
      <3>3. seen'[k].count = 1 /\ Cardinality(T) = 0
        BY <1>7, <3>1, <3>2, FS_EmptySet
      <3> HIDE DEF T
      <3> QED BY <2>2, <2>4, <3>1, <3>3
    <2> QED BY <1>1, <1>5, <2>5, <2>6
  <1> QED BY <1>8, <1>10, <1>11, <1>12, <1>13 DEF NotifyInv

LEMMA StillNotifyInv ==
  ASSUME NotifyInv, hoursGone' \in Nat, UNCHANGED <<firings, seen>>
  PROVE  NotifyInv'
  <1>1. \A i : (Sent(i)' <=> Sent(i)) /\ KeyOf(i)' = KeyOf(i)
    BY DEF Sent, KeyOf
  <1>2. \A i, k : SentAs(i, k)' <=> SentAs(i, k)
    BY <1>1 DEF SentAs
  <1>3. NotifyTypeOK' /\ LastIsLatest'
    BY <1>1, <1>2 DEF NotifyInv, NotifyTypeOK, LastIsLatest
  <1>4. \A i, j \in DOMAIN firings' : Spaced(i, j)'
    BY <1>1 DEF NotifyInv, Spaced
  <1>5. \A i \in DOMAIN firings' : Excused(i)'
    BY <1>1, <1>2 DEF NotifyInv, Excused, Accepts
  <1>6. \A i \in DOMAIN firings' : CountedFrom(i)'
    BY <1>1, <1>2 DEF NotifyInv, CountedFrom
  <1> QED BY <1>3, <1>4, <1>5, <1>6 DEF NotifyInv

LEMMA NotifyInvStep == ASSUME NotifyInv, NotifyNext \/ UNCHANGED notifyVars PROVE NotifyInv'
  <1>1. NotifyTypeOK
    BY DEF NotifyInv
  <1>2. ASSUME NEW note \in Findings, NEW delay \in 0 .. 1, Fire(note, delay) PROVE NotifyInv'
    <2>1. note \in Notes
      BY NotifyAssumption DEF NotifyAssumption, Notes
    <2>2. hoursGone - delay \in Nat
      BY <1>1, <1>2 DEF Fire, NotifyTypeOK
    <2> QED BY <1>2, <2>1, <2>2, RouteKeeps DEF Fire
  <1>3. ASSUME NEW i \in DOMAIN firings, FireEscalated(i) PROVE NotifyInv'
    <2> DEFINE age == hoursGone - firings[i].at
               n == firings[i].note
    <2>1. firings[i].note \in Notes /\ firings[i].at \in Nat /\ hoursGone \in Nat
      BY <1>1, FiringsAre DEF NotifyTypeOK
    <2>2. age \in Int /\ age >= EscalateAfter /\ RouteIt(Escalate(n, age), hoursGone)
      BY <1>3, <2>1 DEF FireEscalated
    <2>3. EscalateAfter \in Nat \ {0} /\ age \in Nat /\ age \div EscalateAfter \in Nat
      BY <2>2, NotifyAssumption DEF NotifyAssumption
    <2>4. PICK f \in Findings, a \in 0 .. CRITICAL : n = [finding |-> f.finding, severity |-> a]
      BY <2>1 DEF Notes
    <2> HIDE DEF age, n
    <2>5. Escalate(n, age) \in Notes
      <3> DEFINE raised == a + age \div EscalateAfter
                 b == IF raised > CRITICAL THEN CRITICAL ELSE raised
      <3>1. b \in 0 .. CRITICAL
        BY <2>3 DEF CRITICAL
      <3>2. ~(age < EscalateAfter)
        BY <2>2, <2>3
      <3>3. Escalate(n, age) = [n EXCEPT !.severity = b]
        BY <2>4, <3>2 DEF Escalate
      <3>4. [n EXCEPT !.severity = b] = [finding |-> f.finding, severity |-> b]
        BY <2>4
      <3> HIDE DEF b
      <3> QED BY <3>1, <3>3, <3>4 DEF Notes
    <2> QED BY <2>1, <2>2, <2>5, RouteKeeps
  <1>4. ASSUME NEW n \in 1 .. 2, Hours(n) PROVE NotifyInv'
    <2>1. hoursGone' \in Nat /\ firings' = firings /\ seen' = seen
      BY <1>1, <1>4 DEF Hours, NotifyTypeOK
    <2> QED BY <2>1, StillNotifyInv
  <1>5. CASE UNCHANGED notifyVars
    BY <1>1, <1>5, StillNotifyInv DEF notifyVars, NotifyTypeOK
  <1> QED BY <1>2, <1>3, <1>4, <1>5 DEF NotifyNext

LEMMA RepeatsFromInv == ASSUME NotifyInv PROVE RepeatsAreCountedNotLost
  <1>1. /\ NotifyTypeOK /\ Len(firings) \in Nat /\ DOMAIN firings = 1 .. Len(firings)
        /\ \A i \in DOMAIN firings : firings[i].note \in Notes
    BY FiringsAre DEF NotifyInv
  <1>2. \A i, j \in DOMAIN firings : Same(i, j) <=> KeyOf(i) = KeyOf(j)
    BY <1>1, FingerprintTells DEF Same, KeyOf
  <1>3. \A i, j \in DOMAIN firings : i < j /\ Sent(i) /\ Sent(j) /\ Same(i, j) => firings[j].at - firings[i].at >= Window
    BY <1>2 DEF NotifyInv, Spaced
  <1>4. ASSUME NEW i \in DOMAIN firings
        PROVE  firings[i].outcome = "duplicate" =>
                 \E j \in 1 .. i - 1 : Sent(j) /\ Same(i, j) /\ firings[i].at - firings[j].at < Window
    <2>1. \A j \in 1 .. i - 1 : j \in DOMAIN firings
      BY <1>1
    <2> QED BY <1>2, <2>1 DEF NotifyInv, Excused, SentAs
  <1>5. \A i \in DOMAIN firings :
          firings[i].note.severity >= CRITICAL /\ (\E r \in Routes : Accepts(r, firings[i].note))
            => firings[i].outcome \in {"sent", "duplicate"}
    BY DEF NotifyInv, Excused
  <1>6. ASSUME NEW i \in DOMAIN firings, Sent(i)
        PROVE  LET key == Fingerprint(firings[i].note)
                   first == CHOOSE j \in DOMAIN firings :
                              Sent(j) /\ Same(i, j) /\ \A k \in 1 .. j - 1 : ~(Sent(k) /\ Same(i, k))
               IN  seen[key].count = Cardinality({j \in first .. Len(firings) : Same(i, j)})
    <2> DEFINE First(j) == Sent(j) /\ Same(i, j) /\ \A k \in 1 .. j - 1 : ~(Sent(k) /\ Same(i, k))
               first == CHOOSE j \in DOMAIN firings : First(j)
               T == {j \in DOMAIN firings : Sent(j) /\ Same(i, j)}
    <2>1. PICK j \in T : \A m \in T : j <= m
      <3>1. T \in SUBSET Nat /\ i \in T
        BY <1>1, <1>6 DEF Same
      <3> HIDE DEF T
      <3> QED BY <3>1, LeastNumber
    <2>2. j \in DOMAIN firings /\ First(j)
      <3>1. \A k \in 1 .. j - 1 : k \in DOMAIN firings /\ ~(j <= k)
        BY <1>1
      <3> QED BY <2>1, <3>1
    <2>3. first \in DOMAIN firings /\ First(first)
      <3> HIDE DEF First
      <3> QED BY <2>2
    <2> HIDE DEF first
    <2>4. KeyOf(first) = KeyOf(i)
      BY <1>2, <2>3
    <2>5. \A k \in 1 .. first - 1 : ~SentAs(k, KeyOf(first))
      <3>1. \A k \in 1 .. first - 1 : k \in DOMAIN firings
        BY <1>1, <2>3
      <3> QED BY <1>2, <2>3, <2>4, <3>1 DEF SentAs
    <2>6. seen[KeyOf(first)].count = Cardinality({x \in first .. Len(firings) : KeyOf(x) = KeyOf(first)})
      BY <2>3, <2>5 DEF NotifyInv, CountedFrom
    <2>7. {x \in first .. Len(firings) : KeyOf(x) = KeyOf(first)} = {x \in first .. Len(firings) : Same(i, x)}
      <3>1. \A x \in first .. Len(firings) : x \in DOMAIN firings
        BY <1>1, <2>3
      <3> QED BY <1>2, <2>4, <3>1
    <2> QED BY <2>4, <2>6, <2>7 DEF first, KeyOf
  <1> QED BY <1>3, <1>4, <1>5, <1>6 DEF RepeatsAreCountedNotLost

(***************************************************************************)
(* observe/incidents.py                                                    *)
(***************************************************************************)
Groupings == Seq(Seq(Symptoms))

Earlier(fs, i, j) == \/ Moment(fs[i].detected) < Moment(fs[j].detected)
                     \/ fs[i].detected = fs[j].detected /\ i < j

LEMMA SymptomsAre ==
  ASSUME NEW f \in Symptoms
  PROVE  /\ f.dataset \in DOMAIN Above /\ f.detected \in Nat \cup {NoInstant}
         /\ Moment(f.detected) \in Int /\ (f.detected # NoInstant => Moment(f.detected) = f.detected /\ f.detected \in Nat)
         /\ f.detected = NoInstant => Moment(f.detected) = -1
  BY IncidentsAssumption DEF IncidentsAssumption, Moment

\* Sorting moves the findings, none to the place of another, and an earliest comes first.
LEMMA OrderedMoves ==
  ASSUME NEW fs \in Seq(Symptoms)
  PROVE  /\ Len(fs) \in Nat /\ Len(Ordered(fs)) = Len(fs) /\ Ordered(fs) \in Seq(Symptoms)
         /\ \E at \in [1 .. Len(fs) -> 1 .. Len(fs)] :
              /\ \A k \in 1 .. Len(fs) : Ordered(fs)[k] = fs[at[k]]
              /\ \A j, k \in 1 .. Len(fs) : at[j] = at[k] => j = k
              /\ \A i \in 1 .. Len(fs) : \E k \in 1 .. Len(fs) : at[k] = i
         /\ \A k \in 1 .. Len(fs) : Moment(Ordered(fs)[1].detected) <= Moment(Ordered(fs)[k].detected)
  <1> DEFINE n == Len(fs)
             D == 1 .. n
             B == {p \in D \X D : Earlier(fs, p[1], p[2])}
             place(i) == Cardinality({j \in D : Earlier(fs, j, i)}) + 1
             at == [k \in D |-> CHOOSE i \in D : place(i) = k]
             o == Ordered(fs)
  <1>1. n \in Nat /\ DOMAIN fs = D /\ \A i \in D : fs[i] \in Symptoms
    BY ElementOfSeq, LenProperties
  <1> HIDE DEF n
  <1>2. \A i \in D : /\ Moment(fs[i].detected) \in Int
                     /\ fs[i].detected = NoInstant <=> Moment(fs[i].detected) = -1
                     /\ fs[i].detected # NoInstant => Moment(fs[i].detected) = fs[i].detected
    BY <1>1, SymptomsAre
  <1>3. \A i, j \in D : Moment(fs[i].detected) = Moment(fs[j].detected) <=> fs[i].detected = fs[j].detected
    BY <1>2
  <1>4. \A i, j \in D : <<i, j>> \in B <=> Earlier(fs, i, j)
    OBVIOUS
  <1>5. /\ \A s \in D : ~Earlier(fs, s, s)
        /\ \A s, t, u \in D : Earlier(fs, s, t) /\ Earlier(fs, t, u) => Earlier(fs, s, u)
        /\ \A s, t \in D : s # t => Earlier(fs, s, t) \/ Earlier(fs, t, s)
    <2>1. \A s, t, u \in D : Earlier(fs, s, t) /\ Earlier(fs, t, u) => Earlier(fs, s, u)
      BY <1>1, <1>2, <1>3 DEF Earlier
    <2>2. \A s, t \in D : s # t => Earlier(fs, s, t) \/ Earlier(fs, t, s)
      BY <1>1, <1>2, <1>3 DEF Earlier
    <2>3. \A s \in D : ~Earlier(fs, s, s)
      BY <1>1, <1>2 DEF Earlier
    <2> QED BY <2>1, <2>2, <2>3
  <1>6. IsFiniteSet(D) /\ Cardinality(D) = n
    BY <1>1, FS_Interval
  <1>7. \A i \in D : RankBy(D, B, i) = place(i)
    <2>1. \A i \in D : {j \in D : <<j, i>> \in B} = {j \in D : Earlier(fs, j, i)}
      BY <1>4
    <2> HIDE DEF B, D
    <2> QED BY <2>1 DEF RankBy
  <1>8. /\ \A t \in D : place(t) \in 1 .. n
        /\ \A s, t \in D : place(s) = place(t) => s = t
        /\ \A k \in 1 .. n : \E t \in D : place(t) = k
        /\ \A s, t \in D : place(s) = 1 => s = t \/ Earlier(fs, s, t)
    <2> HIDE DEF B, D, place
    <2>1. /\ \A s \in D : <<s, s>> \notin B
          /\ \A s, t, u \in D : <<s, t>> \in B /\ <<t, u>> \in B => <<s, u>> \in B
          /\ \A s, t \in D : s # t => <<s, t>> \in B \/ <<t, s>> \in B
      BY <1>4, <1>5
    <2>2. /\ \A t \in D : RankBy(D, B, t) \in 1 .. n
          /\ \A s, t \in D : RankBy(D, B, s) = RankBy(D, B, t) => s = t
          /\ \A k \in 1 .. n : \E t \in D : RankBy(D, B, t) = k
          /\ \A s, t \in D : RankBy(D, B, s) = 1 => s = t \/ <<s, t>> \in B
      <3>1. /\ \A t \in D : RankBy(D, B, t) \in 1 .. Cardinality(D)
            /\ \A s, t \in D : RankBy(D, B, s) = RankBy(D, B, t) => s = t
            /\ \A k \in 1 .. Cardinality(D) : \E t \in D : RankBy(D, B, t) = k
            /\ \A s, t \in D : RankBy(D, B, s) = 1 => s = t \/ <<s, t>> \in B
        <4>1. PICK S : S = D
          OBVIOUS
        <4>2. PICK E : E = B
          OBVIOUS
        <4>3. /\ IsFiniteSet(S)
              /\ \A s \in S : <<s, s>> \notin E
              /\ \A s, t, u \in S : <<s, t>> \in E /\ <<t, u>> \in E => <<s, u>> \in E
              /\ \A s, t \in S : s # t => <<s, t>> \in E \/ <<t, s>> \in E
          BY <1>6, <2>1, <4>1, <4>2
        <4>4. /\ \A t \in S : RankBy(S, E, t) \in 1 .. Cardinality(S)
              /\ \A s, t \in S : RankBy(S, E, s) = RankBy(S, E, t) => s = t
              /\ \A k \in 1 .. Cardinality(S) : \E t \in S : RankBy(S, E, t) = k
              /\ \A s, t \in S : RankBy(S, E, s) = 1 => s = t \/ <<s, t>> \in E
          BY ONLY <4>3, RanksTaken
        <4> QED BY ONLY <4>1, <4>2, <4>4
      <3> QED BY ONLY <1>6, <3>1
    <2> QED BY <1>4, <1>7, <2>2
  <1>9. o = [k \in D |-> fs[at[k]]]
    <2>1. o = [k \in DOMAIN fs |-> fs[CHOOSE i \in DOMAIN fs : Cardinality({j \in DOMAIN fs : Earlier(fs, j, i)}) + 1 = k]]
      BY DEF Ordered, Earlier
    <2> QED BY <1>1, <2>1
  <1> HIDE DEF place, B
  <1>10. \A k \in D : at[k] \in D /\ place(at[k]) = k
    BY <1>8
  <1>11. \A i \in D : at[place(i)] = i
    BY <1>8, <1>10
  <1> HIDE DEF at, o
  <1>12. o \in Seq(Symptoms) /\ Len(o) = n
    BY <1>1, <1>9, <1>10
  <1>13. \A k \in D : o[k] = fs[at[k]]
    BY <1>9
  <1>14. \A k \in D : Moment(o[1].detected) <= Moment(o[k].detected)
    <2>1. SUFFICES ASSUME NEW k \in D PROVE Moment(o[1].detected) <= Moment(o[k].detected)
      OBVIOUS
    <2>2. 1 \in D
      BY <1>1
    <2>3. at[1] = at[k] \/ Earlier(fs, at[1], at[k])
      BY <1>8, <1>10, <2>2
    <2>4. Moment(fs[at[1]].detected) <= Moment(fs[at[k]].detected)
      <3>1. at[1] \in D /\ at[k] \in D
        BY <1>10, <2>2
      <3>2. Moment(fs[at[1]].detected) \in Int /\ Moment(fs[at[k]].detected) \in Int
        BY <1>2, <3>1
      <3>3. Moment(fs[at[1]].detected) = Moment(fs[at[k]].detected)
              \/ Moment(fs[at[1]].detected) < Moment(fs[at[k]].detected)
        BY <2>3 DEF Earlier
      <3> QED BY <3>2, <3>3
    <2> QED BY <1>13, <2>2, <2>4
  <1>15. at \in [D -> D]
    BY <1>10 DEF at
  <1>16. /\ \A j, k \in D : at[j] = at[k] => j = k
         /\ \A i \in D : \E k \in D : at[k] = i
    BY <1>8, <1>10, <1>11
  <1>17. \E a \in [D -> D] : /\ \A k \in D : o[k] = fs[a[k]]
                             /\ \A j, k \in D : a[j] = a[k] => j = k
                             /\ \A i \in D : \E k \in D : a[k] = i
    BY <1>13, <1>15, <1>16
  <1> QED BY <1>1, <1>12, <1>14, <1>17 DEF o, n

\* So no finding is lost or doubled.
LEMMA OrderedKeeps ==
  ASSUME NEW fs \in Seq(Symptoms), NEW x
  PROVE  /\ IsFiniteSet({i \in DOMAIN fs : fs[i] = x})
         /\ Cardinality({k \in 1 .. Len(fs) : Ordered(fs)[k] = x}) = Cardinality({i \in DOMAIN fs : fs[i] = x})
  <1> DEFINE D == 1 .. Len(fs)
             K == {k \in D : Ordered(fs)[k] = x}
             I == {i \in D : fs[i] = x}
  <1>1. PICK at \in [D -> D] : /\ \A k \in D : Ordered(fs)[k] = fs[at[k]]
                               /\ \A j, k \in D : at[j] = at[k] => j = k
                               /\ \A i \in D : \E k \in D : at[k] = i
    BY OrderedMoves
  <1>2. DOMAIN fs = D /\ IsFiniteSet(D)
    BY LenProperties, FS_Interval
  <1>3. IsFiniteSet(K) /\ IsFiniteSet(I)
    <2>1. K \in SUBSET D /\ I \in SUBSET D
      OBVIOUS
    <2> HIDE DEF K, I, D
    <2> QED BY <1>2, <2>1, FS_Subset
  <1> DEFINE b == [k \in K |-> at[k]]
  <1>4. b \in Bijection(K, I)
    <2>1. b \in [K -> I]
      BY <1>1
    <2>2. \A j, k \in K : b[j] = b[k] => j = k
      BY <1>1
    <2>3. ASSUME NEW i \in I PROVE \E k \in K : b[k] = i
      <3>1. PICK k \in D : at[k] = i
        BY <1>1
      <3>2. k \in K /\ b[k] = i
        BY <1>1, <3>1
      <3> QED BY <3>2
    <2> HIDE DEF b, K, I
    <2> QED BY <2>1, <2>2, <2>3 DEF Bijection, Injection, Surjection, IsInjective
  <1>5. Cardinality(K) = Cardinality(I)
    <2> HIDE DEF K, I, b
    <2> QED BY <1>3, <1>4, FS_Bijection DEF ExistsBijection
  <1> QED BY <1>2, <1>3, <1>5

\* Where a finding goes: after the last of a group it shares a cause with, or alone.
Goes(gs, f, new, h) ==
  \/ /\ \A g \in 1 .. Len(gs) : ~SharesCause(f, gs[g])
     /\ Len(new) = Len(gs) + 1 /\ \A g \in 1 .. Len(gs) : new[g] = gs[g]
     /\ h = <<Len(gs) + 1, 1>> /\ new[Len(gs) + 1] = <<f>>
  \/ /\ h[1] \in 1 .. Len(gs) /\ SharesCause(f, gs[h[1]])
     /\ Len(new) = Len(gs) /\ \A g \in 1 .. Len(gs) : g # h[1] => new[g] = gs[g]
     /\ h[2] = Len(gs[h[1]]) + 1 /\ new[h[1]] = Append(gs[h[1]], f)

LEMMA JoinGroupIs ==
  ASSUME NEW gs \in Groupings, NEW f \in Symptoms
  PROVE  JoinGroup(gs, f) \in Groupings /\ \E h \in Nat \X Nat : Goes(gs, f, JoinGroup(gs, f), h)
  <1> DEFINE fits == {g \in DOMAIN gs : SharesCause(f, gs[g])}
             new == JoinGroup(gs, f)
             N == Len(gs)
  <1>1. N \in Nat /\ DOMAIN gs = 1 .. N /\ \A g \in 1 .. N : gs[g] \in Seq(Symptoms) /\ Len(gs[g]) \in Nat
    BY ElementOfSeq, LenProperties DEF Groupings
  <1>2. CASE fits = {}
    <2>1. new = Append(gs, <<f>>)
      BY <1>2 DEF JoinGroup
    <2>2. <<f>> \in Seq(Symptoms)
      OBVIOUS
    <2>3. new \in Groupings /\ Len(new) = N + 1 /\ (\A g \in 1 .. N : new[g] = gs[g]) /\ new[N + 1] = <<f>>
      <3> DEFINE S == Seq(Symptoms)
      <3>1. gs \in Seq(S) /\ <<f>> \in S
        BY <2>2 DEF Groupings
      <3> HIDE DEF S, new
      <3>2. Append(gs, <<f>>) \in Seq(S)
        BY <3>1, AppendProperties
      <3> QED BY <1>1, <2>1, <3>1, <3>2, AppendProperties DEF Groupings, S
    <2>4. \A g \in 1 .. N : ~SharesCause(f, gs[g])
      BY <1>1, <1>2
    <2> DEFINE h == <<N + 1, 1>>
    <2>5. h \in Nat \X Nat
      BY <1>1
    <2>6. Goes(gs, f, new, h)
      <3> HIDE DEF new
      <3> QED BY <1>1, <2>3, <2>4 DEF Goes
    <2> HIDE DEF h, new
    <2> QED BY <2>3, <2>5, <2>6 DEF new
  <1>3. CASE fits # {}
    <2> DEFINE m == Min(fits)
    <2>1. m \in fits
      <3>1. fits \in SUBSET Nat
        BY <1>1
      <3>2. \E k \in fits : \A j \in fits : k <= j
        <4> HIDE DEF fits
        <4> QED BY <1>3, <3>1, LeastNumber
      <3> HIDE DEF fits
      <3> QED BY <3>2 DEF Min
    <2>2. m \in 1 .. N /\ SharesCause(f, gs[m])
      BY <1>1, <2>1
    <2>3. new = [gs EXCEPT ![m] = Append(gs[m], f)]
      BY <1>3 DEF JoinGroup
    <2> HIDE DEF m, fits, new
    <2>4. Append(gs[m], f) \in Seq(Symptoms)
      BY <1>1, <2>2
    <2>5. new \in Groupings /\ Len(new) = N /\ (\A g \in 1 .. N : g # m => new[g] = gs[g]) /\ new[m] = Append(gs[m], f)
      <3> DEFINE S == Seq(Symptoms)
      <3>1. gs \in Seq(S) /\ Append(gs[m], f) \in S
        BY <2>4 DEF Groupings
      <3> HIDE DEF S
      <3>2. new \in Seq(S)
        BY <1>1, <2>2, <2>3, <3>1, ExceptSeq
      <3>3. Len(new) = N
        BY <1>1, <2>2, <2>3, <3>1, ExceptSeq
      <3> QED BY <1>1, <2>2, <2>3, <3>1, <3>2, <3>3 DEF Groupings, S
    <2> DEFINE h == <<m, Len(gs[m]) + 1>>
    <2>6. h \in Nat \X Nat /\ h[1] = m /\ h[2] = Len(gs[m]) + 1
      BY <1>1, <2>2
    <2> HIDE DEF h
    <2>7. Goes(gs, f, new, h)
      BY <1>1, <2>2, <2>5, <2>6 DEF Goes
    <2> QED BY <2>5, <2>6, <2>7 DEF new
  <1> QED BY <1>2, <1>3


\* correlate, finding by finding: what the groups are after the first k of them.
ByRounds(h, os, n) ==
  /\ h \in [0 .. n -> Groupings] /\ h[0] = << >>
  /\ \A k \in 1 .. n : h[k] = JoinGroup(h[k - 1], os[k])

LEMMA CorrelateByRounds ==
  ASSUME NEW fs \in Seq(Symptoms)
  PROVE  \E h : ByRounds(h, Ordered(fs), Len(fs)) /\ h[Len(fs)] = Correlate(fs)
  <1> DEFINE n == Len(fs)
             S == 1 .. n
             os == Ordered(fs)
             e == [s \in SUBSET S |-> Max(s)]
             F == [p \in S \X Groupings |-> JoinGroup(p[2], os[p[1]])]
             Iter(g) == g = [s \in SUBSET S |-> IF s = {} THEN << >> ELSE JoinGroup(g[s \ {Max(s)}], os[Max(s)])]
             got == CHOOSE g : Iter(g)
  <1>1. n \in Nat /\ os \in Seq(Symptoms) /\ Len(os) = n /\ DOMAIN os = S /\ IsFiniteSet(S) /\ S \subseteq Int
        /\ \A k \in S : os[k] \in Symptoms
    <2>1. n \in Nat /\ os \in Seq(Symptoms) /\ Len(os) = n
      BY OrderedMoves
    <2> HIDE DEF n, os
    <2> QED BY <2>1, ElementOfSeq, LenProperties, FS_Interval
  <1>2. \A s \in SUBSET S : s # {} => e[s] \in s /\ \A i \in s : i <= e[s]
    <2>1. ASSUME NEW s \in SUBSET S, s # {} PROVE Max(s) \in s /\ \A i \in s : i <= Max(s)
      <3>1. s \in SUBSET Int /\ IsFiniteSet(s)
        BY <1>1, FS_Subset
      <3>2. \E m \in s : \A i \in s : i <= m
        BY <2>1, <3>1, FiniteHasGreatest
      <3>3. \E m \in s : \A i \in s : m >= i
        BY <3>1, <3>2
      <3> HIDE DEF S
      <3>4. Max(s) \in s /\ \A i \in s : Max(s) >= i
        BY <3>3 DEF Max
      <3> QED BY <3>1, <3>4
    <2> QED BY <2>1
  <1>3. << >> \in Groupings
    BY DEF Groupings
  <1>4. F \in [S \X Groupings -> Groupings]
    <2>1. \A p \in S \X Groupings : JoinGroup(p[2], os[p[1]]) \in Groupings
      BY <1>1, JoinGroupIs
    <2> HIDE DEF os, S
    <2> QED BY <2>1
  <1>5. Correlate(fs) = got[S]
    BY <1>1 DEF Correlate, FoldLeft, MapThenFoldSet
  <1>6. PICK g \in [SUBSET S -> Groupings] : FoldUp(g, F, << >>, e, S)
    <2> HIDE DEF S, F, e
    <2> QED BY <1>1, <1>2, <1>3, <1>4, FoldsExist
  <1>7. ASSUME NEW s \in SUBSET S PROVE g[s] = IF s = {} THEN << >> ELSE JoinGroup(g[s \ {Max(s)}], os[Max(s)])
    <2>1. g[s] = IF s = {} THEN << >> ELSE F[<<e[s], g[s \ {e[s]}]>>]
      BY <1>6 DEF FoldUp
    <2>2. s # {} => Max(s) \in S /\ e[s] = Max(s) /\ g[s \ {Max(s)}] \in Groupings
      BY <1>2
    <2>3. \A i \in S, v \in Groupings : F[<<i, v>>] = JoinGroup(v, os[i])
      OBVIOUS
    <2> HIDE DEF S, F, e, os
    <2> QED BY <2>1, <2>2, <2>3
  <1>8. Iter(g)
    <2> HIDE DEF S
    <2> QED BY <1>7
  <1>9. Iter(got)
    <2> HIDE DEF Iter
    <2> QED BY <1>8
  <1> HIDE DEF got
  <1> DEFINE P == {k \in 0 .. n : got[1 .. k] = g[1 .. k]}
             h == [k \in 0 .. n |-> g[1 .. k]]
  <1>10. \A k \in 1 .. n : /\ 1 .. k \in SUBSET S /\ 1 .. k # {} /\ Max(1 .. k) = k /\ (1 .. k) \ {k} = 1 .. k - 1
    <2>1. ASSUME NEW k \in 1 .. n PROVE 1 .. k \in SUBSET S /\ 1 .. k # {} /\ Max(1 .. k) = k /\ (1 .. k) \ {k} = 1 .. k - 1
      <3>1. 1 .. k \in SUBSET S /\ 1 .. k # {} /\ k \in 1 .. k /\ (1 .. k) \ {k} = 1 .. k - 1
        <4>1. n \in Nat /\ k \in 1 .. n
          BY <1>1
        <4> HIDE DEF n
        <4>2. 1 .. k \in SUBSET S /\ k \in 1 .. k
          BY <4>1
        <4>3. (1 .. k) \ {k} = 1 .. k - 1
          BY <4>1
        <4> QED BY <4>2, <4>3
      <3>2. e[1 .. k] \in 1 .. k /\ k <= e[1 .. k] /\ e[1 .. k] = Max(1 .. k)
        BY <1>2, <3>1
      <3> HIDE DEF e, S
      <3>3. Max(1 .. k) = k
        BY <1>1, <3>2
      <3> QED BY <3>1, <3>3
    <2> QED BY <2>1
  <1>11. /\ 1 .. 0 = {} /\ got[1 .. 0] = << >> /\ g[1 .. 0] = << >>
         /\ \A k \in 1 .. n : got[1 .. k] = JoinGroup(got[1 .. k - 1], os[k]) /\ g[1 .. k] = JoinGroup(g[1 .. k - 1], os[k])
    <2>1. 1 .. 0 = {} /\ {} \in SUBSET S
      OBVIOUS
    <2>2. \A s \in SUBSET S : got[s] = IF s = {} THEN << >> ELSE JoinGroup(got[s \ {Max(s)}], os[Max(s)])
      BY <1>9
    <2>3. \A s \in SUBSET S : g[s] = IF s = {} THEN << >> ELSE JoinGroup(g[s \ {Max(s)}], os[Max(s)])
      BY <1>7
    <2> HIDE DEF S, os, n
    <2>4. got[1 .. 0] = << >> /\ g[1 .. 0] = << >>
      BY <2>1, <2>2, <2>3
    <2>5. ASSUME NEW k \in 1 .. n
          PROVE  got[1 .. k] = JoinGroup(got[1 .. k - 1], os[k]) /\ g[1 .. k] = JoinGroup(g[1 .. k - 1], os[k])
      <3> DEFINE s == 1 .. k
      <3>1. s \in SUBSET S /\ s # {} /\ Max(s) = k /\ s \ {k} = 1 .. k - 1
        BY <1>10
      <3> HIDE DEF s
      <3>2. got[s] = JoinGroup(got[s \ {k}], os[k]) /\ g[s] = JoinGroup(g[s \ {k}], os[k])
        BY <2>2, <2>3, <3>1
      <3> QED BY <3>1, <3>2 DEF s
    <2> QED BY <2>1, <2>4, <2>5
  <1>12. got[S] = g[S]
    <2>1. 0 \in P
      BY <1>1, <1>11
    <2>2. ASSUME NEW k \in 0 .. n, k + 1 \in 0 .. n, k \in P PROVE k + 1 \in P
      <3>1. k + 1 \in 1 .. n /\ (k + 1) - 1 = k
        BY <1>1, <2>2
      <3> QED BY <1>11, <2>2, <3>1
    <2>3. n \in P
      <3> HIDE DEF P, n
      <3>1. n \in 0 .. n
        BY <1>1
      <3> QED BY <1>1, <2>1, <2>2, <3>1, UpTo
    <2> QED BY <2>3
  <1>13. ByRounds(h, os, n)
    <2>1. \A k \in 0 .. n : 1 .. k \in SUBSET S
      BY <1>1
    <2>2. h \in [0 .. n -> Groupings]
      BY <2>1
    <2>3. h[0] = << >>
      BY <1>1, <1>11
    <2>4. ASSUME NEW k \in 1 .. n PROVE h[k] = JoinGroup(h[k - 1], os[k])
      <3>1. k \in 0 .. n /\ k - 1 \in 0 .. n
        BY <1>1
      <3>2. h[k] = g[1 .. k] /\ h[k - 1] = g[1 .. k - 1]
        BY <3>1
      <3> HIDE DEF h
      <3> QED BY <1>11, <3>2
    <2> HIDE DEF h, os, n
    <2> QED BY <2>2, <2>3, <2>4 DEF ByRounds
  <1>14. h[n] = Correlate(fs)
    <2>1. n \in 0 .. n
      BY <1>1
    <2> QED BY <1>5, <1>12, <2>1
  <1> HIDE DEF h
  <1> QED BY <1>13, <1>14

\* A finding is in one place more, and nothing else moves.
LEMMA PlacesGrow ==
  ASSUME NEW gs \in Groupings, NEW f \in Symptoms, NEW new \in Groupings, NEW h \in Nat \X Nat, Goes(gs, f, new, h), NEW x
  PROVE  h \notin PlacesOf(gs, x) /\ PlacesOf(new, x) = IF f = x THEN PlacesOf(gs, x) \cup {h} ELSE PlacesOf(gs, x)
  <1>1. \A s \in Groupings : \A p : p \in PlacesOf(s, x) <=>
          p \in Nat \X Nat /\ p[1] \in 1 .. Len(s) /\ p[2] \in 1 .. Len(s[p[1]]) /\ s[p[1]][p[2]] = x
    <2>1. ASSUME NEW s \in Groupings, NEW p
          PROVE  p \in PlacesOf(s, x) <=>
                   p \in Nat \X Nat /\ p[1] \in 1 .. Len(s) /\ p[2] \in 1 .. Len(s[p[1]]) /\ s[p[1]][p[2]] = x
      <3>1. Len(s) \in Nat /\ DOMAIN s = 1 .. Len(s)
            /\ \A g \in 1 .. Len(s) : s[g] \in Seq(Symptoms) /\ Len(s[g]) \in Nat /\ DOMAIN s[g] = 1 .. Len(s[g])
        BY ElementOfSeq, LenProperties DEF Groupings
      <3>2. p \in PlacesOf(s, x) <=> (\E g \in DOMAIN s : p \in {g} \X DOMAIN s[g]) /\ s[p[1]][p[2]] = x
        BY DEF PlacesOf
      <3> QED BY <3>1, <3>2
    <2> QED BY <2>1
  <1>2. Len(gs) \in Nat /\ \A g \in 1 .. Len(gs) : gs[g] \in Seq(Symptoms) /\ Len(gs[g]) \in Nat
    BY ElementOfSeq, LenProperties DEF Groupings
  <1>3. CASE h = <<Len(gs) + 1, 1>> /\ Len(new) = Len(gs) + 1 /\ new[Len(gs) + 1] = <<f>>
             /\ \A g \in 1 .. Len(gs) : new[g] = gs[g]
    <2>1. h \notin PlacesOf(gs, x)
      BY <1>1, <1>2, <1>3
    <2>2. \A p \in Nat \X Nat : p = h <=> p[1] = Len(gs) + 1 /\ p[2] = 1
      BY <1>2, <1>3
    <2>3. Len(<<f>>) = 1 /\ <<f>>[1] = f
      OBVIOUS
    <2>4. ASSUME NEW p \in Nat \X Nat
          PROVE  p \in PlacesOf(new, x) <=> p \in PlacesOf(gs, x) \/ (p = h /\ f = x)
      <3>1. CASE p[1] \in 1 .. Len(gs)
        BY <1>1, <1>2, <1>3, <2>2, <3>1
      <3>2. CASE p[1] = Len(gs) + 1
        BY <1>1, <1>2, <1>3, <2>2, <2>3, <3>2
      <3>3. CASE p[1] \notin 1 .. Len(gs) + 1
        BY <1>1, <1>2, <1>3, <2>2, <3>3
      <3> QED BY <1>2, <3>1, <3>2, <3>3
    <2> QED BY <1>1, <2>1, <2>4
  <1>4. CASE /\ h[1] \in 1 .. Len(gs) /\ Len(new) = Len(gs) /\ h[2] = Len(gs[h[1]]) + 1
             /\ new[h[1]] = Append(gs[h[1]], f) /\ \A g \in 1 .. Len(gs) : g # h[1] => new[g] = gs[g]
    <2>1. h \notin PlacesOf(gs, x)
      BY <1>1, <1>2, <1>4
    <2>2. \A p \in Nat \X Nat : p = h <=> p[1] = h[1] /\ p[2] = h[2]
      OBVIOUS
    <2>3. Len(new[h[1]]) = h[2] /\ new[h[1]][h[2]] = f /\ \A i \in 1 .. Len(gs[h[1]]) : new[h[1]][i] = gs[h[1]][i]
      BY <1>2, <1>4, AppendProperties
    <2>4. ASSUME NEW p \in Nat \X Nat
          PROVE  p \in PlacesOf(new, x) <=> p \in PlacesOf(gs, x) \/ (p = h /\ f = x)
      <3>1. CASE p[1] # h[1]
        BY <1>1, <1>4, <2>2, <3>1
      <3>2. CASE p[1] = h[1]
        <4>1. p[2] \in 1 .. h[2] <=> p[2] \in 1 .. Len(gs[h[1]]) \/ p[2] = h[2]
          BY <1>2, <1>4
        <4>2. p[2] = h[2] => p[2] \notin 1 .. Len(gs[h[1]])
          BY <1>2, <1>4
        <4> QED BY <1>1, <1>4, <2>2, <2>3, <3>2, <4>1, <4>2
      <3> QED BY <3>1, <3>2
    <2> QED BY <1>1, <2>1, <2>4
  <1> QED BY <1>3, <1>4 DEF Goes


LinkedIn(gs) ==
  \A g \in 1 .. Len(gs) :
    /\ Len(gs[g]) >= 1
    /\ \A i \in 1 .. Len(gs[g]) : i > 1 => \E j \in 1 .. i - 1 : Linked2(gs[g][i], gs[g][j])

LEMMA LinksGrow ==
  ASSUME NEW gs \in Groupings, NEW f \in Symptoms, NEW new \in Groupings, NEW h \in Nat \X Nat, Goes(gs, f, new, h),
         LinkedIn(gs)
  PROVE  LinkedIn(new)
  <1>1. Len(gs) \in Nat /\ \A g \in 1 .. Len(gs) : gs[g] \in Seq(Symptoms) /\ Len(gs[g]) \in Nat
                                                   /\ DOMAIN gs[g] = 1 .. Len(gs[g])
    BY ElementOfSeq, LenProperties DEF Groupings
  <1>2. CASE /\ Len(new) = Len(gs) + 1 /\ \A g \in 1 .. Len(gs) : new[g] = gs[g]
             /\ new[Len(gs) + 1] = <<f>>
    <2>1. Len(<<f>>) = 1
      OBVIOUS
    <2>2. \A g \in 1 .. Len(new) : g \in 1 .. Len(gs) \/ g = Len(gs) + 1
      BY <1>1, <1>2
    <2>3. ASSUME NEW g \in 1 .. Len(new)
          PROVE  /\ Len(new[g]) >= 1
                 /\ \A i \in 1 .. Len(new[g]) : i > 1 => \E j \in 1 .. i - 1 : Linked2(new[g][i], new[g][j])
      <3>1. CASE g \in 1 .. Len(gs)
        BY <1>2, <3>1 DEF LinkedIn
      <3>2. CASE g = Len(gs) + 1
        <4>1. Len(new[g]) = 1
          BY <1>2, <2>1, <3>2
        <4>2. \A i \in 1 .. 1 : ~(i > 1)
          OBVIOUS
        <4> QED BY <4>1, <4>2
      <3> QED BY <2>2, <3>1, <3>2
    <2> QED BY <2>3 DEF LinkedIn
  <1>3. CASE /\ h[1] \in 1 .. Len(gs) /\ SharesCause(f, gs[h[1]]) /\ Len(new) = Len(gs)
             /\ new[h[1]] = Append(gs[h[1]], f) /\ \A g \in 1 .. Len(gs) : g # h[1] => new[g] = gs[g]
    <2>0. PICK m, s, t : m = h[1] /\ s = gs[m] /\ t = new[m]
      OBVIOUS
    <2>1. s \in Seq(Symptoms) /\ Len(s) \in Nat /\ DOMAIN s = 1 .. Len(s) /\ t = Append(s, f) /\ Len(s) >= 1
          /\ \A i \in 1 .. Len(s) : i > 1 => \E j \in 1 .. i - 1 : Linked2(s[i], s[j])
      BY <1>1, <1>3, <2>0 DEF LinkedIn
    <2>2. Len(t) = Len(s) + 1 /\ t[Len(s) + 1] = f /\ \A i \in 1 .. Len(s) : t[i] = s[i]
      BY <2>1, AppendProperties
    <2>3. PICK j \in 1 .. Len(s) : Linked2(f, s[j])
      BY <1>3, <2>0, <2>1 DEF SharesCause
    <2>4. ASSUME NEW i \in 1 .. Len(t), i > 1 PROVE \E k \in 1 .. i - 1 : Linked2(t[i], t[k])
      <3>1. CASE i = Len(s) + 1
        <4>1. j \in 1 .. i - 1 /\ t[j] = s[j] /\ t[i] = f
          BY <2>1, <2>2, <3>1
        <4> QED BY <2>3, <4>1
      <3>2. CASE i \in 1 .. Len(s)
        <4>1. PICK k \in 1 .. i - 1 : Linked2(s[i], s[k])
          BY <2>1, <2>4, <3>2
        <4>2. t[k] = s[k] /\ t[i] = s[i]
          BY <2>1, <2>2, <3>2, <4>1
        <4> QED BY <4>1, <4>2
      <3> QED BY <2>1, <2>2, <3>1, <3>2
    <2>5. Len(t) >= 1
      BY <2>1, <2>2
    <2>6. ASSUME NEW g \in 1 .. Len(new)
          PROVE  /\ Len(new[g]) >= 1
                 /\ \A i \in 1 .. Len(new[g]) : i > 1 => \E k \in 1 .. i - 1 : Linked2(new[g][i], new[g][k])
      <3>1. CASE g # m
        <4>1. new[g] = gs[g] /\ g \in 1 .. Len(gs)
          BY <1>3, <2>0, <3>1
        <4> QED BY <4>1 DEF LinkedIn
      <3>2. CASE g = m
        BY <2>0, <2>4, <2>5, <3>2
      <3> QED BY <3>1, <3>2
    <2> QED BY <2>6 DEF LinkedIn
  <1> QED BY <1>2, <1>3 DEF Goes

\* What the groups of the first k findings are.
LEMMA RoundsKeep ==
  ASSUME NEW os \in Seq(Symptoms), NEW n, n = Len(os), NEW h, ByRounds(h, os, n)
  PROVE  /\ n \in Nat /\ \A k \in 1 .. n : /\ os[k] \in Symptoms /\ h[k - 1] \in Groupings /\ h[k] \in Groupings
                                           /\ \E at \in Nat \X Nat : Goes(h[k - 1], os[k], h[k], at)
         /\ \A k \in 0 .. n : LinkedIn(h[k])
  <1>1. n \in Nat /\ \A k \in 1 .. n : /\ os[k] \in Symptoms /\ h[k - 1] \in Groupings /\ h[k] \in Groupings
                                       /\ \E at \in Nat \X Nat : Goes(h[k - 1], os[k], h[k], at)
    <2>1. n \in Nat /\ \A k \in 1 .. n : os[k] \in Symptoms
      BY ElementOfSeq, LenProperties
    <2>2. ASSUME NEW k \in 1 .. n
          PROVE  h[k - 1] \in Groupings /\ h[k] \in Groupings /\ \E at \in Nat \X Nat : Goes(h[k - 1], os[k], h[k], at)
      <3>1. k \in 0 .. n /\ k - 1 \in 0 .. n
        BY <2>1
      <3>2. h[k - 1] \in Groupings /\ h[k] \in Groupings /\ h[k] = JoinGroup(h[k - 1], os[k])
        BY <3>1 DEF ByRounds
      <3> QED BY <2>1, <3>2, JoinGroupIs
    <2> QED BY <2>1, <2>2
  <1>2. h[0] = << >> /\ Len(<< >>) = 0
    BY DEF ByRounds
  <1>3. \A k \in 0 .. n : LinkedIn(h[k])
    <2> DEFINE P == {k \in 0 .. n : LinkedIn(h[k])}
    <2>1. 0 \in P
      BY <1>1, <1>2 DEF LinkedIn
    <2>2. ASSUME NEW k \in 0 .. n, k + 1 \in 0 .. n, k \in P PROVE k + 1 \in P
      <3>1. k + 1 \in 1 .. n /\ (k + 1) - 1 = k
        BY <1>1, <2>2
      <3>2. LinkedIn(h[k + 1])
        BY <1>1, <2>2, <3>1, LinksGrow
      <3> QED BY <2>2, <3>2
    <2> HIDE DEF P
    <2>3. \A k \in 0 .. n : k \in P
      BY <1>1, <2>1, <2>2, UpTo
    <2> QED BY <2>3 DEF P
  <1> QED BY <1>1, <1>3

\* The positions, up to n, at which x was placed.
Placed(os, n, x) == {i \in 1 .. n : os[i] = x}

\* A finding is in the groups as often as among those that were placed.
LEMMA CountsKeep ==
  ASSUME NEW os \in Seq(Symptoms), NEW n, n = Len(os), NEW h, ByRounds(h, os, n), NEW x
  PROVE  Cardinality(PlacesOf(h[n], x)) = Cardinality(Placed(os, n, x))
  <1>1. n \in Nat /\ \A k \in 1 .. n : /\ os[k] \in Symptoms /\ h[k - 1] \in Groupings /\ h[k] \in Groupings
                                       /\ \E at \in Nat \X Nat : Goes(h[k - 1], os[k], h[k], at)
    BY RoundsKeep
  <1>2. h[0] = << >>
    BY DEF ByRounds
  <1> DEFINE Of(k) == Placed(os, k, x)
             In(k) == PlacesOf(h[k], x)
             P == {k \in 0 .. n : IsFiniteSet(In(k)) /\ Cardinality(In(k)) = Cardinality(Of(k))}
  <1>3. 0 \in P
    <2>1. In(0) = {} /\ Of(0) = {}
      BY <1>2 DEF PlacesOf, Placed
    <2> HIDE DEF In, Of
    <2>2. IsFiniteSet(In(0)) /\ Cardinality(In(0)) = Cardinality(Of(0))
      BY <2>1, FS_EmptySet
    <2> QED BY <1>1, <2>2
  <1>4. ASSUME NEW k \in 0 .. n, k + 1 \in 0 .. n, k \in P PROVE k + 1 \in P
    <2>1. k + 1 \in 1 .. n /\ (k + 1) - 1 = k
      BY <1>1, <1>4
    <2>2. PICK gs \in Groupings, f \in Symptoms, new \in Groupings : gs = h[k] /\ f = os[k + 1] /\ new = h[k + 1]
      BY <1>1, <2>1
    <2>3. PICK at \in Nat \X Nat : Goes(gs, f, new, at)
      BY <1>1, <2>1, <2>2
    <2>4. at \notin PlacesOf(gs, x) /\ PlacesOf(new, x) = IF f = x THEN PlacesOf(gs, x) \cup {at} ELSE PlacesOf(gs, x)
      <3> HIDE DEF P
      <3> QED BY <2>3, PlacesGrow
    <2>5. at \notin In(k) /\ In(k + 1) = IF os[k + 1] = x THEN In(k) \cup {at} ELSE In(k)
      BY <2>2, <2>4
    <2>6. k + 1 \notin Of(k) /\ Of(k + 1) = IF os[k + 1] = x THEN Of(k) \cup {k + 1} ELSE Of(k)
      BY <1>4 DEF Placed
    <2>7. IsFiniteSet(Of(k))
      <3>1. IsFiniteSet(1 .. k) /\ Of(k) \in SUBSET (1 .. k)
        BY FS_Interval DEF Placed
      <3> HIDE DEF Of
      <3> QED BY <3>1, FS_Subset
    <2> HIDE DEF In, Of
    <2>8. IsFiniteSet(In(k)) /\ Cardinality(In(k)) = Cardinality(Of(k))
      BY <1>4
    <2>9. CASE os[k + 1] = x
      <3>1. /\ Cardinality(In(k + 1)) = Cardinality(In(k)) + 1 /\ IsFiniteSet(In(k + 1))
            /\ Cardinality(Of(k + 1)) = Cardinality(Of(k)) + 1
        BY <2>5, <2>6, <2>7, <2>8, <2>9, FS_AddElement
      <3> QED BY <1>4, <2>8, <3>1
    <2>10. CASE os[k + 1] # x
      <3>1. In(k + 1) = In(k) /\ Of(k + 1) = Of(k)
        BY <2>5, <2>6, <2>10
      <3> QED BY <1>4, <2>8, <3>1
    <2> QED BY <2>9, <2>10
  <1>5. n \in P
    <2>1. n \in 0 .. n
      BY <1>1
    <2> HIDE DEF P
    <2> QED BY <1>1, <1>3, <1>4, <2>1, UpTo
  <1> QED BY <1>5

\* When all the others follow the first and are below it, they all join its group.
Follows(f, o) == o.dataset \in Above[f.dataset] /\ f.detected # NoInstant /\ o.detected # NoInstant
                 /\ f.detected <= o.detected + CorrelationWindow

LEMMA FollowersJoin ==
  ASSUME NEW os \in Seq(Symptoms), NEW n, n = Len(os), NEW h, ByRounds(h, os, n), n >= 1,
         \A k \in 2 .. n : Follows(os[k], os[1]),
         \A k \in 1 .. n : Moment(os[1].detected) <= Moment(os[k].detected)
  PROVE  /\ Len(h[n]) = 1 /\ Len(h[n][1]) >= 1 /\ h[n][1][1] = os[1]
         /\ \A i \in 1 .. Len(h[n][1]) : \E m \in 1 .. n : h[n][1][i] = os[m]
  <1>1. n \in Nat /\ \A k \in 1 .. n : /\ os[k] \in Symptoms /\ h[k - 1] \in Groupings /\ h[k] \in Groupings
                                       /\ \E at \in Nat \X Nat : Goes(h[k - 1], os[k], h[k], at)
    BY RoundsKeep
  <1> DEFINE Good(k) == /\ Len(h[k]) = 1 /\ Len(h[k][1]) >= 1 /\ h[k][1][1] = os[1]
                        /\ \A i \in 1 .. Len(h[k][1]) : \E m \in 1 .. n : h[k][1][i] = os[m]
             P == {k \in 0 .. n : k >= 1 => Good(k)}
  <1>2. 0 \in P
    BY <1>1
  <1>3. ASSUME NEW k \in 0 .. n, k + 1 \in 0 .. n, k \in P PROVE k + 1 \in P
    <2>1. k + 1 \in 1 .. n /\ (k + 1) - 1 = k /\ h[k] \in Groupings
      BY <1>1, <1>3
    <2>2. PICK f, gs, new : f = os[k + 1] /\ gs = h[k] /\ new = h[k + 1]
      OBVIOUS
    <2>3. f \in Symptoms /\ gs \in Groupings /\ new \in Groupings
      BY <1>1, <2>1, <2>2
    <2>4. PICK at \in Nat \X Nat : Goes(gs, f, new, at)
      BY <1>1, <2>1, <2>2
    <2>5. CASE k = 0
      <3>1. Len(gs) = 0
        BY <2>2, <2>5 DEF ByRounds
      <3>2. Len(new) = 1 /\ new[1] = <<f>>
        BY <2>4, <3>1 DEF Goes
      <3>3. Len(<<f>>) = 1 /\ <<f>>[1] = f /\ f = os[1] /\ 1 \in 1 .. n
        BY <2>1, <2>2, <2>5
      <3>4. Good(k + 1)
        BY <2>2, <3>2, <3>3
      <3> QED BY <1>3, <3>4
    <2>6. CASE k # 0
      <3>1. Good(k) /\ k + 1 \in 2 .. n /\ 1 \in 1 .. n
        <4>1. k >= 1 /\ k + 1 \in 2 .. n /\ 1 \in 1 .. n
          BY <1>1, <1>3, <2>6
        <4> HIDE DEF Good
        <4> QED BY <1>3, <4>1
      <3>2. PICK s : s = gs[1]
        OBVIOUS
      <3>3. s \in Seq(Symptoms) /\ Len(s) \in Nat /\ DOMAIN s = 1 .. Len(s)
        BY <2>2, <2>3, <3>1, <3>2, ElementOfSeq, LenProperties DEF Groupings
      <3>4. Linked2(f, s[1])
        <4>1. s[1] = os[1] /\ os[1] \in Symptoms /\ Follows(f, os[1]) /\ Moment(os[1].detected) <= Moment(f.detected)
          BY <1>1, <2>1, <2>2, <3>1, <3>2
        <4>2. PICK a, b : a = f.detected /\ b = os[1].detected
          OBVIOUS
        <4>3. a \in Nat /\ b \in Nat /\ b <= a /\ a <= b + CorrelationWindow /\ CorrelationWindow \in Nat
          BY <2>3, <4>1, <4>2, SymptomsAre, IncidentsAssumption DEF Follows, IncidentsAssumption
        <4>4. a - b \in -CorrelationWindow .. CorrelationWindow
          BY <4>3
        <4> QED BY <4>1, <4>2, <4>4 DEF Linked2, Near, Connected, Follows
      <3>5. SharesCause(f, gs[1])
        <4>1. 1 \in DOMAIN s
          BY <2>2, <3>1, <3>2, <3>3
        <4> QED BY <3>2, <3>4, <4>1 DEF SharesCause
      <3>6. Len(new) = 1 /\ new[1] = Append(s, f)
        <4>1. Len(gs) = 1 /\ 1 \in 1 .. Len(gs)
          BY <2>2, <3>1
        <4> QED BY <2>4, <3>2, <3>5, <4>1 DEF Goes
      <3>7. Len(new[1]) = Len(s) + 1 /\ new[1][Len(s) + 1] = f /\ \A i \in 1 .. Len(s) : new[1][i] = s[i]
        BY <2>3, <3>3, <3>6, AppendProperties
      <3>8. \A i \in 1 .. Len(s) : \E m \in 1 .. n : s[i] = os[m]
        BY <2>2, <3>1, <3>2
      <3>9. Len(s) >= 1 /\ s[1] = os[1]
        BY <2>2, <3>1, <3>2
      <3>10. \A i \in 1 .. Len(s) + 1 : i \in 1 .. Len(s) \/ i = Len(s) + 1
        BY <3>3
      <3> HIDE DEF P
      <3>11. Good(k + 1)
        <4>1. Len(new[1]) >= 1 /\ new[1][1] = os[1]
          BY <3>3, <3>7, <3>9
        <4>2. ASSUME NEW i \in 1 .. Len(new[1]) PROVE \E m \in 1 .. n : new[1][i] = os[m]
          BY <2>1, <2>2, <3>7, <3>8, <3>10
        <4> QED BY <2>2, <3>6, <4>1, <4>2
      <3> HIDE DEF Good
      <3> QED BY <1>3, <3>11 DEF P
    <2> QED BY <2>5, <2>6
  <1>4. n \in P
    <2>1. n \in 0 .. n
      BY <1>1
    <2> HIDE DEF P
    <2> QED BY <1>1, <1>2, <1>3, <2>1, UpTo
  <1> QED BY <1>4


LEMMA GroupsHold ==
  ASSUME NEW fs \in Seq(Symptoms)
  PROVE  LET gs == Correlate(fs)  os == Ordered(fs) IN
         /\ gs \in Groupings
         /\ \A x : Cardinality(PlacesOf(gs, x)) = Cardinality({i \in DOMAIN fs : fs[i] = x})
         /\ LinkedIn(gs)
         /\ os # << >> /\ (\A i \in 2 .. Len(os) : Follows(os[i], os[1]))
              => /\ Len(gs) = 1
                 /\ os[1].dataset \notin Above[os[1].dataset] => RootDatasets(gs[1]) = {os[1].dataset}
  <1> DEFINE os == Ordered(fs)
             gs == Correlate(fs)
             n == Len(fs)
  <1>1. /\ n \in Nat /\ Len(os) = n /\ os \in Seq(Symptoms)
        /\ \A k \in 1 .. n : Moment(os[1].detected) <= Moment(os[k].detected)
    BY OrderedMoves
  <1>2. PICK h : ByRounds(h, os, n) /\ h[n] = gs
    BY CorrelateByRounds
  <1>3. \A x : Cardinality({k \in 1 .. n : os[k] = x}) = Cardinality({i \in DOMAIN fs : fs[i] = x})
    BY OrderedKeeps
  <1> HIDE DEF os, gs, n
  <1>4. n \in 0 .. n
    BY <1>1
  <1>5. gs \in Groupings /\ LinkedIn(gs) /\ \A x : Cardinality(PlacesOf(gs, x)) = Cardinality({k \in 1 .. n : os[k] = x})
    <2>1. h[n] \in Groupings
      BY <1>2, <1>4 DEF ByRounds
    <2>2. \A k \in 0 .. n : LinkedIn(h[k])
      BY <1>1, <1>2, RoundsKeep
    <2>3. \A x : Cardinality(PlacesOf(h[n], x)) = Cardinality(Placed(os, n, x))
      BY <1>1, <1>2, CountsKeep
    <2>4. \A x : Placed(os, n, x) = {k \in 1 .. n : os[k] = x}
      BY DEF Placed
    <2>5. gs \in Groupings /\ LinkedIn(gs)
      BY <1>2, <1>4, <2>1, <2>2
    <2>6. \A x : Cardinality(PlacesOf(gs, x)) = Cardinality(Placed(os, n, x))
      BY <1>2, <2>3
    <2>7. \A x : Cardinality(PlacesOf(gs, x)) = Cardinality({k \in 1 .. n : os[k] = x})
      BY ONLY <2>4, <2>6
    <2> QED BY <2>5, <2>7
  <1>6. ASSUME os # << >>, \A i \in 2 .. Len(os) : Follows(os[i], os[1])
        PROVE  /\ Len(gs) = 1
               /\ os[1].dataset \notin Above[os[1].dataset] => RootDatasets(gs[1]) = {os[1].dataset}
    <2>1. n >= 1
      BY <1>1, <1>6, EmptySeq
    <2>2. /\ Len(gs) = 1 /\ Len(gs[1]) >= 1 /\ gs[1][1] = os[1]
          /\ \A i \in 1 .. Len(gs[1]) : \E m \in 1 .. n : gs[1][i] = os[m]
      BY <1>1, <1>2, <1>6, <2>1, FollowersJoin
    <2>3. DOMAIN gs[1] = 1 .. Len(gs[1]) /\ Len(gs[1]) \in Nat
      BY <1>5, <2>2, ElementOfSeq, LenProperties DEF Groupings
    <2> DEFINE a == os[1].dataset
               D == DatasetsOf(gs[1])
    <2>4. ASSUME a \notin Above[a] PROVE RootDatasets(gs[1]) = {a}
      <3>1. a \in D
        <4>1. 1 \in DOMAIN gs[1]
          BY <2>2, <2>3
        <4> QED BY <2>2, <4>1 DEF DatasetsOf
      <3>2. ASSUME NEW d \in D PROVE d \in DOMAIN Above /\ (d = a \/ a \in Above[d])
        <4>1. PICK i \in 1 .. Len(gs[1]) : d = gs[1][i].dataset
          BY <2>3 DEF DatasetsOf
        <4>2. PICK m \in 1 .. n : d = os[m].dataset
          BY <2>2, <4>1
        <4>3. os[m] \in Symptoms /\ (m = 1 \/ m \in 2 .. Len(os))
          BY <1>1, <4>2, ElementOfSeq
        <4> QED BY <1>6, <4>2, <4>3, SymptomsAre DEF Follows
      <3>3. \A d \in D : d \notin Above[a]
        <4>1. SUFFICES ASSUME NEW d \in D, d \in Above[a] PROVE FALSE
          OBVIOUS
        <4>2. a \in DOMAIN Above
          BY <3>1, <3>2
        <4>3. Above[d] \subseteq Above[a]
          BY <4>1, <4>2, IncidentsAssumption DEF IncidentsAssumption
        <4> HIDE DEF D, a
        <4> QED BY <2>4, <3>2, <4>1, <4>3
      <3> HIDE DEF a, D
      <3>4. RootDatasets(gs[1]) = {d \in D : Above[d] \cap D = {}}
        BY DEF RootDatasets, D
      <3> QED BY <3>1, <3>2, <3>3, <3>4
    <2> QED BY <2>2, <2>4
  <1> QED BY <1>3, <1>5, <1>6 DEF os, gs, n

LEMMA GroupsFromTypes ==
  ASSUME observed \in Seq(Symptoms)
  PROVE  GroupsShareACause
  <1> DEFINE gs == Correlate(observed)
             os == Ordered(observed)
  <1>1. /\ gs \in Groupings
        /\ \A x : Cardinality(PlacesOf(gs, x)) = Cardinality({i \in DOMAIN observed : observed[i] = x})
        /\ LinkedIn(gs)
        /\ os # << >> /\ (\A i \in 2 .. Len(os) : Follows(os[i], os[1]))
             => /\ Len(gs) = 1
                /\ os[1].dataset \notin Above[os[1].dataset] => RootDatasets(gs[1]) = {os[1].dataset}
    BY GroupsHold
  <1> HIDE DEF gs, os
  <1>2. ASSUME NEW g \in DOMAIN gs, NEW i \in DOMAIN gs[g], i > 1
        PROVE  \E j \in 1 .. i - 1 :
                 LET f == gs[g][i]  o == gs[g][j]
                 IN  /\ f.dataset = o.dataset \/ f.dataset \in Above[o.dataset] \/ o.dataset \in Above[f.dataset]
                     /\ f.detected # NoInstant /\ o.detected # NoInstant
                          => f.detected <= o.detected + CorrelationWindow
    <2>1. Len(gs) \in Nat /\ DOMAIN gs = 1 .. Len(gs) /\ gs[g] \in Seq(Symptoms)
      BY <1>1, ElementOfSeq, LenProperties DEF Groupings
    <2>2. PICK s : s = gs[g]
      OBVIOUS
    <2>3. s \in Seq(Symptoms) /\ Len(s) \in Nat /\ DOMAIN s = 1 .. Len(s) /\ i \in 1 .. Len(s)
      BY <2>1, <2>2, LenProperties
    <2>4. PICK j \in 1 .. i - 1 : Linked2(s[i], s[j])
      BY <1>1, <1>2, <2>1, <2>2, <2>3 DEF LinkedIn
    <2>5. s[i] \in Symptoms /\ s[j] \in Symptoms
      <3>1. j \in 1 .. Len(s)
        BY <2>3, <2>4
      <3> QED BY <2>3, <3>1, ElementOfSeq
    <2>6. PICK a, b : a = s[i].detected /\ b = s[j].detected
      OBVIOUS
    <2>7. a # NoInstant /\ b # NoInstant => a <= b + CorrelationWindow
      <3>1. CorrelationWindow \in Nat
        BY IncidentsAssumption DEF IncidentsAssumption
      <3>2. a # NoInstant /\ b # NoInstant => a \in Nat /\ b \in Nat /\ a - b \in -CorrelationWindow .. CorrelationWindow
        BY <2>4, <2>5, <2>6, SymptomsAre DEF Linked2, Near
      <3> QED BY <3>1, <3>2
    <2>8. s[i].dataset = s[j].dataset \/ s[i].dataset \in Above[s[j].dataset] \/ s[j].dataset \in Above[s[i].dataset]
      BY <2>4 DEF Linked2, Connected
    <2> QED BY <2>2, <2>4, <2>6, <2>7, <2>8
  <1>3. ASSUME os # << >>,
               \A i \in 2 .. Len(os) : os[1].dataset \in Above[os[i].dataset]
                                         /\ os[i].detected # NoInstant /\ os[1].detected # NoInstant
                                         /\ os[i].detected <= os[1].detected + CorrelationWindow
        PROVE  /\ Len(gs) = 1
               /\ os[1].dataset \notin Above[os[1].dataset] => RootDatasets(gs[1]) = {os[1].dataset}
    BY <1>1, <1>3 DEF Follows
  <1> QED BY <1>1, <1>2, <1>3 DEF GroupsShareACause, gs, os

\* Whatever is affected is below a root, where nothing is upstream of itself.
LEMMA RootsCover ==
  ASSUME NEW fs \in Seq(Symptoms), \A d \in DatasetsOf(fs) : d \notin Above[d], NEW d \in Impact(fs)
  PROVE  d \in RootDatasets(fs) \/ Above[d] \cap RootDatasets(fs) # {}
  <1> DEFINE D == DatasetsOf(fs)
             At == {x \in D : x = d \/ x \in Above[d]}
             T == {Cardinality(Above[x]) : x \in At}
  <1>1. \A x \in D : x \in DOMAIN Above
    <2>1. ASSUME NEW x \in D PROVE x \in DOMAIN Above
      <3>1. PICK i \in DOMAIN fs : x = fs[i].dataset
        BY DEF DatasetsOf
      <3>2. fs[i] \in Symptoms
        BY ElementOfSeq, LenProperties
      <3> QED BY <3>1, <3>2, SymptomsAre
    <2> QED BY <2>1
  <1>2. d \in DOMAIN Above /\ At # {}
    BY <1>1 DEF Impact
  <1>3. \A x \in DOMAIN Above : /\ IsFiniteSet(Above[x]) /\ Cardinality(Above[x]) \in Nat
                                /\ \A y \in Above[x] : y \in DOMAIN Above /\ Above[y] \subseteq Above[x]
    BY IncidentsAssumption, FS_CardinalityType DEF IncidentsAssumption
  <1> HIDE DEF D
  <1>4. PICK t \in T : \A u \in T : t <= u
    <2>1. T \in SUBSET Nat /\ T # {}
      BY <1>1, <1>2, <1>3
    <2> HIDE DEF T
    <2> QED BY <2>1, LeastNumber
  <1>5. PICK x \in At : t = Cardinality(Above[x])
    OBVIOUS
  <1>6. x \in D /\ x \in DOMAIN Above /\ (x = d \/ x \in Above[d])
    BY <1>1
  <1>7. Above[x] \cap D = {}
    <2>1. SUFFICES ASSUME NEW y \in Above[x] \cap D PROVE FALSE
      OBVIOUS
    <2>2. y \in DOMAIN Above /\ Above[y] \subseteq Above[x] /\ y \notin Above[y]
      BY <1>1, <1>3, <1>6, <2>1 DEF D
    <2>3. Cardinality(Above[y]) < Cardinality(Above[x])
      <3>1. Above[y] # Above[x] /\ Above[y] \in SUBSET Above[x] /\ IsFiniteSet(Above[x])
        BY <1>3, <1>6, <2>1, <2>2
      <3>2. Cardinality(Above[y]) <= Cardinality(Above[x]) /\ Cardinality(Above[y]) # Cardinality(Above[x])
        BY <3>1, FS_Subset
      <3> QED BY <1>3, <1>6, <2>2, <3>2
    <2>4. y \in At
      BY <1>2, <1>3, <1>6, <2>1
    <2>5. Cardinality(Above[y]) \in T
      BY <2>4
    <2> HIDE DEF T
    <2> QED BY <1>3, <1>4, <1>5, <1>6, <2>2, <2>3, <2>5
  <1>8. x \in RootDatasets(fs)
    BY <1>6, <1>7 DEF RootDatasets, D
  <1> QED BY <1>6, <1>8

(***************************************************************************)
(* What people do to an incident.                                          *)
(***************************************************************************)
Instants == Nat \cup {NoInstant}

Worked(n) ==
  /\ n = [findings |-> n.findings, state |-> n.state, owner |-> n.owner, opened |-> n.opened,
          acknowledged |-> n.acknowledged, resolved |-> n.resolved, cause |-> n.cause]
  /\ n.findings \in Seq(Symptoms) /\ n.cause = RootDatasets(n.findings)
  /\ {n.opened, n.acknowledged, n.resolved} \subseteq Instants
Dated(n, t) ==
  /\ n.opened # NoInstant => n.opened <= t
  /\ n.acknowledged # NoInstant => n.acknowledged <= t
  /\ n.resolved # NoInstant => n.resolved <= t /\ (n.opened # NoInstant => n.opened <= n.resolved)
InOrder1(n) ==
  /\ IsOpen(n) /\ n.resolved # NoInstant => n.acknowledged # NoInstant /\ n.acknowledged >= n.resolved
  /\ n.state = "acknowledged" => n.owner # ""
  /\ ~IsOpen(n) => n.resolved # NoInstant

IncidentInv ==
  /\ observed \in Seq(Symptoms) /\ now \in Nat
  /\ incident = << >> \/ \E n : incident = <<n>> /\ Worked(n) /\ Dated(n, now) /\ InOrder1(n)

LEMMA IncidentInvInit == IncidentsInit => IncidentInv
  BY DEF IncidentsInit, IncidentInv

LEMMA IncidentInvStep == ASSUME IncidentInv, IncidentsNext \/ UNCHANGED incidentVars PROVE IncidentInv'
  <1>0. NoInstant \notin Nat /\ now \in Nat /\ observed \in Seq(Symptoms)
    BY IncidentsAssumption DEF IncidentsAssumption, IncidentInv
  <1>1. ASSUME NEW f \in Symptoms, Report1(f) PROVE IncidentInv'
    <2>1. observed' \in Seq(Symptoms)
      BY <1>0, <1>1, AppendProperties DEF Report1
    <2> QED BY <1>0, <1>1, <2>1 DEF Report1, IncidentInv
  <1>2. ASSUME NEW k \in DOMAIN Correlate(observed), TakeUp(k) PROVE IncidentInv'
    <2> DEFINE g == Correlate(observed)[k]
               n == [findings |-> g, state |-> "open", owner |-> "", opened |-> OpenedAt(g),
                     acknowledged |-> NoInstant, resolved |-> NoInstant, cause |-> RootDatasets(g)]
    <2>1. g \in Seq(Symptoms)
      <3>1. Correlate(observed) \in Groupings
        BY <1>0, GroupsHold
      <3> QED BY <3>1, ElementOfSeq, LenProperties DEF Groupings
    <2>2. incident' = <<n>> /\ now' = Max({now} \cup TimesOf(g)) /\ observed' = observed
      BY <1>2 DEF TakeUp
    <2> HIDE DEF g
    <2>3. TimesOf(g) \in SUBSET Nat /\ IsFiniteSet(TimesOf(g))
      <3>1. \A i \in DOMAIN g : g[i].detected \in Instants
        BY <2>1, SymptomsAre, ElementOfSeq, LenProperties DEF Instants
      <3> DEFINE det == [i \in DOMAIN g |-> g[i].detected]
                 all == {det[i] : i \in DOMAIN g}
      <3>2. IsFiniteSet(DOMAIN g) /\ DOMAIN g = DOMAIN det
        BY <2>1, LenProperties, FS_Interval
      <3>3. IsFiniteSet(all)
        <4> HIDE DEF det
        <4> QED BY <3>2, ImageIsFinite
      <3>4. TimesOf(g) \subseteq all /\ TimesOf(g) \subseteq Nat
        BY <3>1 DEF TimesOf, Instants
      <3> HIDE DEF all
      <3> QED BY <3>3, <3>4, FS_Subset
    <2>4. now' \in Nat /\ \A t \in TimesOf(g) : t <= now'
      <3> DEFINE all == {now} \cup TimesOf(g)
      <3>1. all \in SUBSET Int /\ all \in SUBSET Nat /\ IsFiniteSet(all) /\ all # {}
        BY <1>0, <2>3, FS_AddElement
      <3>2. \E m \in all : \A t \in all : t <= m
        <4> HIDE DEF all
        <4> QED BY <3>1, FiniteHasGreatest
      <3>3. \E m \in all : \A t \in all : m >= t
        BY <3>1, <3>2
      <3>4. Max(all) \in all /\ \A t \in all : Max(all) >= t
        <4> HIDE DEF all
        <4> QED BY <3>3 DEF Max
      <3>5. now' = Max(all) /\ TimesOf(g) \subseteq all
        BY <2>2
      <3> HIDE DEF all
      <3> QED BY <3>1, <3>4, <3>5
    <2>5. OpenedAt(g) = NoInstant \/ OpenedAt(g) \in TimesOf(g)
      <3>1. SUFFICES ASSUME TimesOf(g) # {} PROVE Min(TimesOf(g)) \in TimesOf(g)
        BY DEF OpenedAt
      <3>2. \E m \in TimesOf(g) : \A t \in TimesOf(g) : m <= t
        BY <2>3, <3>1, LeastNumber
      <3> QED BY <3>2 DEF Min
    <2>6. Worked(n)
      BY <2>1, <2>3, <2>5 DEF Worked, Instants
    <2>7. Dated(n, now')
      BY <2>4, <2>5 DEF Dated
    <2>8. InOrder1(n)
      BY DEF InOrder1, IsOpen, IsTerminal
    <2> HIDE DEF n
    <2> QED BY <1>0, <2>2, <2>4, <2>6, <2>7, <2>8 DEF IncidentInv
  <1>3. ASSUME NEW o, Acknowledge(o) PROVE IncidentInv'
    <2>1. PICK n : incident = <<n>> /\ Worked(n) /\ Dated(n, now) /\ InOrder1(n)
      BY <1>3 DEF IncidentInv, Acknowledge
    <2>2. PICK m : m = [n EXCEPT !.owner = o, !.state = "acknowledged", !.acknowledged = now]
      OBVIOUS
    <2>3. incident' = <<m>> /\ observed' = observed /\ now' = now /\ o # ""
      BY <1>3, <2>1, <2>2 DEF Acknowledge
    <2>4. /\ m = [findings |-> m.findings, state |-> m.state, owner |-> m.owner, opened |-> m.opened,
                  acknowledged |-> m.acknowledged, resolved |-> m.resolved, cause |-> m.cause]
          /\ m.owner = o /\ m.state = "acknowledged" /\ m.acknowledged = now /\ m.findings = n.findings
          /\ m.opened = n.opened /\ m.resolved = n.resolved /\ m.cause = n.cause
      BY <2>1, <2>2 DEF Worked
    <2>5. Worked(m)
      BY <1>0, <2>1, <2>4 DEF Worked, Instants
    <2>6. Dated(m, now)
      BY <1>0, <2>1, <2>4 DEF Dated
    <2>7. InOrder1(m)
      BY <1>0, <2>1, <2>3, <2>4 DEF InOrder1, IsOpen, IsTerminal, Dated
    <2> QED BY <1>0, <2>3, <2>5, <2>6, <2>7 DEF IncidentInv
  <1>4. ASSUME NEW st, ResolveIncident(st) PROVE IncidentInv'
    <2>1. PICK n : incident = <<n>> /\ Worked(n) /\ Dated(n, now) /\ InOrder1(n)
      BY <1>4 DEF IncidentInv, ResolveIncident
    <2>2. PICK m : m = [n EXCEPT !.state = st, !.resolved = now]
      OBVIOUS
    <2>3. incident' = <<m>> /\ observed' = observed /\ now' = now /\ IsTerminal(st)
      BY <1>4, <2>1, <2>2 DEF ResolveIncident
    <2>4. /\ m = [findings |-> m.findings, state |-> m.state, owner |-> m.owner, opened |-> m.opened,
                  acknowledged |-> m.acknowledged, resolved |-> m.resolved, cause |-> m.cause]
          /\ m.owner = n.owner /\ m.state = st /\ m.acknowledged = n.acknowledged /\ m.findings = n.findings
          /\ m.opened = n.opened /\ m.resolved = now /\ m.cause = n.cause
      BY <2>1, <2>2 DEF Worked
    <2>5. Worked(m)
      BY <1>0, <2>1, <2>4 DEF Worked, Instants
    <2>6. Dated(m, now)
      BY <1>0, <2>1, <2>4 DEF Dated
    <2>7. InOrder1(m)
      BY <1>0, <2>1, <2>3, <2>4 DEF InOrder1, IsOpen, IsTerminal
    <2> QED BY <1>0, <2>3, <2>5, <2>6, <2>7 DEF IncidentInv
  <1>5. CASE Later
    <2>1. now' = now + 1 /\ now' \in Nat /\ observed' = observed /\ incident' = incident
      BY <1>0, <1>5 DEF Later
    <2>2. ASSUME NEW n, Worked(n), Dated(n, now) PROVE Dated(n, now')
      BY <1>0, <2>1, <2>2 DEF Dated, Worked, Instants
    <2> QED BY <1>0, <2>1, <2>2 DEF IncidentInv
  <1>6. CASE UNCHANGED incidentVars
    BY <1>6 DEF incidentVars, IncidentInv
  <1> QED BY <1>1, <1>2, <1>3, <1>4, <1>5, <1>6 DEF IncidentsNext

LEMMA LifecycleFromInv == ASSUME IncidentInv PROVE LifecyclesReadBack
  <1>0. NoInstant \notin Nat
    BY IncidentsAssumption DEF IncidentsAssumption
  <1>1. SUFFICES ASSUME incident # << >>
                 PROVE  LET n == incident[1]  p == Postmortem(n) IN
    /\ TimeToResolve(n) # NoInstant => TimeToResolve(n) >= 0
    /\ IsOpen(n) /\ n.resolved # NoInstant => n.acknowledged # NoInstant /\ n.acknowledged >= n.resolved
    /\ n.state = "acknowledged" => n.owner # ""
    /\ ~IsOpen(n) => n.resolved # NoInstant
    /\ p.datasets \subseteq Impact(n.findings) /\ p.cause \subseteq p.datasets
    /\ (\A d \in p.datasets : d \notin Above[d]) =>
         \A d \in Impact(n.findings) : d \in p.cause \/ Above[d] \cap p.cause # {}
    BY DEF LifecyclesReadBack
  <1>2. PICK n : incident = <<n>> /\ Worked(n) /\ Dated(n, now) /\ InOrder1(n)
    BY <1>1 DEF IncidentInv
  <1>3. incident[1] = n
    BY <1>2
  <1>4. TimeToResolve(n) # NoInstant => TimeToResolve(n) >= 0
    BY <1>0, <1>2 DEF TimeToResolve, Worked, Dated, Instants
  <1>5. Postmortem(n).datasets = DatasetsOf(n.findings) /\ Postmortem(n).cause = RootDatasets(n.findings)
    BY <1>2 DEF Postmortem, Worked
  <1>6. DatasetsOf(n.findings) \subseteq Impact(n.findings) /\ RootDatasets(n.findings) \subseteq DatasetsOf(n.findings)
    BY DEF Impact, RootDatasets
  <1>7. (\A d \in DatasetsOf(n.findings) : d \notin Above[d]) =>
          \A d \in Impact(n.findings) : d \in RootDatasets(n.findings) \/ Above[d] \cap RootDatasets(n.findings) # {}
    BY <1>2, RootsCover DEF Worked
  <1> QED BY <1>2, <1>3, <1>4, <1>5, <1>6, <1>7 DEF InOrder1

(***************************************************************************)
(* Savings and charges: graph/plan/cost.py, billing.py.                    *)
(***************************************************************************)
Bill == [day : Nat, amount : Amounts, dataset : ChargedTo]
BillingInv ==
  /\ bills \in Seq(Bill) /\ counted \subseteq Warehouse.nodes /\ billingDay \in Nat
  /\ priced \in Seq([day : Nat, plan : PricedPlans]) /\ price \in Int \X Int

LEMMA UnitsAre ==
  ASSUME NEW d
  PROVE  Unit(d) \in Nat /\ Unit(d) > 0
  BY BillingAssumption DEF Unit

LEMMA PlanIsPriced ==
  ASSUME NEW plan \in PricedPlans
  PROVE  EstimatePlan(plan) \in Int
  <1> DEFINE f == [d \in DOMAIN plan |-> plan[d] * Unit(d)]
  <1>1. IsFiniteSet(DOMAIN plan) /\ \A d \in DOMAIN plan : plan[d] \in Nat
    BY BillingAssumption
  <1>2. \A d \in DOMAIN plan : f[d] \in Int
    BY <1>1, UnitsAre
  <1>3. DOMAIN f = DOMAIN plan /\ f = [d \in DOMAIN f |-> f[d]]
    OBVIOUS
  <1> HIDE DEF f
  <1>4. IsSummable(f)
    BY <1>1, <1>2, <1>3 DEF IsSummable
  <1>5. SumFunction(f) \in Int
    BY <1>3, <1>4, SumIsNumber
  <1> QED BY <1>5 DEF EstimatePlan, f

\* A rebuild of all, from below: a dataset not listed counts as one partition.
LEMMA FullGrows ==
  ASSUME NEW known \in SUBSET Warehouse.nodes
  PROVE  LET V == Warehouse.nodes
             full == EstimateFullRebuild(known)
             total == SumFunction([d \in V |-> CountOr1(d, known)])
         IN  /\ full \in Int /\ total \in Int
             /\ (\A d \in V : PartitionsOf[d] > 0) =>
                  /\ full <= EstimateFullRebuild(V)
                  /\ total <= SumFunction([d \in V |-> CountOr1(d, V)])
  <1> DEFINE V == Warehouse.nodes
             cost(K) == [d \in V |-> CountOr1(d, K) * Unit(d)]
             count(K) == [d \in V |-> CountOr1(d, K)]
  <1>1. IsFiniteSet(V) /\ \A d \in V : PartitionsOf[d] \in Nat
    BY BillingAssumption DEF IsLineage
  <1>2. ASSUME NEW K \in SUBSET V PROVE \A d \in V : CountOr1(d, K) \in Nat /\ cost(K)[d] \in Int /\ count(K)[d] \in Int
    <2>1. \A d \in V : CountOr1(d, K) \in Nat
      BY <1>1 DEF CountOr1
    <2>2. \A d \in V : CountOr1(d, K) * Unit(d) \in Int
      BY <2>1, UnitsAre
    <2> QED BY <2>1, <2>2
  <1>3. \A K \in SUBSET V : /\ DOMAIN cost(K) = V /\ cost(K) = [d \in V |-> cost(K)[d]]
                            /\ DOMAIN count(K) = V /\ count(K) = [d \in V |-> count(K)[d]]
    OBVIOUS
  <1>4. ASSUME \A d \in V : PartitionsOf[d] > 0
        PROVE  \A d \in V : cost(known)[d] <= cost(V)[d] /\ count(known)[d] <= count(V)[d]
    <2> SUFFICES ASSUME NEW d \in V PROVE CountOr1(d, known) * Unit(d) <= CountOr1(d, V) * Unit(d)
                                          /\ CountOr1(d, known) <= CountOr1(d, V)
      OBVIOUS
    <2>1. CountOr1(d, known) <= CountOr1(d, V) /\ CountOr1(d, known) \in Nat /\ CountOr1(d, V) \in Nat
      BY <1>1, <1>4 DEF CountOr1
    <2>2. PICK u \in Nat : u = Unit(d)
      BY UnitsAre
    <2>3. PICK a \in Nat, b \in Nat : a = CountOr1(d, known) /\ b = CountOr1(d, V)
      BY <2>1
    <2>4. a <= b => a * u <= b * u
      BY SMTT(20)
    <2> QED BY <2>1, <2>2, <2>3, <2>4
  <1> HIDE DEF cost, count
  <1>5. V \in SUBSET V /\ known \in SUBSET V
    OBVIOUS
  <1>6. \A K \in SUBSET V : IsSummable(cost(K)) /\ IsSummable(count(K))
    BY <1>1, <1>2, <1>3 DEF IsSummable
  <1>7. PICK a, b : a = cost(known) /\ b = cost(V)
    OBVIOUS
  <1>8. PICK c, e : c = count(known) /\ e = count(V)
    OBVIOUS
  <1>9. SumFunction(a) \in Int /\ SumFunction(c) \in Int
    <2>1. DOMAIN a = V /\ a = [x \in V |-> a[x]] /\ IsSummable(a) /\ \A x \in V : a[x] <= a[x]
      BY <1>2, <1>3, <1>5, <1>6, <1>7
    <2>2. DOMAIN c = V /\ c = [x \in V |-> c[x]] /\ IsSummable(c) /\ \A x \in V : c[x] <= c[x]
      BY <1>2, <1>3, <1>5, <1>6, <1>8
    <2>3. SumFunction(a) \in Int
      BY <2>1, SumInOrder
    <2> QED BY <2>2, <2>3, SumInOrder
  <1>10. ASSUME \A d \in V : PartitionsOf[d] > 0
         PROVE  SumFunction(a) <= SumFunction(b) /\ SumFunction(c) <= SumFunction(e)
    <2>1. DOMAIN a = V /\ DOMAIN b = V /\ a = [x \in V |-> a[x]] /\ b = [x \in V |-> b[x]]
          /\ IsSummable(a) /\ IsSummable(b) /\ \A x \in V : a[x] <= b[x]
      BY <1>3, <1>4, <1>5, <1>6, <1>7, <1>10
    <2>2. DOMAIN c = V /\ DOMAIN e = V /\ c = [x \in V |-> c[x]] /\ e = [x \in V |-> e[x]]
          /\ IsSummable(c) /\ IsSummable(e) /\ \A x \in V : c[x] <= e[x]
      BY <1>3, <1>4, <1>5, <1>6, <1>8, <1>10
    <2>3. SumFunction(a) <= SumFunction(b)
      BY <2>1, SumInOrder
    <2> QED BY <2>2, <2>3, SumInOrder
  <1> QED BY <1>7, <1>8, <1>9, <1>10 DEF EstimateFullRebuild, cost, count

LEMMA SavingsFromTypes ==
  ASSUME counted \subseteq Warehouse.nodes, NEW plan \in PricedPlans
  PROVE  LET claimed == Savings(plan, counted)  real == Savings(plan, Warehouse.nodes)
         IN  /\ (\A d \in Warehouse.nodes : PartitionsOf[d] > 0) =>
                  claimed.avoided <= real.avoided /\ claimed.total <= real.total
             /\ claimed.planned + claimed.avoided >= claimed.full
  <1> DEFINE V == Warehouse.nodes
  <1>1. PICK p : p = EstimatePlan(plan)
    OBVIOUS
  <1>2. PICK f, t : f = EstimateFullRebuild(counted) /\ t = SumFunction([d \in V |-> CountOr1(d, counted)])
    OBVIOUS
  <1>3. PICK ff, tt : ff = EstimateFullRebuild(V) /\ tt = SumFunction([d \in V |-> CountOr1(d, V)])
    OBVIOUS
  <1>4. p \in Int
    BY <1>1, PlanIsPriced
  <1>5. f \in Int /\ t \in Int /\ ((\A d \in V : PartitionsOf[d] > 0) => f <= ff /\ t <= tt)
    BY <1>2, <1>3, FullGrows
  <1>6. ff \in Int /\ tt \in Int
    <2>1. V \in SUBSET V
      OBVIOUS
    <2> QED BY <1>3, <2>1, FullGrows
  <1>7. \A a \in Int : Max({0, a}) = IF a > 0 THEN a ELSE 0
    <2> SUFFICES ASSUME NEW a \in Int PROVE Max({0, a}) = IF a > 0 THEN a ELSE 0
      OBVIOUS
    <2>1. PICK x : x = IF a > 0 THEN a ELSE 0
      OBVIOUS
    <2>2. x \in {0, a} /\ \A y \in {0, a} : x >= y
      BY <2>1
    <2>3. Max({0, a}) \in {0, a} /\ \A y \in {0, a} : Max({0, a}) >= y
      BY <2>2 DEF Max
    <2> QED BY <2>1, <2>2, <2>3
  <1>8. PICK s, r : s = Savings(plan, counted) /\ r = Savings(plan, V)
    OBVIOUS
  <1>9. s.planned = p /\ s.full = f /\ s.avoided = Max({0, f - p}) /\ s.total = t
    BY <1>1, <1>2, <1>8 DEF Savings
  <1>10. r.avoided = Max({0, ff - p}) /\ r.total = tt
    BY <1>1, <1>3, <1>8 DEF Savings
  <1>11. s.avoided = (IF f - p > 0 THEN f - p ELSE 0) /\ r.avoided = (IF ff - p > 0 THEN ff - p ELSE 0)
    BY <1>4, <1>5, <1>6, <1>7, <1>9, <1>10
  <1> HIDE DEF V
  <1>12. s.planned + s.avoided >= s.full
    BY <1>4, <1>5, <1>9, <1>11
  <1>13. (\A d \in V : PartitionsOf[d] > 0) => s.avoided <= r.avoided /\ s.total <= r.total
    BY <1>4, <1>5, <1>6, <1>9, <1>10, <1>11
  <1> QED BY <1>8, <1>12, <1>13 DEF V

LEMMA AttributionIsModest ==
  ASSUME NEW c \in Warehouse.nodes
  PROVE  /\ UnusedExpensive(0) \cap Closure(Warehouse, c) \subseteq {c}
         /\ \A a \in Closure(Warehouse, c) : AttributedCost(a) <= AttributedCost(c)
  <1> DEFINE V == Warehouse.nodes
  <1>0. IsLineage(Warehouse) /\ IsFiniteSet(V)
    BY BillingAssumption DEF IsLineage
  <1>1. UnusedExpensive(0) \cap Closure(Warehouse, c) \subseteq {c}
    <2> SUFFICES ASSUME NEW d \in UnusedExpensive(0), d \in Ancestors(Warehouse, c) PROVE FALSE
      BY DEF Closure
    <2>1. d \in V /\ Descendants(Warehouse, d) = {}
      BY DEF UnusedExpensive
    <2>2. c \in Descendants(Warehouse, d)
      BY <1>0, <2>1, AncestorsAndDescendants
    <2> QED BY <2>1, <2>2
  <1>2. ASSUME NEW a \in Closure(Warehouse, c) PROVE AttributedCost(a) <= AttributedCost(c)
    <2>1. PICK S : S = Closure(Warehouse, c)
      OBVIOUS
    <2>2. PICK U : U = Closure(Warehouse, a)
      OBVIOUS
    <2>3. U \in SUBSET S /\ S \subseteq V
      BY <1>0, <1>2, <2>1, <2>2, AncestorsAndDescendants DEF Closure
    <2>4. PICK f : f = [d \in S |-> Unit(d)]
      OBVIOUS
    <2>5. DOMAIN f = S /\ f = [x \in DOMAIN f |-> f[x]] /\ (\A x \in S : f[x] \in Int /\ f[x] >= 0) /\ IsFiniteSet(S)
      BY <1>0, <2>3, <2>4, UnitsAre, FS_Subset
    <2>6. IsSummable(f)
      BY <2>5 DEF IsSummable
    <2>7. SumFunction([x \in U |-> f[x]]) <= SumFunction(f)
      BY <2>3, <2>5, <2>6, SumOfPart
    <2>8. [x \in U |-> f[x]] = [d \in U |-> Unit(d)]
      BY <2>3, <2>4
    <2> QED BY <2>1, <2>2, <2>4, <2>7, <2>8 DEF AttributedCost
  <1> QED BY <1>1, <1>2

\* What was charged in a window: dataset by dataset with what names none, or day by day, it
\* is the whole.
LEMMA ChargesAddUp ==
  ASSUME bills \in Seq(Bill), NEW rows \in SUBSET DOMAIN bills
  PROVE  /\ SumFunction([d \in ChargedTo \ {0} |-> BilledTo(rows, d)]) + TotalBilled(UnattributedBills(rows))
              = TotalBilled(rows)
         /\ SumFunction(ByPeriod(rows)) = TotalBilled(rows)
         /\ \A U \in SUBSET {bills[i].dataset : i \in rows} :
              SumFunction([d \in U |-> BilledTo(rows, d)]) <= TotalBilled(rows)
         /\ TotalBilled(rows) \in Nat
  <1> DEFINE f == [i \in rows |-> bills[i].amount]
             T == ChargedTo \cup {0}
             who == [i \in rows |-> bills[i].dataset]
             when == [i \in rows |-> bills[i].day]
             k == ByClass(f, T, who)
  <1>1. \A i \in rows : bills[i].amount \in Nat /\ bills[i].dataset \in ChargedTo /\ bills[i].day \in Nat
    <2>1. \A i \in rows : bills[i] \in Bill
      BY ElementOfSeq
    <2> QED BY <2>1, BillingAssumption DEF Bill
  <1>2. IsFiniteSet(rows) /\ IsFiniteSet(T)
    <2>1. DOMAIN bills = 1 .. Len(bills) /\ Len(bills) \in Nat
      BY LenProperties
    <2>2. IsFiniteSet(DOMAIN bills)
      BY <2>1, FS_Interval
    <2>3. IsFiniteSet(rows)
      BY <2>2, FS_Subset
    <2> QED BY <2>3, BillingAssumption, FS_AddElement
  <1>3. DOMAIN f = rows /\ f = [x \in DOMAIN f |-> f[x]] /\ \A x \in rows : f[x] \in Int /\ f[x] >= 0
    BY <1>1
  <1>4. IsSummable(f)
    BY <1>2, <1>3 DEF IsSummable
  <1>5. \A S \in SUBSET rows : TotalBilled(S) = SumFunction([x \in S |-> f[x]])
    BY DEF TotalBilled
  <1>6. TotalBilled(rows) = SumFunction(f)
    BY DEF TotalBilled
  <1>7. \A S \in SUBSET rows : TotalBilled(S) \in Int /\ 0 <= TotalBilled(S)
    <2> SUFFICES ASSUME NEW S \in SUBSET rows PROVE TotalBilled(S) \in Int /\ 0 <= TotalBilled(S)
      OBVIOUS
    <2>1. TotalBilled(S) = SumFunction([x \in S |-> f[x]])
      BY <1>5
    <2> HIDE DEF f
    <2>2. S \in SUBSET DOMAIN f
      BY <1>3
    <2> QED BY <1>3, <1>4, <2>1, <2>2, SumOfPart
  <1>8. \A t : ClassOf(f, who, t) \in SUBSET rows /\ BilledTo(rows, t) = TotalBilled(ClassOf(f, who, t))
    <2>1. \A t : ClassOf(f, who, t) = {i \in rows : bills[i].dataset = t}
      BY DEF ClassOf
    <2> HIDE DEF f, who
    <2> QED BY <2>1 DEF BilledTo
  <1>9. DOMAIN k = T /\ k = [x \in DOMAIN k |-> k[x]] /\ \A t \in T : k[t] = BilledTo(rows, t)
    <2>1. k = [t \in T |-> SumFunction([x \in ClassOf(f, who, t) |-> f[x]])]
      BY DEF ByClass
    <2>2. DOMAIN k = T /\ k = [x \in DOMAIN k |-> k[x]]
      <3> HIDE DEF k
      <3> QED BY <2>1
    <2>3. ASSUME NEW t \in T PROVE k[t] = BilledTo(rows, t)
      <3>1. k[t] = SumFunction([x \in ClassOf(f, who, t) |-> f[x]])
        BY <2>1
      <3> HIDE DEF f, who, k
      <3> QED BY <1>5, <1>8, <3>1
    <2> QED BY <2>2, <2>3
  <1>10. IsSummable(k) /\ SumFunction(k) = SumFunction(f)
    <2>1. \A x \in DOMAIN f : who[x] \in T
      BY <1>1
    <2> HIDE DEF f, who, T
    <2> QED BY <1>2, <1>3, <1>4, <2>1, SumByClass
  <1>11. DOMAIN k = T /\ k = [x \in DOMAIN k |-> k[x]] /\ \A t \in T : k[t] \in Int /\ k[t] >= 0
    <2> HIDE DEF f, who, k, T
    <2> QED BY <1>7, <1>8, <1>9
  <1>12. UnattributedBills(rows) = ClassOf(f, who, 0)
    BY DEF UnattributedBills, ClassOf
  <1>13. k[0] = TotalBilled(UnattributedBills(rows))
    <2>1. 0 \in T
      OBVIOUS
    <2> QED BY <1>8, <1>9, <1>12, <2>1
  <1>14. SumFunction(ByPeriod(rows)) = TotalBilled(rows)
    <2>1. PICK E : E = {when[i] : i \in rows}
      OBVIOUS
    <2>2. IsFiniteSet(E) /\ \A x \in DOMAIN f : when[x] \in E
      <3>1. DOMAIN when = rows
        OBVIOUS
      <3> HIDE DEF when
      <3> QED BY <1>2, <1>3, <2>1, <3>1, ImageIsFinite
    <2>3. SumFunction(ByClass(f, E, when)) = SumFunction(f)
      <3> HIDE DEF f, when
      <3> QED BY <1>3, <1>4, <2>2, SumByClass
    <2>4. ByPeriod(rows) = ByClass(f, E, when)
      <3>1. {bills[i].day : i \in rows} = E
        BY <2>1
      <3>2. \A t : {i \in rows : bills[i].day = t} = ClassOf(f, when, t)
        BY DEF ClassOf
      <3>3. ASSUME NEW t PROVE TotalBilled({i \in rows : bills[i].day = t}) = SumFunction([x \in ClassOf(f, when, t) |-> f[x]])
        <4>1. PICK S \in SUBSET rows : S = {i \in rows : bills[i].day = t}
          OBVIOUS
        <4>2. S = ClassOf(f, when, t)
          BY <3>2, <4>1
        <4>3. TotalBilled(S) = SumFunction([x \in S |-> f[x]])
          BY <1>5
        <4> HIDE DEF f, when
        <4> QED BY <4>1, <4>2, <4>3
      <3>4. ByPeriod(rows) = [t \in E |-> TotalBilled({i \in rows : bills[i].day = t})]
        BY <3>1 DEF ByPeriod
      <3> HIDE DEF f, when
      <3>5. ByPeriod(rows) = [t \in E |-> SumFunction([x \in ClassOf(f, when, t) |-> f[x]])]
        BY <3>3, <3>4
      <3> QED BY <3>5 DEF ByClass
    <2> QED BY <1>6, <2>3, <2>4
  <1> HIDE DEF f, k, T, who
  <1>15. PICK g : AddsAll(g, k)
    BY <1>10, SumsAdd
  <1>16. SumFunction([d \in ChargedTo \ {0} |-> BilledTo(rows, d)]) + k[0] = SumFunction(k)
    <2>1. PICK U : U = T \ {0}
      OBVIOUS
    <2>2. 0 \in T /\ T \in SUBSET T /\ U \in SUBSET T /\ U = ChargedTo \ {0}
      BY <2>1 DEF T
    <2>3. g[T] = k[0] + g[U] /\ g[U] \in Int
      BY <1>11, <1>15, <2>1, <2>2 DEF AddsAll
    <2>4. SumFunction([x \in U |-> k[x]]) = g[U] /\ SumFunction(k) = g[T]
      BY <1>11, <1>15, <2>2, SumIs DEF AddsAll
    <2>5. [x \in U |-> k[x]] = [d \in U |-> BilledTo(rows, d)]
      BY <1>9, <2>2
    <2>6. k[0] \in Int
      BY <1>11, <2>2
    <2> QED BY <2>2, <2>3, <2>4, <2>5, <2>6
  <1>17. ASSUME NEW U \in SUBSET {bills[i].dataset : i \in rows}
         PROVE  SumFunction([d \in U |-> BilledTo(rows, d)]) <= TotalBilled(rows)
    <2>1. U \in SUBSET T
      BY <1>1, <1>17 DEF T
    <2>2. SumFunction([x \in U |-> k[x]]) <= SumFunction(k)
      BY <1>10, <1>11, <2>1, SumOfPart
    <2>3. [x \in U |-> k[x]] = [d \in U |-> BilledTo(rows, d)]
      BY <1>9, <2>1
    <2> QED BY <1>6, <1>10, <2>2, <2>3
  <1>18. TotalBilled(rows) \in Nat
    BY <1>7
  <1> QED BY <1>6, <1>10, <1>13, <1>14, <1>16, <1>17, <1>18

LEMMA SavingsFromInv == BillingInv => SavingsAreModest
  <1> SUFFICES ASSUME BillingInv PROVE SavingsAreModest
    OBVIOUS
  <1>1. ASSUME NEW start \in 1 .. LastBillingDay, NEW end \in 1 .. LastBillingDay
        PROVE  LET rows == InBillingWindow(bills, start, end)  result == ReconcileWindow(start, end)
               IN  /\ SumFunction([d \in ChargedTo \ {0} |-> BilledTo(rows, d)]) + TotalBilled(UnattributedBills(rows))
                        = result.billed
                   /\ SumFunction(ByPeriod(rows)) = result.billed
                   /\ SumFunction([d \in DOMAIN result.perDataset |-> result.perDataset[d][2]]) <= result.billed
    <2>1. PICK rows \in SUBSET DOMAIN bills : rows = InBillingWindow(bills, start, end)
      BY DEF InBillingWindow
    <2>2. PICK result : result = ReconcileWindow(start, end)
      OBVIOUS
    <2>3. result.billed = TotalBilled(rows)
      BY <2>1, <2>2 DEF ReconcileWindow, Reconcile
    <2>4. DOMAIN result.perDataset \in SUBSET {bills[i].dataset : i \in rows}
          /\ \A d \in DOMAIN result.perDataset : result.perDataset[d][2] = BilledTo(rows, d)
      BY <2>1, <2>2 DEF ReconcileWindow, Reconcile
    <2>5. PICK U : U = DOMAIN result.perDataset
      OBVIOUS
    <2>6. [d \in U |-> result.perDataset[d][2]] = [d \in U |-> BilledTo(rows, d)] /\ U \in SUBSET {bills[i].dataset : i \in rows}
      BY <2>4, <2>5
    <2>7. bills \in Seq(Bill)
      BY DEF BillingInv
    <2>8. SumFunction([d \in U |-> BilledTo(rows, d)]) <= TotalBilled(rows)
      BY <2>6, <2>7, ChargesAddUp
    <2>9. /\ SumFunction([d \in ChargedTo \ {0} |-> BilledTo(rows, d)]) + TotalBilled(UnattributedBills(rows)) = TotalBilled(rows)
          /\ SumFunction(ByPeriod(rows)) = TotalBilled(rows)
      BY <2>7, ChargesAddUp
    <2> QED BY <2>1, <2>2, <2>3, <2>5, <2>6, <2>8, <2>9
  <1>2. counted \subseteq Warehouse.nodes
    BY DEF BillingInv
  <1> QED BY <1>1, <1>2, SavingsFromTypes, AttributionIsModest DEF SavingsAreModest

LEMMA BillingInvInit == BillingInit => BillingInv
  BY EmptySeq DEF BillingInit, BillingInv

LEMMA WindowsAreSummable ==
  ASSUME BillingInv, NEW start, NEW end
  PROVE  UnitsIn(start, end) \in Int
  <1> DEFINE W == InBillingWindow(priced, start, end)
             f == [i \in W |-> EstimatePlan(priced[i].plan)]
  <1>1. priced \in Seq([day : Nat, plan : PricedPlans])
    BY DEF BillingInv
  <1>2. DOMAIN priced = 1 .. Len(priced) /\ Len(priced) \in Nat /\ \A i \in DOMAIN priced : priced[i].plan \in PricedPlans
    <2>1. DOMAIN priced = 1 .. Len(priced) /\ Len(priced) \in Nat
      BY <1>1, LenProperties
    <2>2. \A i \in 1 .. Len(priced) : priced[i] \in [day : Nat, plan : PricedPlans]
      BY <1>1, ElementOfSeq
    <2> QED BY <2>1, <2>2
  <1>3. IsFiniteSet(W) /\ W \subseteq DOMAIN priced
    <2>1. W \in SUBSET DOMAIN priced
      BY DEF InBillingWindow
    <2>2. IsFiniteSet(DOMAIN priced)
      BY <1>2, FS_Interval
    <2> HIDE DEF W
    <2> QED BY <2>1, <2>2, FS_Subset
  <1>4. DOMAIN f = W /\ f = [x \in W |-> f[x]] /\ \A x \in W : f[x] \in Int /\ f[x] <= f[x]
    BY <1>2, <1>3, PlanIsPriced
  <1> HIDE DEF f
  <1>5. IsSummable(f)
    BY <1>3, <1>4 DEF IsSummable
  <1>6. SumFunction(f) \in Int
    BY <1>4, <1>5, SumInOrder
  <1> QED BY <1>6 DEF UnitsIn, f

LEMMA BilledIsNumber ==
  ASSUME BillingInv, NEW start, NEW end
  PROVE  TotalBilled(InBillingWindow(bills, start, end)) \in Nat
  <1>1. PICK rows \in SUBSET DOMAIN bills : rows = InBillingWindow(bills, start, end)
    BY DEF InBillingWindow
  <1> QED BY <1>1, ChargesAddUp DEF BillingInv

LEMMA BillingInvStep == BillingInv /\ (BillingNext \/ UNCHANGED billingVars) => BillingInv'
  <1> SUFFICES ASSUME BillingInv, BillingNext \/ UNCHANGED billingVars PROVE BillingInv'
    OBVIOUS
  <1> USE DEF BillingInv
  <1>1. CASE RunPriced
    <2>1. PICK plan \in PricedPlans : priced' = Append(priced, [day |-> billingDay, plan |-> plan])
          /\ UNCHANGED <<bills, price, calibrations, counted, billingDay>>
      BY <1>1 DEF RunPriced
    <2>2. [day |-> billingDay, plan |-> plan] \in [day : Nat, plan : PricedPlans]
      OBVIOUS
    <2>3. priced' \in Seq([day : Nat, plan : PricedPlans])
      BY <2>1, <2>2, AppendProperties
    <2> QED BY <2>1, <2>3
  <1>2. CASE Charge
    <2>1. PICK amount \in Amounts, d \in ChargedTo :
            bills' = Append(bills, [day |-> billingDay, amount |-> amount, dataset |-> d])
            /\ UNCHANGED <<priced, price, calibrations, counted, billingDay>>
      BY <1>2 DEF Charge
    <2>2. [day |-> billingDay, amount |-> amount, dataset |-> d] \in Bill
      BY DEF Bill
    <2>3. bills' \in Seq(Bill)
      BY <2>1, <2>2, AppendProperties
    <2> QED BY <2>1, <2>3
  <1>3. CASE CountPartitions
    BY <1>3 DEF CountPartitions
  <1>4. CASE Calibrate
    <2>1. PICK start, end \in 1 .. LastBillingDay : price' = Scaled(price, ReconcileWindow(start, end))
          /\ UNCHANGED <<bills, priced, counted, billingDay>>
      BY <1>4 DEF Calibrate
    <2>2. PICK u, b : u = UnitsIn(start, end) /\ b = TotalBilled(InBillingWindow(bills, start, end))
      OBVIOUS
    <2>3. u \in Int /\ b \in Nat
      BY <2>2, WindowsAreSummable, BilledIsNumber
    <2>4. price' = <<price[1] * b * price[2], price[2] * (price[1] * u)>>
      BY <2>1, <2>2 DEF Scaled, ReconcileWindow, Reconcile
    <2>5. PICK p \in Int, q \in Int : price = <<p, q>>
      OBVIOUS
    <2>6. p * b * q \in Int /\ q * (p * u) \in Int
      BY <2>3
    <2> QED BY <2>1, <2>4, <2>5, <2>6
  <1>5. CASE NextBillingDay
    BY <1>5 DEF NextBillingDay
  <1>6. CASE UNCHANGED billingVars
    BY <1>6 DEF billingVars
  <1> QED BY <1>1, <1>2, <1>3, <1>4, <1>5, <1>6 DEF BillingNext

LEMMA CalibrationsMatch ==
  ASSUME BillingInv, BillingNext \/ UNCHANGED billingVars
  PROVE  RatesMatchTheBill
  <1> SUFFICES ASSUME price' # price PROVE RatesMatchTheBill
    BY DEF RatesMatchTheBill
  <1>1. Calibrate
    BY DEF BillingNext, RunPriced, Charge, CountPartitions, NextBillingDay, billingVars
  <1>2. PICK start, end \in 1 .. LastBillingDay :
          MustCalibrate(ReconcileWindow(start, end)) /\ price' = Scaled(price, ReconcileWindow(start, end))
    BY <1>1 DEF Calibrate
  <1>3. PICK u, b : u = UnitsIn(start, end) /\ b = TotalBilled(InBillingWindow(bills, start, end))
    OBVIOUS
  <1>4. u \in Int /\ b \in Nat
    BY <1>3, WindowsAreSummable, BilledIsNumber
  <1>5. PICK p \in Int, q \in Int : price = <<p, q>>
    BY DEF BillingInv
  <1>6. PICK result : result = ReconcileWindow(start, end)
    OBVIOUS
  <1>7. /\ result.modelled = <<p * u, q>> /\ result.billed = b
        /\ result.periods = BilledPeriods(InBillingWindow(bills, start, end))
    BY <1>3, <1>5, <1>6 DEF ReconcileWindow, Reconcile
  <1>8. price' = <<p * b * q, q * (p * u)>>
    BY <1>2, <1>5, <1>6, <1>7 DEF Scaled
  <1>9. price'[1] * u = price'[2] * b
    <2>1. (p * b * q) * u = (q * (p * u)) * b
      BY <1>4
    <2> QED BY <1>8, <2>1
  <1>10. result.periods >= MinPeriods /\ ~Within(<<p * u, q>>, b)
    BY <1>2, <1>6, <1>7 DEF MustCalibrate
  <1>11. PICK rows : rows = {i \in DOMAIN bills : start <= bills[i].day /\ bills[i].day <= end}
    OBVIOUS
  <1>12. InBillingWindow(bills, start, end) = rows
    BY <1>11 DEF InBillingWindow
  <1>13. b = SumFunction([i \in rows |-> bills[i].amount])
    BY <1>3, <1>12 DEF TotalBilled
  <1>14. result.periods = Cardinality({bills[i].day : i \in rows})
    BY <1>7, <1>12 DEF BilledPeriods
  <1>15. PICK ran : ran = {j \in DOMAIN priced : start <= priced[j].day /\ priced[j].day <= end}
    OBVIOUS
  <1>16. u = SumFunction([i \in ran |-> EstimatePlan(priced[i].plan)])
    <2>1. InBillingWindow(priced, start, end) = ran
      BY <1>15 DEF InBillingWindow
    <2> QED BY <1>3, <2>1 DEF UnitsIn
  <1>17. Cardinality({bills[i].day : i \in rows}) >= MinPeriods
    BY <1>10, <1>14
  <1>18. price[1] * u = p * u /\ price[2] = q
    BY <1>5
  <1>19. ~Within(<<price[1] * u, price[2]>>, b)
    BY <1>10, <1>18
  <1> QED BY <1>9, <1>11, <1>13, <1>15, <1>16, <1>17, <1>19 DEF RatesMatchTheBill

(***************************************************************************)
(* Reads and retirement: observe/usage.py, graph/plan/lifetime.py.         *)
(***************************************************************************)
UsageInv ==
  /\ readable \in Readable /\ date \in Nat
  /\ reads \in Seq([dataset : readable.nodes, who : Principals, at : Nat])
  /\ runs \in Seq([dataset : readable.nodes, cost : Costs, at : Nat])

LEMMA UsageInvInit == UsageInit => UsageInv
  BY EmptySeq DEF UsageInit, UsageInv

LEMMA UsageInvStep == UsageInv /\ (UsageNext \/ UNCHANGED usageVars) => UsageInv'
  <1> SUFFICES ASSUME UsageInv, UsageNext \/ UNCHANGED usageVars PROVE UsageInv'
    OBVIOUS
  <1> USE DEF UsageInv
  <1>1. ASSUME NEW d \in readable.nodes, NEW who \in Principals, NEW at \in {date - 1, date}, RecordRead(d, who, at)
        PROVE  UsageInv'
    <2>1. reads' = Append(reads, [dataset |-> d, who |-> who, at |-> at]) /\ at \in Nat /\ UNCHANGED <<readable, runs, date>>
      BY <1>1 DEF RecordRead
    <2>2. [dataset |-> d, who |-> who, at |-> at] \in [dataset : readable.nodes, who : Principals, at : Nat]
      BY <2>1
    <2>3. reads' \in Seq([dataset : readable.nodes, who : Principals, at : Nat])
      BY <2>1, <2>2, AppendProperties
    <2> QED BY <2>1, <2>3
  <1>2. ASSUME NEW d \in readable.nodes, NEW c \in Costs, RecordRun(d, c) PROVE UsageInv'
    <2>1. runs' = Append(runs, [dataset |-> d, cost |-> c, at |-> date]) /\ UNCHANGED <<readable, reads, date>>
      BY <1>2 DEF RecordRun
    <2>2. [dataset |-> d, cost |-> c, at |-> date] \in [dataset : readable.nodes, cost : Costs, at : Nat]
      OBVIOUS
    <2>3. runs' \in Seq([dataset : readable.nodes, cost : Costs, at : Nat])
      BY <2>1, <2>2, AppendProperties
    <2> QED BY <2>1, <2>3
  <1>3. CASE NextDate
    BY <1>3 DEF NextDate
  <1>4. CASE UNCHANGED usageVars
    BY <1>4 DEF usageVars
  <1> QED BY <1>1, <1>2, <1>3, <1>4 DEF UsageNext

LEMMA ReadsAre ==
  ASSUME UsageInv, NEW d
  PROVE  /\ Stats(d).reads \in Nat /\ (Stats(d).reads = 0 <=> ReadsOf(d) = {})
         /\ Stats(d).last \in Int
         /\ \A i \in ReadsOf(d) : /\ reads[i].at \in Nat /\ Stats(d).last >= reads[i].at
                                  /\ reads[i].who \in Stats(d).principals
  <1> DEFINE R == ReadsOf(d)
             at == [i \in R |-> reads[i].at]
             A == {at[i] : i \in R}
  <1>1. R \in SUBSET DOMAIN reads /\ IsFiniteSet(DOMAIN reads) /\ \A i \in R : reads[i].at \in Nat
    <2>1. reads \in Seq([dataset : readable.nodes, who : Principals, at : Nat])
      BY DEF UsageInv
    <2>2. DOMAIN reads = 1 .. Len(reads) /\ Len(reads) \in Nat
      BY <2>1, LenProperties
    <2>3. \A i \in 1 .. Len(reads) : reads[i] \in [dataset : readable.nodes, who : Principals, at : Nat]
      BY <2>1, ElementOfSeq
    <2>4. IsFiniteSet(DOMAIN reads)
      BY <2>2, FS_Interval
    <2>5. R \in SUBSET DOMAIN reads
      BY DEF ReadsOf, InWindow
    <2> QED BY <2>2, <2>3, <2>4, <2>5
  <1>2. IsFiniteSet(R) /\ Cardinality(R) \in Nat /\ (Cardinality(R) = 0 <=> R = {})
    <2> HIDE DEF R
    <2>1. IsFiniteSet(R)
      BY <1>1, FS_Subset
    <2> QED BY <2>1, FS_CardinalityType, FS_EmptySet
  <1>3. DOMAIN at = R /\ A \in SUBSET Nat /\ \A i \in R : reads[i].at \in A
    BY <1>1
  <1>4. {reads[i].at : i \in R} = A
    OBVIOUS
  <1>5. Max({-1} \cup A) \in Int /\ \A a \in A : Max({-1} \cup A) >= a
    <2>1. IsFiniteSet(A)
      <3> HIDE DEF R, at
      <3> QED BY <1>2, <1>3, ImageIsFinite
    <2>2. PICK B : B = {-1} \cup A
      OBVIOUS
    <2> HIDE DEF A
    <2>3. IsFiniteSet(B) /\ B \in SUBSET Int /\ B # {}
      <3>1. B = A \cup {-1}
        BY <2>2
      <3>2. IsFiniteSet(A \cup {-1})
        BY <2>1, FS_AddElement
      <3> QED BY <1>3, <2>2, <3>1, <3>2
    <2>4. Max(B) \in B /\ \A n \in B : Max(B) >= n
      BY <2>3, GreatestIs
    <2> QED BY <2>2, <2>3, <2>4
  <1> HIDE DEF A, at, R
  <1>6. Stats(d) = [reads |-> Cardinality(R), principals |-> {reads[i].who : i \in R}, last |-> Max({-1} \cup A)]
    BY <1>4 DEF Stats, R
  <1>7. Stats(d).reads = Cardinality(R) /\ Stats(d).principals = {reads[i].who : i \in R} /\ Stats(d).last = Max({-1} \cup A)
    BY <1>6
  <1> QED BY <1>1, <1>2, <1>3, <1>5, <1>7 DEF R

LEMMA RetirementFromInv == UsageInv => RetirementSparesWhatFeedsAReader
  <1> SUFFICES ASSUME UsageInv PROVE RetirementSparesWhatFeedsAReader
    OBVIOUS
  <1>0. IsLineage(readable)
    BY UsageAssumption DEF UsageInv
  <1>1. \A i \in DOMAIN reads : reads[i].dataset \in readable.nodes
    <2>1. reads \in Seq([dataset : readable.nodes, who : Principals, at : Nat])
      BY DEF UsageInv
    <2>2. DOMAIN reads = 1 .. Len(reads)
      BY <2>1, LenProperties
    <2>3. \A i \in 1 .. Len(reads) : reads[i] \in [dataset : readable.nodes, who : Principals, at : Nat]
      BY <2>1, ElementOfSeq
    <2> QED BY <2>2, <2>3
  <1>2. ASSUME NEW i \in DOMAIN reads, reads[i].who \notin Scheduled, reads[i].at >= date - ReadWindow
        PROVE  RetirementCandidates(TRUE) \cap Closure(readable, reads[i].dataset) = {}
    <2> SUFFICES ASSUME NEW d \in RetirementCandidates(TRUE), d \in Closure(readable, reads[i].dataset) PROVE FALSE
      OBVIOUS
    <2>1. PICK x : x = reads[i].dataset
      OBVIOUS
    <2>2. x = d \/ x \in Descendants(readable, d)
      <3>1. d \in readable.nodes /\ x \in readable.nodes
        BY <1>1, <2>1 DEF RetirementCandidates
      <3>2. d \in Ancestors(readable, x) \/ x = d
        BY <2>1 DEF Closure
      <3> QED BY <1>0, <3>1, <3>2, AncestorsAndDescendants
    <2>3. ~ReadByAnyone(x, TRUE)
      BY <2>2 DEF RetirementCandidates, ReadersBelow
    <2>4. i \in ReadsOf(x)
      BY <1>2, <2>1 DEF ReadsOf, InWindow
    <2>5. Stats(x).reads > 0 /\ reads[i].who \in Stats(x).principals
      BY <2>4, ReadsAre
    <2> QED BY <1>2, <2>3, <2>5 DEF ReadByAnyone, HumanPrincipals
  <1>3. RetirementCandidates(FALSE) \subseteq RetirementCandidates(TRUE)
    BY DEF RetirementCandidates, ReadByAnyone
  <1>4. RetirementCandidates(FALSE) \subseteq NeverObserved
    <2> SUFFICES ASSUME NEW d \in RetirementCandidates(FALSE) PROVE d \in NeverObserved
      OBVIOUS
    <2>1. d \in readable.nodes /\ ~(Stats(d).reads > 0)
      BY DEF RetirementCandidates, ReadByAnyone
    <2>2. Stats(d).reads \in Nat
      BY ReadsAre
    <2>3. Stats(d).reads = 0
      BY <2>1, <2>2
    <2> QED BY <2>1, <2>3 DEF NeverObserved
  <1>5. ASSUME NEW i \in InWindow, NEW t \in 0 .. reads[i].at
        PROVE  reads[i].dataset \notin UnreadSince(t) \cup NeverObserved
    <2>1. PICK x : x = reads[i].dataset
      OBVIOUS
    <2>2. i \in ReadsOf(x)
      BY <2>1 DEF ReadsOf
    <2>3. /\ Stats(x).reads # 0 /\ reads[i].at \in Nat /\ Stats(x).last \in Int /\ Stats(x).last >= reads[i].at
      BY <2>2, ReadsAre
    <2>4. t \in Int /\ t <= reads[i].at
      BY <2>3
    <2>5. ~(Stats(x).last < t)
      BY <2>3, <2>4
    <2> QED BY <2>1, <2>3, <2>5 DEF UnreadSince, NeverObserved
  <1>6. \A d : IsFiniteSet(RunsOf(d)) /\ Cardinality(RunsOf(d)) \in Nat /\ (Cardinality(RunsOf(d)) = 0 <=> RunsOf(d) = {})
               /\ \A i \in RunsOf(d) : runs[i].at \in Nat
    <2> SUFFICES ASSUME NEW d
                 PROVE  IsFiniteSet(RunsOf(d)) /\ Cardinality(RunsOf(d)) \in Nat /\ (Cardinality(RunsOf(d)) = 0 <=> RunsOf(d) = {})
                        /\ \A i \in RunsOf(d) : runs[i].at \in Nat
      OBVIOUS
    <2>1. runs \in Seq([dataset : readable.nodes, cost : Costs, at : Nat])
      BY DEF UsageInv
    <2>2. DOMAIN runs = 1 .. Len(runs) /\ Len(runs) \in Nat
      BY <2>1, LenProperties
    <2>3. \A i \in 1 .. Len(runs) : runs[i] \in [dataset : readable.nodes, cost : Costs, at : Nat]
      BY <2>1, ElementOfSeq
    <2>4. IsFiniteSet(DOMAIN runs)
      BY <2>2, FS_Interval
    <2>5. RunsOf(d) \in SUBSET DOMAIN runs
      BY DEF RunsOf
    <2>6. PICK R : R = RunsOf(d)
      OBVIOUS
    <2>7. IsFiniteSet(R)
      BY <2>4, <2>5, <2>6, FS_Subset
    <2>8. Cardinality(R) \in Nat /\ (Cardinality(R) = 0 <=> R = {})
      BY <2>7, FS_CardinalityType, FS_EmptySet
    <2> QED BY <2>2, <2>3, <2>5, <2>6, <2>7, <2>8
  <1>7. ASSUME NEW people \in BOOLEAN, NEW d \in Actionable(Value(ReadCounts(people)))
        PROVE  ~ReadByAnyone(d, people) /\ RunsOf(d) # {} /\ Spend(d) >= Threshold
    <2>1. PICK tally : tally = ReadCounts(people)
      OBVIOUS
    <2>2. d \in DOMAIN Value(tally) /\ Value(tally)[d] = "review"
      BY <1>7, <2>1 DEF Actionable
    <2>3. Verdict(d, tally) = "review" /\ d \in DOMAIN tally \cup {x \in readable.nodes : RunsOf(x) # {}}
      BY <2>2 DEF Value
    <2>4. PICK n : n = IF d \in DOMAIN tally THEN tally[d] ELSE 0
      OBVIOUS
    <2>5. Accumulate(d).runs # 0 /\ ~(n > 0) /\ Spend(d) >= Threshold
      BY <2>3, <2>4 DEF Verdict
    <2>6. RunsOf(d) # {}
      BY <1>6, <2>5 DEF Accumulate
    <2>7. d \in readable.nodes
      BY <2>1, <2>3 DEF ReadCounts
    <2>8. ASSUME ReadByAnyone(d, people) PROVE FALSE
      <3>1. Stats(d).reads > 0 /\ (people => HumanPrincipals(Stats(d)) # {})
        BY <2>8 DEF ReadByAnyone
      <3>2. d \in DOMAIN tally /\ tally[d] = Stats(d).reads
        BY <2>1, <2>7, <3>1 DEF ReadCounts
      <3> QED BY <2>4, <2>5, <3>1, <3>2
    <2> QED BY <2>5, <2>6, <2>8
  <1>8. ASSUME NEW d \in readable.nodes, BurnRate(d, 30) >= 0 PROVE Cardinality(RunsOf(d)) > 1
    <2>1. PICK R : R = RunsOf(d)
      OBVIOUS
    <2> DEFINE E == {0} \cup {runs[i].at - runs[j].at : i, j \in R}
    <2>2. \A e : e \in E <=> e = 0 \/ \E i, j \in R : e = runs[i].at - runs[j].at
      OBVIOUS
    <2>3. Accumulate(d).span = Max(E)
      BY <2>1 DEF Accumulate
    <2> HIDE DEF E
    <2>4. Max(E) # 0
      BY <1>8, <2>3 DEF BurnRate
    <2>5. IsFiniteSet(R) /\ \A i \in R : runs[i].at \in Nat
      BY <1>6, <2>1
    <2>6. PICK A : A = {runs[i].at : i \in R}
      OBVIOUS
    <2>7. A \in SUBSET Int /\ IsFiniteSet(A)
      <3>1. PICK at : at = [i \in R |-> runs[i].at]
        OBVIOUS
      <3>2. A = {at[i] : i \in R} /\ R = DOMAIN at
        BY <2>6, <3>1
      <3>3. IsFiniteSet(A)
        BY <2>5, <3>2, ImageIsFinite
      <3> QED BY <2>5, <2>6, <3>3
    <2>8. \E m \in Nat : \A i \in R : runs[i].at <= m
      <3>1. CASE A = {}
        BY <2>6, <3>1
      <3>2. CASE A # {}
        <4>1. PICK m \in A : \A a \in A : a <= m
          BY <2>7, <3>2, FiniteHasGreatest
        <4> QED BY <2>5, <2>6, <4>1
      <3> QED BY <3>1, <3>2
    <2>9. PICK m \in Nat : \A i \in R : runs[i].at <= m
      BY <2>8
    <2>10. E \in SUBSET (-m .. m) /\ E # {}
      BY <2>2, <2>5, <2>9
    <2>11. Max(E) \in E
      <3>1. PICK I : I = -m .. m
        OBVIOUS
      <3>2. IsFiniteSet(I) /\ I \in SUBSET Int
        BY <2>9, <3>1, FS_Interval
      <3>3. IsFiniteSet(E) /\ E \in SUBSET Int
        BY <2>10, <3>1, <3>2, FS_Subset
      <3> QED BY <2>10, <3>3, GreatestIs
    <2>12. PICK i \in R, j \in R : runs[i].at - runs[j].at # 0
      BY <2>2, <2>4, <2>11
    <2>13. i # j
      BY <2>5, <2>12
    <2>14. Cardinality(R) > 1
      <3>1. PICK B : B = {i}
        OBVIOUS
      <3>2. B \in SUBSET R /\ B # R /\ IsFiniteSet(B) /\ Cardinality(B) = 1
        BY <2>12, <2>13, <3>1, FS_Singleton
      <3>3. Cardinality(B) <= Cardinality(R) /\ Cardinality(B) # Cardinality(R)
        BY <2>5, <3>2, FS_Subset
      <3>4. Cardinality(R) \in Nat
        BY <2>5, FS_CardinalityType
      <3> QED BY <3>2, <3>3, <3>4
    <2> QED BY <2>1, <2>14
  <1> QED BY <1>2, <1>3, <1>4, <1>5, <1>7, <1>8 DEF RetirementSparesWhatFeedsAReader

(***************************************************************************)
(* What restrictions carry down: govern/consent.py, govern/licenses.py.    *)
(***************************************************************************)
\* Purposes meet: what every contribution permits.
PurposesJoin == [S \in SUBSET SUBSET Purposes |-> {p \in Purposes : S # {} /\ \A s \in S : p \in s}]
MetPurposes(values) ==
  LET met[j \in 1 .. Len(values)] == IF j = 1 THEN values[1] ELSE met[j - 1] \cap values[j]
  IN  met[Len(values)]
PurposesTurn(g, seeds, d, done) ==
  LET values == Contributions(g, d, done, seeds)
  IN  [x \in DOMAIN done \cup {d} |->
         IF x # d THEN done[x] ELSE IF values = << >> THEN {} ELSE MetPurposes(values)]

LEMMA PurposesMeet ==
  ASSUME NEW vs \in Seq(SUBSET Purposes), vs # << >>
  PROVE  MetPurposes(vs) = PurposesJoin[ToSet(vs)]
  <1>t. PICK T : T = SUBSET Purposes
    OBVIOUS
  <1>j. PICK J : J = PurposesJoin
    OBVIOUS
  <1>c. PICK C : C = [p \in T \X T |-> p[1] \cap p[2]]
    OBVIOUS
  <1>0. \A S \in SUBSET T : J[S] = {p \in Purposes : S # {} /\ \A s \in S : p \in s}
    BY <1>t, <1>j DEF PurposesJoin
  <1>1. Joins(T, C, J)
    <2>1. C \in [T \X T -> T]
      BY <1>t, <1>c
    <2>2. J \in [SUBSET T -> T]
      BY <1>t, <1>j DEF PurposesJoin
    <2>3. ASSUME NEW t \in T PROVE J[{t}] = t
      <3>1. {t} \in SUBSET T /\ {t} # {} /\ t \subseteq Purposes
        BY <1>t
      <3>2. J[{t}] = {p \in Purposes : {t} # {} /\ \A s \in {t} : p \in s}
        BY <1>0, <3>1
      <3> QED BY <3>1, <3>2
    <2>4. ASSUME NEW S \in SUBSET T, NEW t \in T, S # {} PROVE J[S \cup {t}] = C[<<J[S], t>>]
      <3>1. S \cup {t} \in SUBSET T /\ S \cup {t} # {} /\ J[S] \in T
        BY <2>2
      <3>2. C[<<J[S], t>>] = J[S] \cap t
        BY <1>c, <3>1
      <3>3. J[S \cup {t}] = {p \in Purposes : \A s \in S \cup {t} : p \in s}
        BY <1>0, <3>1
      <3>4. J[S] = {p \in Purposes : \A s \in S : p \in s}
        BY <1>0, <2>4
      <3>5. {p \in Purposes : \A s \in S \cup {t} : p \in s} = {p \in Purposes : \A s \in S : p \in s} \cap t
        BY <1>t
      <3> QED BY <3>2, <3>3, <3>4, <3>5
    <2> QED BY <2>1, <2>2, <2>3, <2>4 DEF Joins
  <1>2. vs \in Seq(T)
    BY <1>t
  <1>n. PICK n : n = Len(vs)
    OBVIOUS
  <1>3. n \in Nat /\ n >= 1 /\ \A i \in 1 .. n : vs[i] \in T
    BY <1>2, <1>n
  <1>k. PICK k \in [1 .. n -> T] : CombinedIn(k, C, vs) /\ k[n] = J[ToSet(vs)]
    BY <1>1, <1>2, <1>n, JoinedInTurn
  <1> DEFINE Meets(h) == h = [j \in 1 .. n |-> IF j = 1 THEN vs[1] ELSE h[j - 1] \cap vs[j]]
             met == CHOOSE h : Meets(h)
  <1>4. Meets(k)
    <2>1. ASSUME NEW j \in 1 .. n PROVE k[j] = IF j = 1 THEN vs[1] ELSE k[j - 1] \cap vs[j]
      <3>1. CASE j = 1
        BY <1>k, <3>1 DEF CombinedIn
      <3>2. CASE j # 1
        <4>1. j \in 2 .. n /\ j - 1 \in 1 .. n
          BY <1>3, <3>2
        <4>2. k[j] = C[<<k[j - 1], vs[j]>>]
          BY <1>k, <1>n, <4>1 DEF CombinedIn
        <4>3. k[j - 1] \in T /\ vs[j] \in T
          BY <1>3, <1>k, <4>1
        <4>4. C[<<k[j - 1], vs[j]>>] = k[j - 1] \cap vs[j]
          BY <1>c, <4>3
        <4> QED BY <3>2, <4>2, <4>4
      <3> QED BY <3>1, <3>2
    <2> QED BY <1>k, <2>1
  <1>5. Meets(met)
    <2> HIDE DEF Meets
    <2> QED BY <1>4
  <1>6. MetPurposes(vs) = met[n]
    BY <1>n DEF MetPurposes
  <1> HIDE DEF met
  <1> DEFINE Q == {i \in 0 .. n : i # 0 => met[i] = k[i]}
  <1>7. 0 \in Q
    BY <1>3
  <1>8. ASSUME NEW i \in 0 .. n, i + 1 \in 0 .. n, i \in Q PROVE i + 1 \in Q
    <2>1. i + 1 \in 1 .. n /\ (i + 1) - 1 = i
      BY <1>3, <1>8
    <2>2. /\ met[i + 1] = IF i + 1 = 1 THEN vs[1] ELSE met[i] \cap vs[i + 1]
          /\ k[i + 1] = IF i + 1 = 1 THEN vs[1] ELSE k[i] \cap vs[i + 1]
      <3>1. \A h : Meets(h) => h[i + 1] = IF i + 1 = 1 THEN vs[1] ELSE h[i] \cap vs[i + 1]
        BY <2>1
      <3> HIDE DEF Meets
      <3> QED BY <1>4, <1>5, <3>1
    <2>3. i + 1 # 1 => i # 0
      OBVIOUS
    <2> HIDE DEF Meets
    <2> QED BY <1>8, <2>2, <2>3
  <1>9. \A i \in 0 .. n : i \in Q
    <2> HIDE DEF Q
    <2> QED BY <1>3, <1>7, <1>8, UpTo
  <1>10. met[n] = k[n]
    BY <1>3, <1>9
  <1> QED BY <1>6, <1>10, <1>k, <1>j

LEMMA PurposesFlow ==
  ASSUME NEW g, IsLineage(g), NEW seeds \in Partials(g.nodes, SUBSET Purposes)
  PROVE  \E m : /\ KahnsOrder(g, TopologicalOrder(g), m)
                /\ IsFlow(g, PurposesJoin, seeds, TopologicalOrder(g), Len(TopologicalOrder(g)),
                          FoldDownstream(g, seeds, LAMBDA a, b : a \cap b, {}))
  <1>o. PICK order : order = TopologicalOrder(g)
    OBVIOUS
  <1>n. PICK N : N = Len(order)
    OBVIOUS
  <1>t. PICK T : T = SUBSET Purposes
    OBVIOUS
  <1>j. PICK J : J = PurposesJoin
    OBVIOUS
  <1>m. PICK m : KahnsOrder(g, order, m)
    BY <1>o, OrderIsKahns
  <1>1. order \in Seq(g.nodes) /\ (\A i, j \in 1 .. N : order[i] = order[j] => i = j)
        /\ N \in Nat /\ \A i \in 1 .. N : order[i] \in g.nodes
    BY <1>m, <1>n DEF KahnsOrder
  <1>2. J \in [SUBSET T -> T] /\ seeds \in Partials(g.nodes, T)
    BY <1>t, <1>j DEF PurposesJoin
  <1>f. PICK f \in [0 .. N -> Partials(g.nodes, T)] :
          FlowsIn(f, g, J, seeds, order) /\ IsFlow(g, J, seeds, order, N, f[N])
    BY <1>1, <1>2, <1>n, FlowsExist
  <1> DEFINE Runs(h) == h = [i \in 0 .. N |-> IF i = 0 THEN << >> ELSE PurposesTurn(g, seeds, order[i], h[i - 1])]
             after1 == CHOOSE h : Runs(h)
  <1>3. FoldDownstream(g, seeds, LAMBDA a, b : a \cap b, {}) = after1[N]
    BY <1>o, <1>n DEF FoldDownstream, PurposesTurn, MetPurposes
  <1>4. ASSUME NEW i \in 1 .. N PROVE f[i] = PurposesTurn(g, seeds, order[i], f[i - 1])
    <2>1. i - 1 \in 0 .. N /\ f[i] = FlowTurn(g, J, seeds, order[i], f[i - 1])
      BY <1>1, <1>f, <1>n DEF FlowsIn
    <2>d. PICK done \in Partials(g.nodes, T) : done = f[i - 1]
      BY <1>f, <2>1
    <2>e. PICK d : d = order[i]
      OBVIOUS
    <2>v. PICK vs : vs = Contributions(g, d, done, seeds)
      OBVIOUS
    <2>2. vs \in Seq(T) /\ ToSet(vs) = Given(g, d, done, seeds)
      BY <1>2, <2>v, ContributionsAre
    <2>3. CASE vs = << >>
      <3>1. Given(g, d, done, seeds) = {}
        BY <2>2, <2>3 DEF ToSet
      <3>2. {} \in SUBSET SUBSET Purposes
        OBVIOUS
      <3>3. J[Given(g, d, done, seeds)] = {}
        BY <1>j, <3>1, <3>2 DEF PurposesJoin
      <3> QED BY <2>1, <2>d, <2>e, <2>v, <2>3, <3>3 DEF FlowTurn, PurposesTurn
    <2>4. CASE vs # << >>
      <3>1. MetPurposes(vs) = J[Given(g, d, done, seeds)]
        BY <1>t, <1>j, <2>2, <2>4, PurposesMeet
      <3> QED BY <2>1, <2>d, <2>e, <2>v, <2>4, <3>1 DEF FlowTurn, PurposesTurn
    <2> QED BY <2>3, <2>4
  <1>5. Runs(f)
    <2>1. f[0] = << >>
      BY <1>f DEF FlowsIn
    <2> QED BY <1>1, <1>4, <1>f, <2>1
  <1>6. Runs(after1)
    <2> HIDE DEF Runs
    <2> QED BY <1>5
  <1> HIDE DEF after1
  <1> DEFINE Q == {i \in 0 .. N : after1[i] = f[i]}
  <1>7. 0 \in Q
    <2>1. \A h : Runs(h) => h[0] = << >>
      BY <1>1
    <2> HIDE DEF Runs
    <2> QED BY <1>1, <1>5, <1>6, <2>1
  <1>8. ASSUME NEW i \in 0 .. N, i + 1 \in 0 .. N, i \in Q PROVE i + 1 \in Q
    <2>1. \A h : Runs(h) => h[i + 1] = PurposesTurn(g, seeds, order[i + 1], h[i])
      <3>1. i + 1 \in 0 .. N /\ i + 1 # 0 /\ (i + 1) - 1 = i
        BY <1>1, <1>8
      <3>2. ASSUME NEW h, Runs(h) PROVE h[i + 1] = PurposesTurn(g, seeds, order[i + 1], h[(i + 1) - 1])
        BY <3>1, <3>2
      <3> HIDE DEF Runs
      <3> QED BY <3>1, <3>2
    <2> HIDE DEF Runs
    <2> QED BY <1>5, <1>6, <1>8, <2>1
  <1>9. \A i \in 0 .. N : i \in Q
    <2> HIDE DEF Q
    <2> QED BY <1>1, <1>7, <1>8, UpTo
  <1>10. after1[N] = f[N]
    BY <1>1, <1>9
  <1> QED BY <1>3, <1>10, <1>f, <1>j, <1>m, <1>n, <1>o

\* Licences combine: a term is as strict as the strictest, and a duty of one is a duty of all.
IsCombined(l, S) ==
  /\ l \in LicenseInfos
  /\ l.commercial = "no" <=> \E s \in S : s.commercial = "no"
  /\ l.commercial = "yes" <=> \A s \in S : s.commercial = "yes"
  /\ l.derivatives = "no" <=> \E s \in S : s.derivatives = "no"
  /\ l.derivatives = "yes" <=> \A s \in S : s.derivatives = "yes"
  /\ l.mining = "no" <=> \E s \in S : s.mining = "no"
  /\ l.mining = "yes" <=> \A s \in S : s.mining = "yes"
  /\ l.shareAlike <=> \E s \in S : s.shareAlike
  /\ l.attribution <=> \E s \in S : s.attribution

LEMMA StrictestIs ==
  ASSUME NEW X \in SUBSET Permissions, X # {}
  PROVE  /\ Strictest(X) \in Permissions
         /\ Strictest(X) = "no" <=> "no" \in X
         /\ Strictest(X) = "yes" <=> \A t \in X : t = "yes"
  BY DEF Strictest, Permissions

LEMMA CombinedIs ==
  ASSUME NEW S \in SUBSET LicenseInfos, S # {}
  PROVE  IsCombined(CombineLicenses(S), S)
  <1>l. PICK l : l = CombineLicenses(S)
    OBVIOUS
  <1>c. PICK X : X = {s.commercial : s \in S}
    OBVIOUS
  <1>d. PICK Y : Y = {s.derivatives : s \in S}
    OBVIOUS
  <1>m. PICK Z : Z = {s.mining : s \in S}
    OBVIOUS
  <1>1. /\ X \in SUBSET Permissions /\ Y \in SUBSET Permissions /\ Z \in SUBSET Permissions
        /\ X # {} /\ Y # {} /\ Z # {}
    BY <1>c, <1>d, <1>m DEF LicenseInfos
  <1>2. l = [commercial |-> Strictest(X), derivatives |-> Strictest(Y), shareAlike |-> \E s \in S : s.shareAlike,
             attribution |-> \E s \in S : s.attribution, mining |-> Strictest(Z)]
    BY <1>l, <1>c, <1>d, <1>m DEF CombineLicenses
  <1>3. /\ Strictest(X) \in Permissions /\ (Strictest(X) = "no" <=> "no" \in X)
        /\ Strictest(X) = "yes" <=> \A t \in X : t = "yes"
    BY <1>1, StrictestIs
  <1>4. /\ Strictest(Y) \in Permissions /\ (Strictest(Y) = "no" <=> "no" \in Y)
        /\ Strictest(Y) = "yes" <=> \A t \in Y : t = "yes"
    BY <1>1, StrictestIs
  <1>5. /\ Strictest(Z) \in Permissions /\ (Strictest(Z) = "no" <=> "no" \in Z)
        /\ Strictest(Z) = "yes" <=> \A t \in Z : t = "yes"
    BY <1>1, StrictestIs
  <1>6. l \in LicenseInfos
    BY <1>2, <1>3, <1>4, <1>5 DEF LicenseInfos
  <1>7. /\ l.commercial = "no" <=> \E s \in S : s.commercial = "no"
        /\ l.commercial = "yes" <=> \A s \in S : s.commercial = "yes"
    BY <1>2, <1>3, <1>c
  <1>8. /\ l.derivatives = "no" <=> \E s \in S : s.derivatives = "no"
        /\ l.derivatives = "yes" <=> \A s \in S : s.derivatives = "yes"
    BY <1>2, <1>4, <1>d
  <1>9. /\ l.mining = "no" <=> \E s \in S : s.mining = "no"
        /\ l.mining = "yes" <=> \A s \in S : s.mining = "yes"
    BY <1>2, <1>5, <1>m
  <1>10. (l.shareAlike <=> \E s \in S : s.shareAlike) /\ (l.attribution <=> \E s \in S : s.attribution)
    BY <1>2
  <1> QED BY <1>6, <1>7, <1>8, <1>9, <1>10, <1>l DEF IsCombined

LEMMA CombinedOnce ==
  ASSUME NEW S, NEW l, NEW k, IsCombined(l, S), IsCombined(k, S)
  PROVE  l = k
  <1>1. l \in LicenseInfos /\ k \in LicenseInfos
    BY DEF IsCombined
  <1>2. l.commercial = k.commercial /\ l.derivatives = k.derivatives /\ l.mining = k.mining
    BY DEF IsCombined, LicenseInfos, Permissions
  <1>3. l.shareAlike = k.shareAlike
    <2>1. l.shareAlike \in BOOLEAN /\ k.shareAlike \in BOOLEAN /\ (l.shareAlike <=> k.shareAlike)
      BY <1>1 DEF IsCombined, LicenseInfos
    <2> QED BY <2>1
  <1>4. l.attribution = k.attribution
    <2>1. l.attribution \in BOOLEAN /\ k.attribution \in BOOLEAN /\ (l.attribution <=> k.attribution)
      BY <1>1 DEF IsCombined, LicenseInfos
    <2> QED BY <2>1
  <1> QED BY <1>1, <1>2, <1>3, <1>4 DEF LicenseInfos

\* Combining combinations combines all.
LEMMA CombinedOfCombined ==
  ASSUME NEW I, NEW w, NEW part, NEW S, NEW P, NEW l, IsCombined(l, S), S = {w[q] : q \in I},
         \A q \in I : IsCombined(w[q], part[q]), P = UNION {part[q] : q \in I}
  PROVE  IsCombined(l, P)
  <1>1. \A x : x \in P <=> \E q \in I : x \in part[q]
    OBVIOUS
  <1>2. \A q \in I : /\ w[q].commercial = "no" <=> \E x \in part[q] : x.commercial = "no"
                     /\ w[q].commercial = "yes" <=> \A x \in part[q] : x.commercial = "yes"
                     /\ w[q].derivatives = "no" <=> \E x \in part[q] : x.derivatives = "no"
                     /\ w[q].derivatives = "yes" <=> \A x \in part[q] : x.derivatives = "yes"
                     /\ w[q].mining = "no" <=> \E x \in part[q] : x.mining = "no"
                     /\ w[q].mining = "yes" <=> \A x \in part[q] : x.mining = "yes"
                     /\ w[q].shareAlike <=> \E x \in part[q] : x.shareAlike
                     /\ w[q].attribution <=> \E x \in part[q] : x.attribution
    BY DEF IsCombined
  <1>3. /\ l.commercial = "no" <=> \E x \in P : x.commercial = "no"
        /\ l.commercial = "yes" <=> \A x \in P : x.commercial = "yes"
    BY <1>1, <1>2 DEF IsCombined
  <1>4. /\ l.derivatives = "no" <=> \E x \in P : x.derivatives = "no"
        /\ l.derivatives = "yes" <=> \A x \in P : x.derivatives = "yes"
    BY <1>1, <1>2 DEF IsCombined
  <1>5. /\ l.mining = "no" <=> \E x \in P : x.mining = "no"
        /\ l.mining = "yes" <=> \A x \in P : x.mining = "yes"
    BY <1>1, <1>2 DEF IsCombined
  <1>6. (l.shareAlike <=> \E x \in P : x.shareAlike) /\ (l.attribution <=> \E x \in P : x.attribution)
    BY <1>1, <1>2 DEF IsCombined
  <1> QED BY <1>3, <1>4, <1>5, <1>6 DEF IsCombined

LEMMA CombinedWithOne ==
  ASSUME NEW S, NEW t \in LicenseInfos, NEW k, NEW l, IsCombined(k, S), IsCombined(l, {k, t})
  PROVE  IsCombined(l, S \cup {t})
  <1>1. /\ l.commercial = "no" <=> \E x \in S \cup {t} : x.commercial = "no"
        /\ l.commercial = "yes" <=> \A x \in S \cup {t} : x.commercial = "yes"
    BY DEF IsCombined
  <1>2. /\ l.derivatives = "no" <=> \E x \in S \cup {t} : x.derivatives = "no"
        /\ l.derivatives = "yes" <=> \A x \in S \cup {t} : x.derivatives = "yes"
    BY DEF IsCombined
  <1>3. /\ l.mining = "no" <=> \E x \in S \cup {t} : x.mining = "no"
        /\ l.mining = "yes" <=> \A x \in S \cup {t} : x.mining = "yes"
    BY DEF IsCombined
  <1>4. (l.shareAlike <=> \E x \in S \cup {t} : x.shareAlike) /\ (l.attribution <=> \E x \in S \cup {t} : x.attribution)
    BY DEF IsCombined
  <1> QED BY <1>1, <1>2, <1>3, <1>4 DEF IsCombined

LEMMA CombinedOfOne ==
  ASSUME NEW t \in LicenseInfos
  PROVE  IsCombined(t, {t})
  BY DEF IsCombined, LicenseInfos, Permissions

LEMMA CombinedIsOne ==
  ASSUME NEW S \in SUBSET LicenseInfos
  PROVE  CombineLicenses(S) \in LicenseInfos
  <1>1. CASE S = {}
    BY <1>1 DEF CombineLicenses, UnknownLicense, LicenseInfos, Permissions
  <1>2. CASE S # {}
    BY <1>2, CombinedIs DEF IsCombined
  <1> QED BY <1>1, <1>2

LicensesJoin == [S \in SUBSET LicenseInfos |-> CombineLicenses(S)]
MetLicenses(values) ==
  LET met[j \in 1 .. Len(values)] == IF j = 1 THEN values[1] ELSE CombineLicenses({met[j - 1], values[j]})
  IN  met[Len(values)]
LicensesTurn(g, seeds, d, done) ==
  LET values == Contributions(g, d, done, seeds)
  IN  [x \in DOMAIN done \cup {d} |->
         IF x # d THEN done[x] ELSE IF values = << >> THEN UnknownLicense ELSE MetLicenses(values)]

LEMMA LicensesMeet ==
  ASSUME NEW vs \in Seq(LicenseInfos), vs # << >>
  PROVE  MetLicenses(vs) = LicensesJoin[ToSet(vs)]
  <1>t. PICK T : T = LicenseInfos
    OBVIOUS
  <1>j. PICK J : J = LicensesJoin
    OBVIOUS
  <1>c. PICK C : C = [p \in T \X T |-> CombineLicenses({p[1], p[2]})]
    OBVIOUS
  <1>1. Joins(T, C, J)
    <2>0. \A a, b \in T : CombineLicenses({a, b}) \in T
      BY <1>t, CombinedIsOne
    <2>1. C \in [T \X T -> T]
      BY <2>0, <1>c
    <2>2. J \in [SUBSET T -> T]
      BY <1>t, <1>j, CombinedIsOne DEF LicensesJoin
    <2>3. ASSUME NEW t \in T PROVE J[{t}] = t
      <3>1. {t} \in SUBSET LicenseInfos /\ {t} # {} /\ t \in LicenseInfos
        BY <1>t
      <3>2. IsCombined(CombineLicenses({t}), {t}) /\ IsCombined(t, {t})
        BY <3>1, CombinedIs, CombinedOfOne
      <3>3. CombineLicenses({t}) = t
        BY <3>2, CombinedOnce
      <3> QED BY <1>j, <3>1, <3>3 DEF LicensesJoin
    <2>4. ASSUME NEW S \in SUBSET T, NEW t \in T, S # {} PROVE J[S \cup {t}] = C[<<J[S], t>>]
      <3>k. PICK k : k = CombineLicenses(S)
        OBVIOUS
      <3>l. PICK l : l = CombineLicenses({k, t})
        OBVIOUS
      <3>1. S \cup {t} \in SUBSET LicenseInfos /\ S \in SUBSET LicenseInfos /\ S \cup {t} # {} /\ t \in LicenseInfos
        BY <1>t
      <3>2. J[S] = k /\ J[S \cup {t}] = CombineLicenses(S \cup {t})
        BY <1>j, <3>k, <3>1 DEF LicensesJoin
      <3>3. k \in T /\ IsCombined(k, S)
        BY <1>t, <2>4, <3>1, <3>k, CombinedIs, CombinedIsOne
      <3>4. {k, t} \in SUBSET LicenseInfos /\ {k, t} # {}
        BY <1>t, <3>1, <3>3
      <3>5. IsCombined(l, {k, t})
        BY <3>4, <3>l, CombinedIs
      <3>6. IsCombined(l, S \cup {t})
        BY <3>1, <3>3, <3>5, CombinedWithOne
      <3>7. IsCombined(CombineLicenses(S \cup {t}), S \cup {t})
        BY <3>1, CombinedIs
      <3>8. CombineLicenses(S \cup {t}) = l
        BY <3>6, <3>7, CombinedOnce
      <3>9. C[<<k, t>>] = l
        BY <1>c, <3>3, <3>l
      <3> QED BY <3>2, <3>8, <3>9
    <2> QED BY <2>1, <2>2, <2>3, <2>4 DEF Joins
  <1>2. vs \in Seq(T)
    BY <1>t
  <1>n. PICK n : n = Len(vs)
    OBVIOUS
  <1>3. n \in Nat /\ n >= 1 /\ \A i \in 1 .. n : vs[i] \in T
    BY <1>2, <1>n
  <1>k. PICK k \in [1 .. n -> T] : CombinedIn(k, C, vs) /\ k[n] = J[ToSet(vs)]
    BY <1>1, <1>2, <1>n, JoinedInTurn
  <1> DEFINE Meets(h) == h = [j \in 1 .. n |-> IF j = 1 THEN vs[1] ELSE CombineLicenses({h[j - 1], vs[j]})]
             met == CHOOSE h : Meets(h)
  <1>4. Meets(k)
    <2>1. ASSUME NEW j \in 1 .. n PROVE k[j] = IF j = 1 THEN vs[1] ELSE CombineLicenses({k[j - 1], vs[j]})
      <3>1. CASE j = 1
        BY <1>k, <3>1 DEF CombinedIn
      <3>2. CASE j # 1
        <4>1. j \in 2 .. n /\ j - 1 \in 1 .. n
          BY <1>3, <3>2
        <4>2. k[j] = C[<<k[j - 1], vs[j]>>]
          BY <1>k, <1>n, <4>1 DEF CombinedIn
        <4>3. k[j - 1] \in T /\ vs[j] \in T
          BY <1>3, <1>k, <4>1
        <4>4. C[<<k[j - 1], vs[j]>>] = CombineLicenses({k[j - 1], vs[j]})
          BY <1>c, <4>3
        <4> QED BY <3>2, <4>2, <4>4
      <3> QED BY <3>1, <3>2
    <2> QED BY <1>k, <2>1
  <1>5. Meets(met)
    <2> HIDE DEF Meets
    <2> QED BY <1>4
  <1>6. MetLicenses(vs) = met[n]
    BY <1>n DEF MetLicenses
  <1> HIDE DEF met
  <1> DEFINE Q == {i \in 0 .. n : i # 0 => met[i] = k[i]}
  <1>7. 0 \in Q
    BY <1>3
  <1>8. ASSUME NEW i \in 0 .. n, i + 1 \in 0 .. n, i \in Q PROVE i + 1 \in Q
    <2>1. i + 1 \in 1 .. n /\ (i + 1) - 1 = i
      BY <1>3, <1>8
    <2>2. /\ met[i + 1] = IF i + 1 = 1 THEN vs[1] ELSE CombineLicenses({met[i], vs[i + 1]})
          /\ k[i + 1] = IF i + 1 = 1 THEN vs[1] ELSE CombineLicenses({k[i], vs[i + 1]})
      <3>1. \A h : Meets(h) => h[i + 1] = IF i + 1 = 1 THEN vs[1] ELSE CombineLicenses({h[i], vs[i + 1]})
        BY <2>1
      <3> HIDE DEF Meets
      <3> QED BY <1>4, <1>5, <3>1
    <2>3. i + 1 # 1 => i # 0
      OBVIOUS
    <2> HIDE DEF Meets
    <2> QED BY <1>8, <2>2, <2>3
  <1>9. \A i \in 0 .. n : i \in Q
    <2> HIDE DEF Q
    <2> QED BY <1>3, <1>7, <1>8, UpTo
  <1>10. met[n] = k[n]
    BY <1>3, <1>9
  <1> QED BY <1>6, <1>10, <1>k, <1>j

LEMMA LicensesFlow ==
  ASSUME NEW g, IsLineage(g), NEW seeds \in Partials(g.nodes, LicenseInfos)
  PROVE  \E m : /\ KahnsOrder(g, TopologicalOrder(g), m)
                /\ IsFlow(g, LicensesJoin, seeds, TopologicalOrder(g), Len(TopologicalOrder(g)),
                          FoldDownstream(g, seeds, LAMBDA a, b : CombineLicenses({a, b}), UnknownLicense))
  <1>o. PICK order : order = TopologicalOrder(g)
    OBVIOUS
  <1>n. PICK N : N = Len(order)
    OBVIOUS
  <1>t. PICK T : T = LicenseInfos
    OBVIOUS
  <1>j. PICK J : J = LicensesJoin
    OBVIOUS
  <1>m. PICK m : KahnsOrder(g, order, m)
    BY <1>o, OrderIsKahns
  <1>1. order \in Seq(g.nodes) /\ (\A i, j \in 1 .. N : order[i] = order[j] => i = j)
        /\ N \in Nat /\ \A i \in 1 .. N : order[i] \in g.nodes
    BY <1>m, <1>n DEF KahnsOrder
  <1>2. J \in [SUBSET T -> T] /\ seeds \in Partials(g.nodes, T)
    BY <1>t, <1>j, CombinedIsOne DEF LicensesJoin
  <1>f. PICK f \in [0 .. N -> Partials(g.nodes, T)] :
          FlowsIn(f, g, J, seeds, order) /\ IsFlow(g, J, seeds, order, N, f[N])
    BY <1>1, <1>2, <1>n, FlowsExist
  <1> DEFINE Runs(h) == h = [i \in 0 .. N |-> IF i = 0 THEN << >> ELSE LicensesTurn(g, seeds, order[i], h[i - 1])]
             after1 == CHOOSE h : Runs(h)
  <1>3. FoldDownstream(g, seeds, LAMBDA a, b : CombineLicenses({a, b}), UnknownLicense) = after1[N]
    BY <1>o, <1>n DEF FoldDownstream, LicensesTurn, MetLicenses
  <1>4. ASSUME NEW i \in 1 .. N PROVE f[i] = LicensesTurn(g, seeds, order[i], f[i - 1])
    <2>1. i - 1 \in 0 .. N /\ f[i] = FlowTurn(g, J, seeds, order[i], f[i - 1])
      BY <1>1, <1>f, <1>n DEF FlowsIn
    <2>d. PICK done \in Partials(g.nodes, T) : done = f[i - 1]
      BY <1>f, <2>1
    <2>e. PICK d : d = order[i]
      OBVIOUS
    <2>v. PICK vs : vs = Contributions(g, d, done, seeds)
      OBVIOUS
    <2>2. vs \in Seq(T) /\ ToSet(vs) = Given(g, d, done, seeds)
      BY <1>2, <2>v, ContributionsAre
    <2>3. CASE vs = << >>
      <3>1. Given(g, d, done, seeds) = {}
        BY <2>2, <2>3 DEF ToSet
      <3>2. {} \in SUBSET LicenseInfos /\ CombineLicenses({}) = UnknownLicense
        BY DEF CombineLicenses
      <3>3. J[Given(g, d, done, seeds)] = UnknownLicense
        BY <1>j, <3>1, <3>2 DEF LicensesJoin
      <3> QED BY <2>1, <2>d, <2>e, <2>v, <2>3, <3>3 DEF FlowTurn, LicensesTurn
    <2>4. CASE vs # << >>
      <3>1. MetLicenses(vs) = J[Given(g, d, done, seeds)]
        BY <1>t, <1>j, <2>2, <2>4, LicensesMeet
      <3> QED BY <2>1, <2>d, <2>e, <2>v, <2>4, <3>1 DEF FlowTurn, LicensesTurn
    <2> QED BY <2>3, <2>4
  <1>5. Runs(f)
    <2>1. f[0] = << >>
      BY <1>f DEF FlowsIn
    <2> QED BY <1>1, <1>4, <1>f, <2>1
  <1>6. Runs(after1)
    <2> HIDE DEF Runs
    <2> QED BY <1>5
  <1> HIDE DEF after1
  <1> DEFINE Q == {i \in 0 .. N : after1[i] = f[i]}
  <1>7. 0 \in Q
    <2>1. \A h : Runs(h) => h[0] = << >>
      BY <1>1
    <2> HIDE DEF Runs
    <2> QED BY <1>1, <1>5, <1>6, <2>1
  <1>8. ASSUME NEW i \in 0 .. N, i + 1 \in 0 .. N, i \in Q PROVE i + 1 \in Q
    <2>1. \A h : Runs(h) => h[i + 1] = LicensesTurn(g, seeds, order[i + 1], h[i])
      <3>1. i + 1 \in 0 .. N /\ i + 1 # 0 /\ (i + 1) - 1 = i
        BY <1>1, <1>8
      <3>2. ASSUME NEW h, Runs(h) PROVE h[i + 1] = LicensesTurn(g, seeds, order[i + 1], h[(i + 1) - 1])
        BY <3>1, <3>2
      <3> HIDE DEF Runs
      <3> QED BY <3>1, <3>2
    <2> HIDE DEF Runs
    <2> QED BY <1>5, <1>6, <1>8, <2>1
  <1>9. \A i \in 0 .. N : i \in Q
    <2> HIDE DEF Q
    <2> QED BY <1>1, <1>7, <1>8, UpTo
  <1>10. after1[N] = f[N]
    BY <1>1, <1>9
  <1> QED BY <1>3, <1>10, <1>f, <1>j, <1>m, <1>n, <1>o

(***************************************************************************)
(* govern/consent.py                                                       *)
(***************************************************************************)
ConsentInv ==
  /\ estate \in Estates
  /\ declared \in Partials(estate.nodes, Scopes)
  /\ pinned \in Partials(estate.nodes, Residencies)
  /\ hour \in Nat

LEMMA AgreesFromTypes == ConsentInv => PropagationAgrees
  <1> SUFFICES ASSUME ConsentInv, NEW moment \in 0 .. LastHour
               PROVE  LET flow == PropagatePurposes(moment) IN
                      \A d \in estate.nodes : ~Twisted(estate, d) =>
                        /\ flow[d] \subseteq PermittedPurposes(d, moment)
                        /\ Closure(estate, d) \cap Origins(estate) \subseteq DOMAIN declared
                             => flow[d] = PermittedPurposes(d, moment)
    BY DEF PropagationAgrees
  <1>g. PICK g : g = estate
    OBVIOUS
  <1>1. IsLineage(g)
    BY <1>g, ConsentAssumption DEF ConsentInv
  <1>2. DOMAIN declared \subseteq g.nodes /\ \A x \in DOMAIN declared : InForce(declared[x], moment) \in SUBSET Purposes
    <2>1. DOMAIN declared \subseteq g.nodes /\ \A x \in DOMAIN declared : declared[x] \in Scopes
      BY <1>g, PartialsAre DEF ConsentInv
    <2> QED BY <2>1, ConsentAssumption DEF InForce
  <1>s. PICK seeds : seeds = [d \in DOMAIN declared |-> InForce(declared[d], moment)]
    OBVIOUS
  <1>3. seeds \in Partials(g.nodes, SUBSET Purposes)
    <2>1. seeds = [x \in DOMAIN seeds |-> seeds[x]] /\ DOMAIN seeds \subseteq g.nodes
          /\ \A x \in DOMAIN seeds : seeds[x] \in SUBSET Purposes
      BY <1>2, <1>s
    <2> QED BY <2>1, PartialsAre
  <1>f. PICK flow : flow = PropagatePurposes(moment)
    OBVIOUS
  <1>j. PICK J : J = PurposesJoin
    OBVIOUS
  <1>o. PICK order : order = TopologicalOrder(g)
    OBVIOUS
  <1>m. PICK m : KahnsOrder(g, order, m) /\ IsFlow(g, J, seeds, order, Len(order), flow)
    BY <1>1, <1>3, <1>f, <1>g, <1>j, <1>o, <1>s, PurposesFlow DEF PropagatePurposes
  <1>4. \A S \in SUBSET SUBSET Purposes : J[S] = {p \in Purposes : S # {} /\ \A s \in S : p \in s}
    BY <1>j DEF PurposesJoin
  <1> DEFINE Sources(d) == Closure(g, d) \cap Origins(g)
             Agrees(d) == /\ flow[d] \subseteq PermittedPurposes(d, moment)
                          /\ Sources(d) \subseteq DOMAIN declared
                               => PermittedPurposes(d, moment) \subseteq flow[d] /\ ScopesAbove(d) # {}
             R == {d \in g.nodes : Agrees(d)}
  <1>5. ASSUME NEW d \in g.nodes, ~Twisted(g, d), \A q \in Parents(g, d) \ {d} : q \in R
        PROVE  d \in R
    <2>i. PICK I : I = Parents(g, d) \ {d}
      OBVIOUS
    <2>k. PICK S : S = {flow[q] : q \in I} \cup SeedOf(seeds, d)
      OBVIOUS
    <2>1. flow[d] = J[S]
      <3>1. KahnsOrder(g, order, m) /\ IsFlow(g, J, seeds, order, Len(order), flow)
        BY <1>m
      <3>2. d \in g.nodes /\ ~Twisted(g, d)
        BY <1>5
      <3>3. flow[d] = J[{flow[q] : q \in Parents(g, d) \ {d}} \cup SeedOf(seeds, d)]
        BY ONLY <1>1, <3>1, <3>2, FlowOffTheCycles
      <3> QED BY <2>i, <2>k, <3>3
    <2>2. Closure(g, d) = {d} \cup UNION {Closure(g, q) : q \in I} /\ Closure(g, d) \subseteq g.nodes
      BY <1>1, <2>i, ClosureByInputs
    <2>3. \A q \in I : /\ flow[q] \subseteq PermittedPurposes(q, moment)
                       /\ Sources(q) \subseteq DOMAIN declared
                            => PermittedPurposes(q, moment) \subseteq flow[q] /\ ScopesAbove(q) # {}
      BY <1>5, <2>i
    <2>4. \A x \in g.nodes : \A p : p \in PermittedPurposes(x, moment) <=>
             /\ p \in Purposes /\ ScopesAbove(x) # {}
             /\ \A y \in ScopesAbove(x) : p \in InForce(declared[y], moment)
      BY DEF PermittedPurposes
    <2>5. \A q \in I : PermittedPurposes(q, moment) \in SUBSET Purposes
      BY DEF PermittedPurposes
    <2>6. /\ \A q \in I : ScopesAbove(q) \subseteq ScopesAbove(d) /\ q \in g.nodes /\ Sources(q) \subseteq Sources(d)
          /\ \A y \in ScopesAbove(d) : y = d \/ \E q \in I : y \in ScopesAbove(q)
          /\ d \in DOMAIN declared => d \in ScopesAbove(d)
      <3>1. \A q \in I : Closure(g, q) \subseteq Closure(g, d) /\ q \in g.nodes
        BY <1>1, <2>2, <2>i, ClosureByInputs
      <3> QED BY <1>g, <2>2, <3>1 DEF ScopesAbove
    <2>7. SeedOf(seeds, d) = IF d \in DOMAIN declared THEN {InForce(declared[d], moment)} ELSE {}
      <3>1. DOMAIN seeds = DOMAIN declared /\ \A x \in DOMAIN declared : seeds[x] = InForce(declared[x], moment)
        BY <1>s
      <3>2. CASE d \in DOMAIN declared
        <4>1. {d} \cap DOMAIN seeds = {d} /\ seeds[d] = InForce(declared[d], moment)
          BY <3>1, <3>2
        <4> QED BY <3>2, <4>1 DEF SeedOf
      <3>3. CASE d \notin DOMAIN declared
        BY <3>1, <3>3 DEF SeedOf
      <3> QED BY <3>2, <3>3
    <2> HIDE DEF Sources, R
    <2>8. S \in SUBSET SUBSET Purposes
      <3>1. \A q \in I : flow[q] \in SUBSET Purposes
        <4> TAKE q \in I
        <4>1. flow[q] \subseteq PermittedPurposes(q, moment) /\ PermittedPurposes(q, moment) \subseteq Purposes
          BY <2>3, <2>5
        <4> QED BY <4>1
      <3>2. SeedOf(seeds, d) \subseteq SUBSET Purposes
        BY <1>2, <2>7
      <3> QED BY <2>k, <3>1, <3>2
    <2>9. flow[d] = {p \in Purposes : S # {} /\ \A s \in S : p \in s}
      BY <1>4, <2>1, <2>8
    <2>10. flow[d] \subseteq PermittedPurposes(d, moment)
      <3> SUFFICES ASSUME NEW p \in flow[d] PROVE p \in PermittedPurposes(d, moment)
        OBVIOUS
      <3>1. p \in Purposes /\ S # {} /\ \A s \in S : p \in s
        BY <2>9
      <3>2. \A q \in I : p \in flow[q] /\ p \in PermittedPurposes(q, moment)
        <4> TAKE q \in I
        <4>1. flow[q] \in S /\ flow[q] \subseteq PermittedPurposes(q, moment)
          BY <2>3, <2>k
        <4> QED BY <3>1, <4>1
      <3>3. \A q \in I : ScopesAbove(q) # {} /\ \A y \in ScopesAbove(q) : p \in InForce(declared[y], moment)
        BY <2>4, <2>6, <3>2
      <3>4. d \in DOMAIN declared => p \in InForce(declared[d], moment)
        BY <2>7, <2>k, <3>1
      <3>5. ScopesAbove(d) # {}
        BY <2>6, <2>7, <2>k, <3>1, <3>3
      <3>6. \A y \in ScopesAbove(d) : y \in DOMAIN declared /\ p \in InForce(declared[y], moment)
        <4>1. \A y \in ScopesAbove(d) : y \in DOMAIN declared
          BY DEF ScopesAbove
        <4> QED BY <2>6, <3>3, <3>4, <4>1
      <3> QED BY <2>4, <3>1, <3>5, <3>6
    <2>11. ASSUME Sources(d) \subseteq DOMAIN declared
           PROVE  PermittedPurposes(d, moment) \subseteq flow[d] /\ ScopesAbove(d) # {}
      <3>1. \A q \in I : PermittedPurposes(q, moment) \subseteq flow[q] /\ ScopesAbove(q) # {}
        <4> TAKE q \in I
        <4>1. Sources(q) \subseteq Sources(d)
          BY <2>6
        <4>2. Sources(q) \subseteq DOMAIN declared
          BY <2>11, <4>1
        <4> QED BY <2>3, <4>2
      <3>2. I # {} \/ d \in DOMAIN declared
        <4>1. CASE I = {}
          <5>1. d \in Origins(g) /\ d \in Closure(g, d)
            BY <2>2, <2>i, <4>1 DEF Origins
          <5> QED BY <2>11, <5>1 DEF Sources
        <4> QED BY <4>1
      <3>3. ScopesAbove(d) # {} /\ S # {}
        BY <2>6, <2>7, <2>k, <3>1, <3>2
      <3>4. ASSUME NEW p \in PermittedPurposes(d, moment) PROVE p \in flow[d]
        <4>1. p \in Purposes /\ \A y \in ScopesAbove(d) : p \in InForce(declared[y], moment)
          BY <2>4, <3>4
        <4>2. \A q \in I : p \in flow[q]
          <5> TAKE q \in I
          <5>1. \A y \in ScopesAbove(q) : p \in InForce(declared[y], moment)
            BY <2>6, <4>1
          <5>2. p \in PermittedPurposes(q, moment)
            BY <2>4, <2>6, <3>1, <4>1, <5>1
          <5> QED BY <3>1, <5>2
        <4>3. d \in DOMAIN declared => p \in InForce(declared[d], moment)
          BY <2>6, <4>1
        <4>4. \A s \in S : p \in s
          BY <2>7, <2>k, <4>2, <4>3
        <4> QED BY <2>9, <3>3, <4>1, <4>4
      <3> QED BY <3>3, <3>4
    <2> QED BY <2>10, <2>11 DEF R
  <1>6. \A d \in g.nodes : ~Twisted(g, d) => d \in R
    <2> HIDE DEF R
    <2> QED BY <1>1, <1>5, DownOffTheCycles
  <1>7. \A d \in g.nodes : ~Twisted(g, d) => Agrees(d)
    BY <1>6
  <1> QED BY <1>7, <1>f, <1>g

LEMMA RefusalsFromTypes == ConsentInv => RefusalsReachDownAndAreExplained
  <1> SUFFICES ASSUME ConsentInv PROVE RefusalsReachDownAndAreExplained
    OBVIOUS
  <1>t. \A x \in DOMAIN declared : declared[x].expires = Never \/ declared[x].expires \in Int
    BY ConsentAssumption, PartialsAre DEF ConsentInv
  <1>1. ASSUME NEW d \in estate.nodes, NEW p \in Purposes, NEW moment \in 0 .. LastHour,
               NEW r, r = Report(d, {p}, moment)
        PROVE  /\ \A x \in Closure(estate, d) \cap DOMAIN declared : ~Allows(declared[x], p, moment) =>
                    /\ ~PurposeAllowed(d, p, moment) /\ ~IsClear(r)
                    /\ moment <= hour \/ p \notin declared[x].purposes => UnconsentedUses([y \in {d} |-> p]) # {}
               /\ moment >= hour => \A n \in r.denied :
                    n.blockers # {} \/ r.expired # {} \/ Closure(estate, d) \cap DOMAIN declared = {}
               /\ r.expired # {} \/ d \in RetentionViolations(moment) =>
                    /\ PermittedPurposes(d, moment) = {}
                    /\ moment <= hour => d \notin TrainingPermittedDatasets /\ r.permitted = {}
    <2>1. /\ r.permitted = PermittedPurposes(d, hour)
          /\ r.denied = {[purpose |-> q, blockers |-> BlockingSources(d, q)] :
                            q \in {p} \ PermittedPurposes(d, hour)}
          /\ r.expired = Expired(moment) \cap Closure(estate, d)
      BY <1>1 DEF Report, Closure
    <2>2. \A at : \A x \in ScopesAbove(d), q \in PermittedPurposes(d, at) : q \in InForce(declared[x], at)
      BY DEF PermittedPurposes
    <2>3. \A w, q, at : q \in InForce(w, at) <=> Allows(w, q, at)
      BY DEF InForce, Allows
    <2>o. moment \in Int /\ hour \in Int
      BY <1>1, ConsentAssumption DEF ConsentInv
    <2>l. \A x \in DOMAIN declared : /\ moment <= hour /\ IsExpired(declared[x], moment) => IsExpired(declared[x], hour)
                                     /\ moment >= hour /\ IsExpired(declared[x], hour) => IsExpired(declared[x], moment)
      <3> TAKE x \in DOMAIN declared
      <3>1. PICK e : e = declared[x].expires
        OBVIOUS
      <3>2. e = Never \/ e \in Int
        BY <1>t, <3>1
      <3>3. \A at : IsExpired(declared[x], at) <=> e # Never /\ e < at
        BY <3>1 DEF IsExpired
      <3> QED BY <2>o, <3>2, <3>3
    <2>4. ASSUME p \notin PermittedPurposes(d, hour)
          PROVE  UnconsentedUses([y \in {d} |-> p]) # {} /\ ~IsClear(r)
      <3>1. d \in {x \in DOMAIN [y \in {d} |-> p] : ~PurposeAllowed(x, [y \in {d} |-> p][x], hour)}
        BY <2>4 DEF PurposeAllowed
      <3>2. UnconsentedUses([y \in {d} |-> p]) # {}
        BY <3>1 DEF UnconsentedUses
      <3>3. p \in {p} \ PermittedPurposes(d, hour)
        BY <2>4
      <3>4. r.denied # {}
        BY <2>1, <3>3
      <3> QED BY <3>2, <3>4 DEF IsClear
    <2>5. ASSUME NEW x \in Closure(estate, d) \cap DOMAIN declared, ~Allows(declared[x], p, moment)
          PROVE  /\ ~PurposeAllowed(d, p, moment) /\ ~IsClear(r)
                 /\ moment <= hour \/ p \notin declared[x].purposes => UnconsentedUses([y \in {d} |-> p]) # {}
      <3>1. x \in ScopesAbove(d) /\ x \in DOMAIN declared
        BY <2>5 DEF ScopesAbove
      <3>2. ~PurposeAllowed(d, p, moment)
        BY <2>2, <2>3, <2>5, <3>1 DEF PurposeAllowed
      <3>3. ASSUME moment <= hour \/ p \notin declared[x].purposes PROVE p \notin PermittedPurposes(d, hour)
        <4>1. ~Allows(declared[x], p, hour)
          BY <2>5, <2>l, <3>1, <3>3 DEF Allows
        <4> QED BY <2>2, <2>3, <3>1, <4>1
      <3>4. CASE moment <= hour \/ p \notin declared[x].purposes
        BY <2>4, <3>2, <3>3, <3>4
      <3>5. CASE ~(moment <= hour \/ p \notin declared[x].purposes)
        <4>1. IsExpired(declared[x], moment)
          BY <2>5, <3>5 DEF Allows
        <4>2. x \in r.expired
          BY <2>1, <2>5, <4>1 DEF Expired
        <4> QED BY <3>2, <3>5, <4>2 DEF IsClear
      <3> QED BY <3>4, <3>5
    <2>6. ASSUME NEW n \in r.denied, moment >= hour, ScopesAbove(d) # {} PROVE n.blockers # {} \/ r.expired # {}
      <3>1. p \notin PermittedPurposes(d, hour) /\ n.blockers = BlockingSources(d, p)
        BY <2>1, <2>6
      <3>2. PICK x \in ScopesAbove(d) : p \notin InForce(declared[x], hour)
        BY <2>6, <3>1 DEF PermittedPurposes
      <3>3. CASE IsExpired(declared[x], hour)
        <4>1. x \in Closure(estate, d) /\ x \in DOMAIN declared
          BY <3>2 DEF ScopesAbove
        <4>2. x \in Expired(moment)
          BY <2>6, <2>l, <3>3, <4>1 DEF Expired
        <4> QED BY <2>1, <4>1, <4>2
      <3>4. CASE ~IsExpired(declared[x], hour)
        <4>1. x \in BlockingSources(d, p)
          BY <3>2, <3>4 DEF InForce, BlockingSources
        <4> QED BY <3>1, <4>1
      <3> QED BY <3>3, <3>4
    <2>7. ASSUME r.expired # {} \/ d \in RetentionViolations(moment)
          PROVE  /\ PermittedPurposes(d, moment) = {}
                 /\ moment <= hour => d \notin TrainingPermittedDatasets /\ r.permitted = {}
      <3>1. PICK x \in Expired(moment) : x \in Closure(estate, d)
        BY <2>1, <2>7 DEF RetentionViolations, Closure
      <3>2. x \in ScopesAbove(d) /\ x \in DOMAIN declared /\ IsExpired(declared[x], moment)
        BY <3>1 DEF Expired, ScopesAbove
      <3>3. \A at : IsExpired(declared[x], at) => PermittedPurposes(d, at) = {}
        <4> TAKE at
        <4>1. IsExpired(declared[x], at) => InForce(declared[x], at) = {}
          BY DEF InForce
        <4> QED BY <2>2, <3>2, <4>1
      <3>4. moment <= hour => PermittedPurposes(d, hour) = {}
        BY <2>l, <3>2, <3>3
      <3> QED BY <2>1, <3>2, <3>3, <3>4 DEF TrainingPermittedDatasets, PurposeAllowed
    <2> QED BY <2>5, <2>6, <2>7 DEF ScopesAbove
  <1> QED BY <1>1 DEF RefusalsReachDownAndAreExplained

LEMMA RoutesFromTypes == ConsentInv => RoutesAndPinsAgree
  <1> SUFFICES ASSUME ConsentInv PROVE RoutesAndPinsAgree
    OBVIOUS
  <1>g. PICK g : g = estate
    OBVIOUS
  <1>p. PICK P : P = DOMAIN pinned
    OBVIOUS
  <1>1. IsLineage(g) /\ P \subseteq g.nodes
    <2>1. IsLineage(g)
      BY <1>g, ConsentAssumption DEF ConsentInv
    <2> QED BY <1>g, <1>p, <2>1, PartialsAre DEF ConsentInv
  <1> DEFINE Path(v) == ShortestPath(g, v[1], v[2])
             Ends == {v \in P \X g.nodes : Forbids(pinned[v[1]], v[2]) /\ Path(v) # << >>}
  <1>2. TransferPaths = {Path(v) : v \in Ends}
    BY <1>g, <1>p DEF TransferPaths
  <1>3. \A v \in P \X g.nodes :
          /\ Path(v) # << >> <=> v[1] \in Closure(g, v[2])
          /\ Path(v) # << >> => Head(Path(v)) = v[1] /\ Last(Path(v)) = v[2]
                                 /\ \A i \in 1 .. Len(Path(v)) - 1 : Path(v)[i + 1] \in Children(g, Path(v)[i])
    <2> TAKE v \in P \X g.nodes
    <2>1. v[1] \in g.nodes /\ v[2] \in g.nodes
      BY <1>1
    <2>w. PICK w : w = Path(v)
      OBVIOUS
    <2>2. /\ w # << >> <=> v[1] \in Closure(g, v[2])
          /\ w # << >> => Head(w) = v[1] /\ Last(w) = v[2]
                          /\ \A i \in 1 .. Len(w) - 1 : w[i + 1] \in Children(g, w[i])
      BY <1>1, <2>1, <2>w, RoutesAreWays
    <2> HIDE DEF Path
    <2> QED BY <2>2, <2>w
  <1> HIDE DEF Path
  <1>4. ResidencyViolations = {v \in P \X g.nodes : Forbids(pinned[v[1]], v[2]) /\ v[1] \in Closure(g, v[2])}
    BY <1>g, <1>p DEF ResidencyViolations
  <1>5. ResidencyViolations = Ends
    BY <1>3, <1>4
  <1>6. \A v \in Ends : <<Head(Path(v)), Last(Path(v))>> = v
    BY <1>3
  <1>7. {<<Head(w), Last(w)>> : w \in TransferPaths} = Ends
    <2>1. ASSUME NEW w \in TransferPaths PROVE <<Head(w), Last(w)>> \in Ends
      <3>1. PICK v \in Ends : w = Path(v)
        BY <1>2
      <3>2. <<Head(w), Last(w)>> = v
        BY <1>6, <3>1
      <3> QED BY <3>1, <3>2
    <2>2. ASSUME NEW v \in Ends PROVE v \in {<<Head(w), Last(w)>> : w \in TransferPaths}
      <3>1. Path(v) \in TransferPaths
        BY <1>2
      <3> QED BY <1>6, <3>1
    <2> HIDE DEF Ends
    <2> QED BY <2>1, <2>2
  <1>8. ASSUME NEW d \in g.nodes
        PROVE  Report(d, {}, hour).residency = {v[1] : v \in {x \in ResidencyViolations : x[2] = d}}
    <2>1. Report(d, {}, hour).residency = {x \in Closure(g, d) \cap P : Forbids(pinned[x], d)}
      BY <1>g, <1>p DEF Report, Closure
    <2>2. \A x \in P : <<x, d>> \in P \X g.nodes
      OBVIOUS
    <2>3. \A x : x \in {v[1] : v \in {y \in ResidencyViolations : y[2] = d}}
                 <=> x \in P /\ Forbids(pinned[x], d) /\ x \in Closure(g, d)
      <3> TAKE x
      <3>1. ASSUME x \in P, Forbids(pinned[x], d), x \in Closure(g, d)
            PROVE  x \in {v[1] : v \in {y \in ResidencyViolations : y[2] = d}}
        <4>1. <<x, d>> \in ResidencyViolations /\ <<x, d>>[1] = x /\ <<x, d>>[2] = d
          BY <1>4, <3>1
        <4> QED BY <4>1
      <3>2. ASSUME x \in {v[1] : v \in {y \in ResidencyViolations : y[2] = d}}
            PROVE  x \in P /\ Forbids(pinned[x], d) /\ x \in Closure(g, d)
        <4>1. PICK v \in ResidencyViolations : v[2] = d /\ x = v[1]
          BY <3>2
        <4> QED BY <1>4, <4>1
      <3> QED BY <3>1, <3>2
    <2> QED BY <2>1, <2>3
  <1>9. \A w \in TransferPaths : \A i \in 1 .. Len(w) - 1 : w[i + 1] \in Children(g, w[i])
    <2> TAKE w \in TransferPaths
    <2>1. PICK v \in Ends : w = Path(v)
      BY <1>2
    <2> QED BY <1>3, <2>1
  <1> QED BY <1>5, <1>7, <1>8, <1>9, <1>g DEF RoutesAndPinsAgree

LEMMA ConsentInvInit == ConsentInit => ConsentInv
  <1> SUFFICES ASSUME ConsentInit PROVE ConsentInv
    OBVIOUS
  <1>1. \A T : << >> \in Partials(estate.nodes, T)
    <2> TAKE T
    <2>1. << >> = [x \in DOMAIN << >> |-> << >>[x]] /\ DOMAIN << >> = {}
      OBVIOUS
    <2> QED BY <2>1, PartialsAre
  <1> QED BY <1>1 DEF ConsentInit, ConsentInv

LEMMA ConsentInvStep == ConsentInv /\ (RetentionNext \/ ResidencyNext \/ UNCHANGED consentVars) => ConsentInv'
  <1> SUFFICES ASSUME ConsentInv, RetentionNext \/ ResidencyNext \/ UNCHANGED consentVars PROVE ConsentInv'
    OBVIOUS
  <1>1. ASSUME NEW d \in estate.nodes, NEW s \in Scopes, DeclareScope(d, s) PROVE ConsentInv'
    <2>1. declared' \in Partials(estate.nodes, Scopes)
      BY <1>1, PartialsGrow DEF DeclareScope, ConsentInv
    <2> QED BY <1>1, <2>1 DEF DeclareScope, ConsentInv
  <1>2. ASSUME NEW d \in estate.nodes, NEW r \in Residencies, Pin(d, r) PROVE ConsentInv'
    <2>1. pinned' \in Partials(estate.nodes, Residencies)
      BY <1>2, PartialsGrow DEF Pin, ConsentInv
    <2> QED BY <1>2, <2>1 DEF Pin, ConsentInv
  <1>3. Pass \/ UNCHANGED consentVars => ConsentInv'
    BY DEF Pass, consentVars, ConsentInv
  <1> QED BY <1>1, <1>2, <1>3 DEF RetentionNext, ResidencyNext

(***************************************************************************)
(* govern/licenses.py                                                      *)
(***************************************************************************)
LicenseInv == corpus \in Corpora /\ licensed \in Partials(corpus.nodes, Licences)

LEMMA AsStrictIs ==
  ASSUME NEW a \in Permissions, NEW b \in Permissions
  PROVE  AsStrict(a, b) <=> (b = "no" => a = "no") /\ (a = "yes" => b = "yes")
  BY DEF AsStrict, Strictest, Permissions

TermsAbove(d) == {licensed[x] : x \in LicensedAbove(d)}

\* What is known above a dataset: from its inputs and from itself.
LEMMA EffectiveIs ==
  ASSUME LicenseInv, NEW d \in corpus.nodes
  PROVE  /\ \A x \in LicensedAbove(d) : x \in DOMAIN licensed /\ licensed[x] \in LicenseInfos
         /\ EffectiveLicense(d) \in LicenseInfos
         /\ LicensedAbove(d) = {} => EffectiveLicense(d) = UnknownLicense
         /\ LicensedAbove(d) # {} => IsCombined(EffectiveLicense(d), TermsAbove(d))
  <1>1. \A x \in DOMAIN licensed : licensed[x] \in LicenseInfos
    <2>1. \A x \in DOMAIN licensed : licensed[x] \in Licences
      BY PartialsAre DEF LicenseInv
    <2> QED BY <2>1, LicenceAssumption
  <1>2. \A x \in LicensedAbove(d) : x \in DOMAIN licensed /\ licensed[x] \in LicenseInfos
    BY <1>1 DEF LicensedAbove
  <1>3. TermsAbove(d) \in SUBSET LicenseInfos /\ EffectiveLicense(d) = CombineLicenses(TermsAbove(d))
    BY <1>2 DEF TermsAbove, EffectiveLicense
  <1>4. LicensedAbove(d) = {} => TermsAbove(d) = {}
    BY DEF TermsAbove
  <1>5. LicensedAbove(d) # {} => TermsAbove(d) # {}
    BY DEF TermsAbove
  <1>6. LicensedAbove(d) = {} => EffectiveLicense(d) = UnknownLicense
    BY <1>3, <1>4 DEF CombineLicenses
  <1> QED BY <1>2, <1>3, <1>5, <1>6, CombinedIs, CombinedIsOne

LEMMA ClearMeansClear ==
  ASSUME LicenseInv, NEW d \in corpus.nodes, LicenseIsClear(LicenseReport(d, TRUE, FALSE)), NEW target,
         target = [UnknownLicense EXCEPT !.commercial = "yes", !.derivatives = "yes"]
  PROVE  /\ \A x \in LicensedAbove(d) : IsCompatible(licensed[x], target) /\ ~LicenseIsUnknown(licensed[x])
         /\ RestrictiveSources(d) = {} /\ d \notin Unlicensed
  <1>l. PICK l : l = EffectiveLicense(d)
    OBVIOUS
  <1>1. /\ l.commercial # "no" /\ l.derivatives # "no" /\ ~l.shareAlike /\ ~LicenseIsUnknown(l)
    BY <1>l DEF LicenseIsClear, LicenseReport
  <1>2. l \in LicenseInfos
    BY <1>l, EffectiveIs
  <1>3. l.commercial = "yes" /\ l.derivatives = "yes"
    BY <1>1, <1>2 DEF LicenseInfos, Permissions, LicenseIsUnknown
  <1>4. LicensedAbove(d) # {}
    <2>1. UnknownLicense.commercial # "yes"
      BY DEF UnknownLicense
    <2> QED BY <1>3, <1>l, <2>1, EffectiveIs
  <1>5. IsCombined(l, TermsAbove(d))
    BY <1>4, <1>l, EffectiveIs
  <1>6. \A x \in LicensedAbove(d) : /\ licensed[x].commercial = "yes" /\ licensed[x].derivatives = "yes"
                                   /\ ~licensed[x].shareAlike
    BY <1>1, <1>3, <1>5 DEF IsCombined, TermsAbove
  <1>7. \A x \in LicensedAbove(d) : IsCompatible(licensed[x], target) /\ ~LicenseIsUnknown(licensed[x])
    BY <1>6 DEF IsCompatible, LicenseIsUnknown
  <1>8. \A x \in Ancestors(corpus, d) \cap DOMAIN licensed : x \in LicensedAbove(d)
    BY DEF LicensedAbove, Closure
  <1>9. RestrictiveSources(d) = {}
    BY <1>6, <1>8 DEF RestrictiveSources
  <1> QED BY <1>4, <1>7, <1>9 DEF Unlicensed

\* A term above is a term below.
LEMMA TermsGoDown ==
  ASSUME LicenseInv, NEW d \in corpus.nodes
  PROVE  /\ \A x \in LicensedAbove(d) : AsStrict(EffectiveLicense(d).mining, licensed[x].mining)
         /\ \A a \in Ancestors(corpus, d) \ Unlicensed :
              /\ AsStrict(CommercialUseAllowed(d), CommercialUseAllowed(a))
              /\ AsStrict(TrainingPermitted(d), TrainingPermitted(a))
              /\ a \in LicenseViolations(corpus.nodes) => d \in LicenseViolations(corpus.nodes)
         /\ AttributionRequired(d) <=> AttributionManifest(d) # {}
  <1>g. PICK g : g = corpus
    OBVIOUS
  <1>0. IsLineage(g)
    BY <1>g, LicenceAssumption DEF LicenseInv
  <1>l. PICK l : l = EffectiveLicense(d)
    OBVIOUS
  <1>1. /\ \A x \in LicensedAbove(d) : x \in DOMAIN licensed /\ licensed[x] \in LicenseInfos
        /\ l \in LicenseInfos
        /\ LicensedAbove(d) = {} => l = UnknownLicense
        /\ LicensedAbove(d) # {} => IsCombined(l, TermsAbove(d))
    BY <1>l, EffectiveIs
  <1>2. ASSUME NEW x \in LicensedAbove(d) PROVE AsStrict(l.mining, licensed[x].mining)
    <2>1. /\ licensed[x].mining = "no" => l.mining = "no"
          /\ l.mining = "yes" => licensed[x].mining = "yes"
      BY <1>1, <1>2 DEF IsCombined, TermsAbove
    <2>2. l.mining \in Permissions /\ licensed[x].mining \in Permissions
      BY <1>1, <1>2 DEF LicenseInfos
    <2> QED BY <2>1, <2>2, AsStrictIs
  <1>3. ASSUME NEW a \in Ancestors(corpus, d) \ Unlicensed
        PROVE  /\ AsStrict(CommercialUseAllowed(d), CommercialUseAllowed(a))
               /\ AsStrict(TrainingPermitted(d), TrainingPermitted(a))
               /\ a \in LicenseViolations(corpus.nodes) => d \in LicenseViolations(corpus.nodes)
    <2>1. a \in g.nodes /\ Closure(g, a) \subseteq Closure(g, d)
      BY <1>0, <1>g, AncestorsAndDescendants DEF Closure
    <2>2. LicensedAbove(a) # {} /\ LicensedAbove(a) \subseteq LicensedAbove(d)
      BY <1>3, <1>g, <2>1 DEF Unlicensed, LicensedAbove
    <2>k. PICK k : k = EffectiveLicense(a)
      OBVIOUS
    <2>3. IsCombined(k, TermsAbove(a)) /\ IsCombined(l, TermsAbove(d)) /\ TermsAbove(a) \subseteq TermsAbove(d)
      <3>1. IsCombined(k, TermsAbove(a))
        BY <1>g, <2>1, <2>2, <2>k, EffectiveIs
      <3> QED BY <1>1, <2>2, <3>1 DEF TermsAbove
    <2>4. /\ k.commercial = "no" => l.commercial = "no"
          /\ l.commercial = "yes" => k.commercial = "yes"
          /\ k.mining = "no" => l.mining = "no"
          /\ l.mining = "yes" => k.mining = "yes"
          /\ k.derivatives = "no" => l.derivatives = "no"
          /\ k.shareAlike => l.shareAlike
      BY <2>3 DEF IsCombined
    <2>5. k \in LicenseInfos /\ l \in LicenseInfos
      BY <2>3 DEF IsCombined
    <2>6. k.commercial \in Permissions /\ l.commercial \in Permissions /\ k.mining \in Permissions /\ l.mining \in Permissions
      BY <2>5 DEF LicenseInfos
    <2>7. AsStrict(l.commercial, k.commercial) /\ AsStrict(l.mining, k.mining)
      BY <2>4, <2>6, AsStrictIs
    <2>8. /\ LicenseReport(a, TRUE, FALSE).blockers # {}
                => k.commercial = "no" \/ k.derivatives = "no" \/ k.shareAlike
          /\ l.commercial = "no" \/ l.derivatives = "no" \/ l.shareAlike
                => LicenseReport(d, TRUE, FALSE).blockers # {}
      BY <1>l, <2>k DEF LicenseReport
    <2>9. a \in LicenseViolations(corpus.nodes) => d \in LicenseViolations(corpus.nodes)
      BY <2>4, <2>8 DEF LicenseViolations
    <2> QED BY <1>l, <2>k, <2>7, <2>9 DEF CommercialUseAllowed, TrainingPermitted
  <1>4. l.attribution <=> AttributionManifest(d) # {}
    <2>1. CASE LicensedAbove(d) = {}
      <3>1. ~l.attribution
        BY <1>1, <2>1 DEF UnknownLicense
      <3> QED BY <2>1, <3>1 DEF AttributionManifest
    <2>2. CASE LicensedAbove(d) # {}
      BY <1>1, <2>2 DEF IsCombined, TermsAbove, AttributionManifest
    <2> QED BY <2>1, <2>2
  <1> QED BY <1>2, <1>3, <1>4, <1>l DEF AttributionRequired

\* The pass: never more permissive than the answer, and the answer where the sources are licensed.
LEMMA LicensesAgree ==
  ASSUME LicenseInv, NEW flow, flow = PropagateLicenses, NEW e \in corpus.nodes, ~Twisted(corpus, e)
  PROVE  /\ AsStrict(flow[e].commercial, EffectiveLicense(e).commercial)
         /\ AsStrict(flow[e].mining, EffectiveLicense(e).mining)
         /\ Closure(corpus, e) \cap Origins(corpus) \subseteq DOMAIN licensed => flow[e] = EffectiveLicense(e)
  <1>g. PICK g : g = corpus
    OBVIOUS
  <1>1. IsLineage(g)
    BY <1>g, LicenceAssumption DEF LicenseInv
  <1>2. DOMAIN licensed \subseteq g.nodes /\ (\A x \in DOMAIN licensed : licensed[x] \in LicenseInfos)
        /\ licensed \in Partials(g.nodes, LicenseInfos)
    <2>1. licensed = [x \in DOMAIN licensed |-> licensed[x]] /\ DOMAIN licensed \subseteq g.nodes
          /\ \A x \in DOMAIN licensed : licensed[x] \in Licences
      BY <1>g, PartialsAre DEF LicenseInv
    <2>2. \A x \in DOMAIN licensed : licensed[x] \in LicenseInfos
      BY <2>1, LicenceAssumption
    <2> QED BY <2>1, <2>2, PartialsAre
  <1>o. PICK order : order = TopologicalOrder(g)
    OBVIOUS
  <1>j. PICK J : J = LicensesJoin
    OBVIOUS
  <1>m. PICK m : KahnsOrder(g, order, m) /\ IsFlow(g, J, licensed, order, Len(order), flow)
    BY <1>1, <1>2, <1>g, <1>j, <1>o, LicensesFlow DEF PropagateLicenses
  <1>3. \A d \in g.nodes :
          /\ EffectiveLicense(d) \in LicenseInfos
          /\ LicensedAbove(d) = {} => EffectiveLicense(d) = UnknownLicense
          /\ LicensedAbove(d) # {} => IsCombined(EffectiveLicense(d), TermsAbove(d))
    BY <1>g, EffectiveIs
  <1> DEFINE Sources(d) == Closure(g, d) \cap Origins(g)
             AsStrictAs(k, l) == /\ l.commercial = "no" => k.commercial = "no"
                                 /\ k.commercial = "yes" => l.commercial = "yes"
                                 /\ l.mining = "no" => k.mining = "no"
                                 /\ k.mining = "yes" => l.mining = "yes"
             Agrees(d) == /\ flow[d] \in LicenseInfos /\ AsStrictAs(flow[d], EffectiveLicense(d))
                          /\ Sources(d) \subseteq DOMAIN licensed
                               => LicensedAbove(d) # {} /\ IsCombined(flow[d], TermsAbove(d))
             R == {d \in g.nodes : Agrees(d)}
  <1>4. ASSUME NEW d \in g.nodes, ~Twisted(g, d), \A q \in Parents(g, d) \ {d} : q \in R
        PROVE  d \in R
    <2>i. PICK I : I = Parents(g, d) \ {d}
      OBVIOUS
    <2>k. PICK S : S = {flow[q] : q \in I} \cup SeedOf(licensed, d)
      OBVIOUS
    <2>l. PICK l : l = EffectiveLicense(d)
      OBVIOUS
    <2>f. PICK k : k = flow[d]
      OBVIOUS
    <2>1. k = J[S]
      <3>1. flow[d] = J[S]
        BY <1>1, <1>m, <1>4, <2>i, <2>k, FlowOffTheCycles
      <3> QED BY <2>f, <3>1
    <2>2. Closure(g, d) = {d} \cup UNION {Closure(g, q) : q \in I} /\ Closure(g, d) \subseteq g.nodes
      BY <1>1, <2>i, ClosureByInputs
    <2>3. \A q \in I : /\ flow[q] \in LicenseInfos /\ AsStrictAs(flow[q], EffectiveLicense(q))
                       /\ Sources(q) \subseteq DOMAIN licensed
                            => LicensedAbove(q) # {} /\ IsCombined(flow[q], TermsAbove(q))
      BY <1>4, <2>i
    <2>4. /\ \A q \in I : LicensedAbove(q) \subseteq LicensedAbove(d) /\ q \in g.nodes /\ Sources(q) \subseteq Sources(d)
          /\ \A y \in LicensedAbove(d) : y = d \/ \E q \in I : y \in LicensedAbove(q)
          /\ d \in DOMAIN licensed => d \in LicensedAbove(d)
          /\ \A y \in LicensedAbove(d) : y \in DOMAIN licensed
      <3>1. \A q \in I : Closure(g, q) \subseteq Closure(g, d) /\ q \in g.nodes
        BY <1>1, <2>2, <2>i, ClosureByInputs
      <3> QED BY <1>g, <2>2, <3>1 DEF LicensedAbove
    <2>5. SeedOf(licensed, d) = IF d \in DOMAIN licensed THEN {licensed[d]} ELSE {}
      <3>1. d \in DOMAIN licensed => {d} \cap DOMAIN licensed = {d}
        OBVIOUS
      <3>2. d \notin DOMAIN licensed => {d} \cap DOMAIN licensed = {}
        OBVIOUS
      <3> QED BY <3>1, <3>2 DEF SeedOf
    <2> HIDE DEF Sources, R
    <2>6. S \in SUBSET LicenseInfos
      BY <1>2, <2>3, <2>5, <2>k
    <2>7. k = CombineLicenses(S) /\ k \in LicenseInfos
      BY <1>j, <2>1, <2>6, CombinedIsOne DEF LicensesJoin
    <2>8. S # {} => IsCombined(k, S)
      BY <2>6, <2>7, CombinedIs
    <2>9. \A q \in I : flow[q] \in S
      BY <2>k
    <2>10. d \in DOMAIN licensed => licensed[d] \in S
      BY <2>5, <2>k
    <2>11. \A s \in S : (\E q \in I : s = flow[q]) \/ (d \in DOMAIN licensed /\ s = licensed[d])
      BY <2>5, <2>k
    <2>12. AsStrictAs(k, l)
      <3>1. CASE S = {}
        <4>1. LicensedAbove(d) = {}
          BY <2>4, <2>9, <2>10, <3>1
        <4>2. l = UnknownLicense /\ k = UnknownLicense
          BY <1>3, <2>7, <2>l, <3>1, <4>1 DEF CombineLicenses
        <4> QED BY <4>2
      <3>2. CASE S # {} /\ LicensedAbove(d) = {}
        <4>1. l.commercial = "unknown" /\ l.mining = "unknown"
          BY <1>3, <2>l, <3>2 DEF UnknownLicense
        <4>2. PICK q \in I : TRUE
          BY <2>4, <2>11, <3>2
        <4>3. EffectiveLicense(q) = UnknownLicense
          BY <1>3, <2>4, <3>2, <4>2
        <4>4. flow[q].commercial # "yes" /\ flow[q].mining # "yes"
          BY <2>3, <4>2, <4>3 DEF UnknownLicense
        <4>5. k.commercial # "yes" /\ k.mining # "yes"
          BY <2>8, <2>9, <3>2, <4>2, <4>4 DEF IsCombined
        <4> QED BY <4>1, <4>5
      <3>3. CASE S # {} /\ LicensedAbove(d) # {}
        <4>1. IsCombined(k, S) /\ IsCombined(l, TermsAbove(d))
          BY <1>3, <2>8, <2>l, <3>3
        <4>2. \A q \in I : \A y \in LicensedAbove(q) :
                /\ licensed[y].commercial = "no" => flow[q].commercial = "no"
                /\ flow[q].commercial = "yes" => licensed[y].commercial = "yes"
                /\ licensed[y].mining = "no" => flow[q].mining = "no"
                /\ flow[q].mining = "yes" => licensed[y].mining = "yes"
          <5> TAKE q \in I
          <5> TAKE y \in LicensedAbove(q)
          <5>1. IsCombined(EffectiveLicense(q), TermsAbove(q)) /\ licensed[y] \in TermsAbove(q)
            BY <1>3, <2>4 DEF TermsAbove
          <5> QED BY <2>3, <5>1 DEF IsCombined
        <4>3. \A y \in LicensedAbove(d) :
                /\ licensed[y].commercial = "no" => k.commercial = "no"
                /\ k.commercial = "yes" => licensed[y].commercial = "yes"
                /\ licensed[y].mining = "no" => k.mining = "no"
                /\ k.mining = "yes" => licensed[y].mining = "yes"
          <5> TAKE y \in LicensedAbove(d)
          <5>1. CASE y = d
            <6>1. licensed[y] \in S
              BY <2>4, <2>10, <5>1
            <6> QED BY <4>1, <6>1 DEF IsCombined
          <5>2. ASSUME NEW q \in I, y \in LicensedAbove(q)
                PROVE  /\ licensed[y].commercial = "no" => k.commercial = "no"
                       /\ k.commercial = "yes" => licensed[y].commercial = "yes"
                       /\ licensed[y].mining = "no" => k.mining = "no"
                       /\ k.mining = "yes" => licensed[y].mining = "yes"
            <6>1. flow[q] \in S
              BY <2>9
            <6> QED BY <4>1, <4>2, <5>2, <6>1 DEF IsCombined
          <5> QED BY <2>4, <5>1, <5>2
        <4> QED BY <4>1, <4>3 DEF IsCombined, TermsAbove
      <3> QED BY <3>1, <3>2, <3>3
    <2>13. ASSUME Sources(d) \subseteq DOMAIN licensed
           PROVE  LicensedAbove(d) # {} /\ IsCombined(k, TermsAbove(d))
      <3>1. \A q \in I : LicensedAbove(q) # {} /\ IsCombined(flow[q], TermsAbove(q))
        <4> TAKE q \in I
        <4>1. Sources(q) \subseteq Sources(d)
          BY <2>4
        <4>2. Sources(q) \subseteq DOMAIN licensed
          BY <2>13, <4>1
        <4> QED BY <2>3, <4>2
      <3>2. I # {} \/ d \in DOMAIN licensed
        <4>1. CASE I = {}
          <5>1. d \in Origins(g) /\ d \in Closure(g, d)
            BY <2>2, <2>i, <4>1 DEF Origins
          <5> QED BY <2>13, <5>1 DEF Sources
        <4> QED BY <4>1
      <3>3. LicensedAbove(d) # {} /\ S # {}
        BY <2>4, <2>9, <2>10, <3>1, <3>2
      <3>j. PICK K : K = I \cup ({d} \cap DOMAIN licensed)
        OBVIOUS
      <3>w. PICK w : w = [q \in K |-> IF q = d THEN licensed[d] ELSE flow[q]]
        OBVIOUS
      <3>p. PICK part : part = [q \in K |-> IF q = d THEN {licensed[d]} ELSE TermsAbove(q)]
        OBVIOUS
      <3>4. d \notin I /\ \A q \in K : q \in I \/ (q = d /\ d \in DOMAIN licensed)
        BY <2>i, <3>j
      <3>5. \A q \in I : q \in K /\ w[q] = flow[q] /\ part[q] = TermsAbove(q)
        BY <3>4, <3>j, <3>p, <3>w
      <3>6. d \in DOMAIN licensed => d \in K /\ w[d] = licensed[d] /\ part[d] = {licensed[d]}
        BY <3>j, <3>p, <3>w
      <3>7. \A q \in K : IsCombined(w[q], part[q])
        BY <1>2, <3>1, <3>4, <3>5, <3>6, CombinedOfOne
      <3>8. S = {w[q] : q \in K}
        <4>1. \A s \in S : \E q \in K : s = w[q]
          BY <2>11, <3>5, <3>6
        <4>2. \A q \in K : w[q] \in S
          BY <2>9, <2>10, <3>4, <3>5, <3>6
        <4> QED BY <4>1, <4>2
      <3>9. TermsAbove(d) = UNION {part[q] : q \in K}
        <4>1. ASSUME NEW y \in LicensedAbove(d) PROVE \E q \in K : licensed[y] \in part[q]
          <5>1. CASE y = d
            BY <2>4, <3>6, <5>1
          <5>2. ASSUME NEW q \in I, y \in LicensedAbove(q) PROVE \E p \in K : licensed[y] \in part[p]
            <6>1. licensed[y] \in TermsAbove(q)
              BY <5>2 DEF TermsAbove
            <6> QED BY <3>5, <6>1
          <5> QED BY <2>4, <5>1, <5>2
        <4>2. ASSUME NEW q \in K PROVE part[q] \subseteq TermsAbove(d)
          <5>1. CASE q \in I
            <6>1. LicensedAbove(q) \subseteq LicensedAbove(d) /\ part[q] = TermsAbove(q)
              BY <2>4, <3>5, <5>1
            <6> QED BY <6>1 DEF TermsAbove
          <5>2. CASE q = d /\ d \in DOMAIN licensed
            BY <2>4, <3>6, <5>2 DEF TermsAbove
          <5> QED BY <3>4, <5>1, <5>2
        <4>3. TermsAbove(d) \subseteq UNION {part[q] : q \in K}
          BY <4>1 DEF TermsAbove
        <4> QED BY <4>2, <4>3
      <3>10. IsCombined(k, S)
        BY <2>8, <3>3
      <3>11. IsCombined(k, TermsAbove(d))
        BY <3>7, <3>8, <3>9, <3>10, CombinedOfCombined
      <3> QED BY <3>3, <3>11
    <2> QED BY <2>7, <2>12, <2>13, <2>f, <2>l DEF R
  <1>5. \A d \in g.nodes : ~Twisted(g, d) => d \in R
    <2> HIDE DEF R
    <2> QED BY <1>1, <1>4, DownOffTheCycles
  <1>6. Agrees(e)
    BY <1>5, <1>g
  <1>7. EffectiveLicense(e) \in LicenseInfos /\ flow[e] \in LicenseInfos
    BY <1>3, <1>6, <1>g
  <1>8. /\ AsStrict(flow[e].commercial, EffectiveLicense(e).commercial)
        /\ AsStrict(flow[e].mining, EffectiveLicense(e).mining)
    <2>1. /\ flow[e].commercial \in Permissions /\ EffectiveLicense(e).commercial \in Permissions
          /\ flow[e].mining \in Permissions /\ EffectiveLicense(e).mining \in Permissions
      BY <1>7 DEF LicenseInfos
    <2> QED BY <1>6, <2>1, AsStrictIs
  <1>9. ASSUME Closure(corpus, e) \cap Origins(corpus) \subseteq DOMAIN licensed PROVE flow[e] = EffectiveLicense(e)
    <2>1. LicensedAbove(e) # {} /\ IsCombined(flow[e], TermsAbove(e))
      BY <1>6, <1>9, <1>g
    <2>2. IsCombined(EffectiveLicense(e), TermsAbove(e))
      BY <1>3, <1>g, <2>1
    <2> QED BY <2>1, <2>2, CombinedOnce
  <1> QED BY <1>8, <1>9

LEMMA NoTermLostFromTypes == LicenseInv => NoTermIsLost
  <1> SUFFICES ASSUME LicenseInv PROVE NoTermIsLost
    OBVIOUS
  <1>f. PICK flow : flow = PropagateLicenses
    OBVIOUS
  <1>1. ASSUME NEW d \in corpus.nodes, NEW l, l = EffectiveLicense(d), NEW target,
               target = [UnknownLicense EXCEPT !.commercial = "yes", !.derivatives = "yes"]
        PROVE  /\ LicenseIsClear(LicenseReport(d, TRUE, FALSE)) =>
                    /\ \A x \in LicensedAbove(d) :
                         IsCompatible(licensed[x], target) /\ ~LicenseIsUnknown(licensed[x])
                    /\ RestrictiveSources(d) = {} /\ d \notin Unlicensed
               /\ \A x \in LicensedAbove(d) : AsStrict(l.mining, licensed[x].mining)
               /\ \A a \in Ancestors(corpus, d) \ Unlicensed :
                    /\ AsStrict(CommercialUseAllowed(d), CommercialUseAllowed(a))
                    /\ AsStrict(TrainingPermitted(d), TrainingPermitted(a))
                    /\ a \in LicenseViolations(corpus.nodes) => d \in LicenseViolations(corpus.nodes)
               /\ AttributionRequired(d) <=> AttributionManifest(d) # {}
               /\ ~Twisted(corpus, d) =>
                    /\ AsStrict(flow[d].commercial, l.commercial) /\ AsStrict(flow[d].mining, l.mining)
                    /\ Closure(corpus, d) \cap Origins(corpus) \subseteq DOMAIN licensed => flow[d] = l
    <2>1. LicenseIsClear(LicenseReport(d, TRUE, FALSE)) =>
            /\ \A x \in LicensedAbove(d) : IsCompatible(licensed[x], target) /\ ~LicenseIsUnknown(licensed[x])
            /\ RestrictiveSources(d) = {} /\ d \notin Unlicensed
      BY <1>1, ClearMeansClear
    <2>2. /\ \A x \in LicensedAbove(d) : AsStrict(EffectiveLicense(d).mining, licensed[x].mining)
          /\ \A a \in Ancestors(corpus, d) \ Unlicensed :
               /\ AsStrict(CommercialUseAllowed(d), CommercialUseAllowed(a))
               /\ AsStrict(TrainingPermitted(d), TrainingPermitted(a))
               /\ a \in LicenseViolations(corpus.nodes) => d \in LicenseViolations(corpus.nodes)
          /\ AttributionRequired(d) <=> AttributionManifest(d) # {}
      BY TermsGoDown
    <2>3. ~Twisted(corpus, d) =>
            /\ AsStrict(flow[d].commercial, EffectiveLicense(d).commercial)
            /\ AsStrict(flow[d].mining, EffectiveLicense(d).mining)
            /\ Closure(corpus, d) \cap Origins(corpus) \subseteq DOMAIN licensed => flow[d] = EffectiveLicense(d)
      BY <1>f, LicensesAgree
    <2> QED BY <1>1, <2>1, <2>2, <2>3
  <1> QED BY <1>1, <1>f DEF NoTermIsLost

LEMMA LicenseInvInit == LicenseInit => LicenseInv
  <1> SUFFICES ASSUME LicenseInit PROVE LicenseInv
    OBVIOUS
  <1>1. << >> = [x \in DOMAIN << >> |-> << >>[x]] /\ DOMAIN << >> = {}
    OBVIOUS
  <1>2. << >> \in Partials(corpus.nodes, Licences)
    BY <1>1, PartialsAre
  <1> QED BY <1>2 DEF LicenseInit, LicenseInv

LEMMA LicenseInvStep == LicenseInv /\ (LicenseNext \/ UNCHANGED licenseVars) => LicenseInv'
  <1> SUFFICES ASSUME LicenseInv, LicenseNext \/ UNCHANGED licenseVars PROVE LicenseInv'
    OBVIOUS
  <1>1. ASSUME NEW d \in corpus.nodes, NEW l \in Licences, License(d, l) PROVE LicenseInv'
    <2>1. licensed' \in Partials(corpus.nodes, Licences)
      BY <1>1, PartialsGrow DEF License, LicenseInv
    <2> QED BY <1>1, <2>1 DEF License, LicenseInv
  <1>2. UNCHANGED licenseVars => LicenseInv'
    BY DEF licenseVars, LicenseInv
  <1> QED BY <1>1, <1>2 DEF LicenseNext

(***************************************************************************)
(* observe/freshness.py                                                    *)
(***************************************************************************)
FreshnessInv ==
  /\ pipeline \in Pipelines /\ instant \in 0 .. LastInstant
  /\ built \in Partials(pipeline.nodes, 0 .. instant)

LEMMA FreshnessInvInit == FreshnessInit => FreshnessInv
  <1> SUFFICES ASSUME FreshnessInit PROVE FreshnessInv
    OBVIOUS
  <1>1. << >> = [x \in DOMAIN << >> |-> << >>[x]] /\ DOMAIN << >> = {}
    OBVIOUS
  <1>2. << >> \in Partials(pipeline.nodes, 0 .. instant)
    BY <1>1, PartialsAre
  <1>3. LastInstant \in Nat
    BY FreshnessAssumption
  <1> QED BY <1>2, <1>3 DEF FreshnessInit, FreshnessInv

LEMMA FreshnessInvStep == FreshnessInv /\ (FreshnessNext \/ UNCHANGED freshnessVars) => FreshnessInv'
  <1> SUFFICES ASSUME FreshnessInv, FreshnessNext \/ UNCHANGED freshnessVars PROVE FreshnessInv'
    OBVIOUS
  <1>0. LastInstant \in Nat /\ instant \in Nat
    BY FreshnessAssumption DEF FreshnessInv
  <1>1. ASSUME NEW d \in pipeline.nodes, Build(d) PROVE FreshnessInv'
    <2>1. instant \in 0 .. instant
      BY <1>0
    <2>2. built' = [x \in DOMAIN built \cup {d} |-> IF x = d THEN instant ELSE built[x]]
      BY <1>1 DEF Build
    <2>3. built' \in Partials(pipeline.nodes, 0 .. instant)
      BY <2>1, <2>2, PartialsGrow DEF FreshnessInv
    <2> QED BY <1>1, <2>3 DEF Build, FreshnessInv
  <1>2. CASE Elapse
    <2>1. instant' = instant + 1 /\ pipeline' = pipeline /\ built' = built /\ instant < LastInstant
      BY <1>2 DEF Elapse
    <2>2. 0 .. instant \subseteq 0 .. instant + 1 /\ instant + 1 \in 0 .. LastInstant
      BY <1>0, <2>1
    <2>3. built \in Partials(pipeline.nodes, 0 .. instant + 1)
      <3>1. built = [x \in DOMAIN built |-> built[x]] /\ DOMAIN built \subseteq pipeline.nodes
            /\ \A x \in DOMAIN built : built[x] \in 0 .. instant
        BY PartialsAre DEF FreshnessInv
      <3>2. \A x \in DOMAIN built : built[x] \in 0 .. instant + 1
        BY <2>2, <3>1
      <3> QED BY <3>1, <3>2, PartialsAre
    <2> QED BY <2>1, <2>2, <2>3 DEF FreshnessInv
  <1>3. CASE UNCHANGED freshnessVars
    BY <1>3 DEF freshnessVars, FreshnessInv
  <1> QED BY <1>1, <1>2, <1>3 DEF FreshnessNext

\* Builds meet: the earliest of what is given, or later than any.
IsEarliest(n, S) == n \in S \cup {Never1} /\ \A s \in S \cup {Never1} : n <= s
EarliestJoin == [S \in SUBSET (0 .. Never1) |-> Min(S \cup {Never1})]

LEMMA EarliestIs ==
  ASSUME NEW S \in SUBSET (0 .. Never1)
  PROVE  /\ IsEarliest(EarliestJoin[S], S) /\ EarliestJoin[S] \in 0 .. Never1
         /\ \A n : IsEarliest(n, S) => n = EarliestJoin[S]
  <1>1. LastInstant \in Nat /\ Never1 \in Nat /\ Never1 \in 0 .. Never1
    BY FreshnessAssumption DEF Never1
  <1>t. PICK T : T = S \cup {Never1}
    OBVIOUS
  <1>2. T \in SUBSET (0 .. Never1) /\ T \in SUBSET Nat /\ T # {}
    BY <1>1, <1>t
  <1>3. PICK n \in T : \A m \in T : n <= m
    BY <1>2, LeastNumber
  <1>4. Min(T) \in T /\ \A m \in T : Min(T) <= m
    BY <1>3 DEF Min
  <1>5. EarliestJoin[S] = Min(T)
    BY <1>t DEF EarliestJoin
  <1>6. ASSUME NEW n2, IsEarliest(n2, S) PROVE n2 = Min(T)
    <2>1. n2 \in T /\ \A s \in T : n2 <= s
      BY <1>6, <1>t DEF IsEarliest
    <2>2. n2 \in Nat /\ Min(T) \in Nat /\ n2 <= Min(T) /\ Min(T) <= n2
      BY <1>2, <1>4, <2>1
    <2> QED BY <2>2
  <1>7. IsEarliest(Min(T), S) /\ Min(T) \in 0 .. Never1
    BY <1>2, <1>4, <1>t DEF IsEarliest
  <1> QED BY <1>5, <1>6, <1>7

LEMMA EarliestJoins ==
  Joins(0 .. Never1, [p \in (0 .. Never1) \X (0 .. Never1) |-> Min({p[1], p[2]})], EarliestJoin)
  <1>t. PICK T : T = 0 .. Never1
    OBVIOUS
  <1>c. PICK C : C = [p \in T \X T |-> Min({p[1], p[2]})]
    OBVIOUS
  <1>0. Never1 \in Nat /\ Never1 \in T /\ T \subseteq Nat /\ \A t \in T : t <= Never1
    BY FreshnessAssumption, <1>t DEF Never1
  <1>1. \A a, b \in T : Min({a, b}) \in {a, b} /\ Min({a, b}) <= a /\ Min({a, b}) <= b
    <2> TAKE a, b \in T
    <2>0. a \in Nat /\ b \in Nat
      BY <1>0
    <2>1. \E n \in {a, b} : \A m \in {a, b} : n <= m
      BY <2>0
    <2>2. Min({a, b}) \in {a, b} /\ \A m \in {a, b} : Min({a, b}) <= m
      BY <2>1 DEF Min
    <2> QED BY <2>2
  <1>2. C \in [T \X T -> T]
    <2>1. \A p \in T \X T : Min({p[1], p[2]}) \in T
      <3> TAKE p \in T \X T
      <3>1. p[1] \in T /\ p[2] \in T
        OBVIOUS
      <3>2. Min({p[1], p[2]}) \in {p[1], p[2]}
        BY <1>1, <3>1
      <3> QED BY <3>1, <3>2
    <2> QED BY <1>c, <2>1
  <1>3. EarliestJoin \in [SUBSET T -> T]
    <2>1. \A S \in SUBSET T : EarliestJoin[S] \in T
      BY <1>t, EarliestIs
    <2>2. EarliestJoin = [S \in SUBSET T |-> Min(S \cup {Never1})]
      BY <1>t DEF EarliestJoin
    <2> QED BY <2>1, <2>2
  <1>4. ASSUME NEW t \in T PROVE EarliestJoin[{t}] = t
    <2>1. {t} \in SUBSET (0 .. Never1)
      BY <1>t
    <2>2. t \in Nat /\ t <= t /\ t <= Never1
      BY <1>0
    <2>3. IsEarliest(t, {t})
      BY <2>2 DEF IsEarliest
    <2> QED BY <2>1, <2>3, EarliestIs
  <1>5. ASSUME NEW S \in SUBSET T, NEW t \in T, S # {}
        PROVE  EarliestJoin[S \cup {t}] = C[<<EarliestJoin[S], t>>]
    <2>e. PICK e : e = EarliestJoin[S]
      OBVIOUS
    <2>m. PICK m : m = Min({e, t})
      OBVIOUS
    <2>1. IsEarliest(e, S) /\ e \in T
      BY <1>t, <2>e, EarliestIs
    <2>2. m \in {e, t} /\ m <= e /\ m <= t /\ m \in Nat /\ e \in Nat
      BY <1>0, <1>1, <2>1, <2>m
    <2>3. C[<<e, t>>] = m
      <3>1. <<e, t>> \in T \X T /\ <<e, t>>[1] = e /\ <<e, t>>[2] = t
        BY <2>1
      <3> QED BY <1>c, <2>m, <3>1
    <2>4. \A s \in S \cup {Never1} : e <= s /\ s \in Nat
      BY <1>0, <2>1 DEF IsEarliest
    <2>5. \A s \in S \cup {Never1} : m <= s
      <3> TAKE s \in S \cup {Never1}
      <3>1. e <= s /\ s \in Nat
        BY <2>4
      <3> QED BY <2>2, <3>1
    <2>6. IsEarliest(m, S \cup {t})
      <3>1. m \in S \cup {t} \cup {Never1}
        BY <2>1, <2>2 DEF IsEarliest
      <3> QED BY <2>2, <2>5, <3>1 DEF IsEarliest
    <2>7. S \cup {t} \in SUBSET (0 .. Never1)
      BY <1>t
    <2> QED BY <2>3, <2>6, <2>7, <2>e, EarliestIs
  <1>6. Joins(T, C, EarliestJoin)
    BY <1>2, <1>3, <1>4, <1>5 DEF Joins
  <1> QED BY <1>6, <1>c, <1>t

MetBuilds(values) ==
  LET met[j \in 1 .. Len(values)] == IF j = 1 THEN values[1] ELSE Min({met[j - 1], values[j]})
  IN  met[Len(values)]
BuildsTurn(g, seeds, d, done) ==
  LET values == Contributions(g, d, done, seeds)
  IN  [x \in DOMAIN done \cup {d} |->
         IF x # d THEN done[x] ELSE IF values = << >> THEN Never1 ELSE MetBuilds(values)]

LEMMA BuildsMeet ==
  ASSUME NEW vs \in Seq(0 .. Never1), vs # << >>
  PROVE  MetBuilds(vs) = EarliestJoin[ToSet(vs)]
  <1>t. PICK T : T = 0 .. Never1
    OBVIOUS
  <1>j. PICK J : J = EarliestJoin
    OBVIOUS
  <1>c. PICK C : C = [p \in T \X T |-> Min({p[1], p[2]})]
    OBVIOUS
  <1>1. Joins(T, C, J)
    BY <1>t, <1>j, <1>c, EarliestJoins
  <1>2. vs \in Seq(T)
    BY <1>t
  <1>n. PICK n : n = Len(vs)
    OBVIOUS
  <1>3. n \in Nat /\ n >= 1 /\ \A i \in 1 .. n : vs[i] \in T
    BY <1>2, <1>n
  <1>k. PICK k \in [1 .. n -> T] : CombinedIn(k, C, vs) /\ k[n] = J[ToSet(vs)]
    BY <1>1, <1>2, <1>n, JoinedInTurn
  <1> DEFINE Meets(h) == h = [j \in 1 .. n |-> IF j = 1 THEN vs[1] ELSE Min({h[j - 1], vs[j]})]
             met == CHOOSE h : Meets(h)
  <1>4. Meets(k)
    <2>1. ASSUME NEW j \in 1 .. n PROVE k[j] = IF j = 1 THEN vs[1] ELSE Min({k[j - 1], vs[j]})
      <3>1. CASE j = 1
        BY <1>k, <3>1 DEF CombinedIn
      <3>2. CASE j # 1
        <4>1. j \in 2 .. n /\ j - 1 \in 1 .. n
          BY <1>3, <3>2
        <4>2. k[j] = C[<<k[j - 1], vs[j]>>]
          BY <1>k, <1>n, <4>1 DEF CombinedIn
        <4>3. k[j - 1] \in T /\ vs[j] \in T
          BY <1>3, <1>k, <4>1
        <4>4. C[<<k[j - 1], vs[j]>>] = Min({k[j - 1], vs[j]})
          BY <1>c, <4>3
        <4> QED BY <3>2, <4>2, <4>4
      <3> QED BY <3>1, <3>2
    <2> QED BY <1>k, <2>1
  <1>5. Meets(met)
    <2> HIDE DEF Meets
    <2> QED BY <1>4
  <1>6. MetBuilds(vs) = met[n]
    BY <1>n DEF MetBuilds
  <1> HIDE DEF met
  <1> DEFINE Q == {i \in 0 .. n : i # 0 => met[i] = k[i]}
  <1>7. 0 \in Q
    BY <1>3
  <1>8. ASSUME NEW i \in 0 .. n, i + 1 \in 0 .. n, i \in Q PROVE i + 1 \in Q
    <2>1. i + 1 \in 1 .. n /\ (i + 1) - 1 = i
      BY <1>3, <1>8
    <2>2. /\ met[i + 1] = IF i + 1 = 1 THEN vs[1] ELSE Min({met[i], vs[i + 1]})
          /\ k[i + 1] = IF i + 1 = 1 THEN vs[1] ELSE Min({k[i], vs[i + 1]})
      <3>1. \A h : Meets(h) => h[i + 1] = IF i + 1 = 1 THEN vs[1] ELSE Min({h[i], vs[i + 1]})
        BY <2>1
      <3> HIDE DEF Meets
      <3> QED BY <1>4, <1>5, <3>1
    <2>3. i + 1 # 1 => i # 0
      OBVIOUS
    <2> HIDE DEF Meets
    <2> QED BY <1>8, <2>2, <2>3
  <1>9. \A i \in 0 .. n : i \in Q
    <2> HIDE DEF Q
    <2> QED BY <1>3, <1>7, <1>8, UpTo
  <1>10. met[n] = k[n]
    BY <1>3, <1>9
  <1> QED BY <1>6, <1>10, <1>k, <1>j

LEMMA BuildsFlow ==
  ASSUME NEW g, IsLineage(g), NEW seeds \in Partials(g.nodes, 0 .. Never1)
  PROVE  \E m : /\ KahnsOrder(g, TopologicalOrder(g), m)
                /\ IsFlow(g, EarliestJoin, seeds, TopologicalOrder(g), Len(TopologicalOrder(g)),
                          FoldDownstream(g, seeds, LAMBDA a, b : Min({a, b}), Never1))
  <1>o. PICK order : order = TopologicalOrder(g)
    OBVIOUS
  <1>n. PICK N : N = Len(order)
    OBVIOUS
  <1>t. PICK T : T = 0 .. Never1
    OBVIOUS
  <1>j. PICK J : J = EarliestJoin
    OBVIOUS
  <1>m. PICK m : KahnsOrder(g, order, m)
    BY <1>o, OrderIsKahns
  <1>1. order \in Seq(g.nodes) /\ (\A i, j \in 1 .. N : order[i] = order[j] => i = j)
        /\ N \in Nat /\ \A i \in 1 .. N : order[i] \in g.nodes
    BY <1>m, <1>n DEF KahnsOrder
  <1>2. J \in [SUBSET T -> T] /\ seeds \in Partials(g.nodes, T)
    BY <1>t, <1>j, EarliestJoins DEF Joins
  <1>f. PICK f \in [0 .. N -> Partials(g.nodes, T)] :
          FlowsIn(f, g, J, seeds, order) /\ IsFlow(g, J, seeds, order, N, f[N])
    BY <1>1, <1>2, <1>n, FlowsExist
  <1> DEFINE Runs(h) == h = [i \in 0 .. N |-> IF i = 0 THEN << >> ELSE BuildsTurn(g, seeds, order[i], h[i - 1])]
             after1 == CHOOSE h : Runs(h)
  <1>3. FoldDownstream(g, seeds, LAMBDA a, b : Min({a, b}), Never1) = after1[N]
    BY <1>o, <1>n DEF FoldDownstream, BuildsTurn, MetBuilds
  <1>4. ASSUME NEW i \in 1 .. N PROVE f[i] = BuildsTurn(g, seeds, order[i], f[i - 1])
    <2>1. i - 1 \in 0 .. N /\ f[i] = FlowTurn(g, J, seeds, order[i], f[i - 1])
      BY <1>1, <1>f, <1>n DEF FlowsIn
    <2>d. PICK done \in Partials(g.nodes, T) : done = f[i - 1]
      BY <1>f, <2>1
    <2>e. PICK d : d = order[i]
      OBVIOUS
    <2>v. PICK vs : vs = Contributions(g, d, done, seeds)
      OBVIOUS
    <2>2. vs \in Seq(T) /\ ToSet(vs) = Given(g, d, done, seeds)
      BY <1>2, <2>v, ContributionsAre
    <2>3. CASE vs = << >>
      <3>1. Given(g, d, done, seeds) = {}
        BY <2>2, <2>3 DEF ToSet
      <3>2. {} \in SUBSET (0 .. Never1)
        OBVIOUS
      <3>3. J[Given(g, d, done, seeds)] = Never1
        <4>1. IsEarliest(J[{}], {})
          BY <1>j, <3>2, EarliestIs
        <4> QED BY <3>1, <4>1 DEF IsEarliest
      <3> QED BY <2>1, <2>d, <2>e, <2>v, <2>3, <3>3 DEF FlowTurn, BuildsTurn
    <2>4. CASE vs # << >>
      <3>1. MetBuilds(vs) = J[Given(g, d, done, seeds)]
        BY <1>t, <1>j, <2>2, <2>4, BuildsMeet
      <3> QED BY <2>1, <2>d, <2>e, <2>v, <2>4, <3>1 DEF FlowTurn, BuildsTurn
    <2> QED BY <2>3, <2>4
  <1>5. Runs(f)
    <2>1. f[0] = << >>
      BY <1>f DEF FlowsIn
    <2> QED BY <1>1, <1>4, <1>f, <2>1
  <1>6. Runs(after1)
    <2> HIDE DEF Runs
    <2> QED BY <1>5
  <1> HIDE DEF after1
  <1> DEFINE Q == {i \in 0 .. N : after1[i] = f[i]}
  <1>7. 0 \in Q
    <2>1. \A h : Runs(h) => h[0] = << >>
      BY <1>1
    <2> HIDE DEF Runs
    <2> QED BY <1>1, <1>5, <1>6, <2>1
  <1>8. ASSUME NEW i \in 0 .. N, i + 1 \in 0 .. N, i \in Q PROVE i + 1 \in Q
    <2>1. \A h : Runs(h) => h[i + 1] = BuildsTurn(g, seeds, order[i + 1], h[i])
      <3>1. i + 1 \in 0 .. N /\ i + 1 # 0 /\ (i + 1) - 1 = i
        BY <1>1, <1>8
      <3>2. ASSUME NEW h, Runs(h) PROVE h[i + 1] = BuildsTurn(g, seeds, order[i + 1], h[(i + 1) - 1])
        BY <3>1, <3>2
      <3> HIDE DEF Runs
      <3> QED BY <3>1, <3>2
    <2> HIDE DEF Runs
    <2> QED BY <1>5, <1>6, <1>8, <2>1
  <1>9. \A i \in 0 .. N : i \in Q
    <2> HIDE DEF Q
    <2> QED BY <1>1, <1>7, <1>8, UpTo
  <1>10. after1[N] = f[N]
    BY <1>1, <1>9
  <1> QED BY <1>3, <1>10, <1>f, <1>j, <1>m, <1>n, <1>o

LEMMA AgesAre ==
  ASSUME FreshnessInv, NEW d \in pipeline.nodes
  PROVE  /\ IsLineage(pipeline) /\ DOMAIN built \subseteq pipeline.nodes /\ instant \in Nat
         /\ \A x \in DOMAIN built : built[x] \in 0 .. instant /\ Age(x) \in Nat
         /\ MeasuredAbove(d) = {} => EffectiveAge(d) = -1
         /\ MeasuredAbove(d) # {} =>
              /\ EffectiveAge(d) \in Nat /\ \E x \in MeasuredAbove(d) : Age(x) = EffectiveAge(d)
              /\ \A x \in MeasuredAbove(d) : Age(x) <= EffectiveAge(d)
  <1>1. IsLineage(pipeline) /\ instant \in Nat
    BY FreshnessAssumption DEF FreshnessInv
  <1>2. DOMAIN built \subseteq pipeline.nodes /\ \A x \in DOMAIN built : built[x] \in 0 .. instant
    BY PartialsAre DEF FreshnessInv
  <1>3. \A x \in DOMAIN built : Age(x) \in Nat
    BY <1>1, <1>2 DEF Age
  <1>4. ASSUME MeasuredAbove(d) # {}
        PROVE  /\ EffectiveAge(d) \in Nat /\ \E x \in MeasuredAbove(d) : Age(x) = EffectiveAge(d)
               /\ \A x \in MeasuredAbove(d) : Age(x) <= EffectiveAge(d)
    <2>m. PICK M : M = MeasuredAbove(d)
      OBVIOUS
    <2>a. PICK age : age = [x \in M |-> Age(x)]
      OBVIOUS
    <2>s. PICK S : S = {Age(x) : x \in M}
      OBVIOUS
    <2>1. M \subseteq pipeline.nodes /\ M \subseteq DOMAIN built
      BY <1>2, <2>m DEF MeasuredAbove
    <2>2. IsFiniteSet(M)
      BY <1>1, <2>1, FS_Subset DEF IsLineage
    <2>3. IsFiniteSet(S)
      <3>1. IsFiniteSet({age[x] : x \in M}) 
        BY <2>2, <2>a, ImageIsFinite
      <3>2. {age[x] : x \in M} = S
        BY <2>a, <2>s
      <3> QED BY <3>1, <3>2
    <2>4. S \in SUBSET Int /\ S # {} /\ S \subseteq Nat
      BY <1>3, <1>4, <2>1, <2>m, <2>s
    <2>5. Max(S) \in S /\ \A n \in S : Max(S) >= n
      BY <2>3, <2>4, GreatestIs
    <2>6. EffectiveAge(d) = Max(S)
      BY <1>4, <2>m, <2>s DEF EffectiveAge
    <2>7. \A x \in M : Age(x) \in S /\ Age(x) \in Nat /\ Max(S) \in Nat
      BY <2>4, <2>5, <2>s
    <2>8. \A x \in M : Age(x) <= Max(S)
      <3> TAKE x \in M
      <3>1. Max(S) >= Age(x) /\ Age(x) \in Nat /\ Max(S) \in Nat
        BY <2>5, <2>7
      <3> QED BY <3>1
    <2> QED BY <2>4, <2>5, <2>6, <2>8, <2>m, <2>s
  <1>5. MeasuredAbove(d) = {} => EffectiveAge(d) = -1
    BY DEF EffectiveAge
  <1> QED BY <1>1, <1>2, <1>3, <1>4, <1>5

\* Off the cycles, the one pass finds the oldest build above a dataset.
LEMMA OldestOffTheCycles ==
  ASSUME FreshnessInv, NEW flow, flow = PropagateFreshness, NEW e \in pipeline.nodes, ~Twisted(pipeline, e)
  PROVE  flow[e] = EarliestJoin[{built[x] : x \in MeasuredAbove(e)}]
  <1>g. PICK g : g = pipeline
    OBVIOUS
  <1>1. IsLineage(g) /\ instant \in Nat /\ Never1 \in Nat /\ instant < Never1
    BY <1>g, FreshnessAssumption DEF FreshnessInv, Never1
  <1>2. DOMAIN built \subseteq g.nodes /\ (\A x \in DOMAIN built : built[x] \in 0 .. Never1)
        /\ built \in Partials(g.nodes, 0 .. Never1)
    <2>1. built = [x \in DOMAIN built |-> built[x]] /\ DOMAIN built \subseteq g.nodes
          /\ \A x \in DOMAIN built : built[x] \in 0 .. instant
      BY <1>g, PartialsAre DEF FreshnessInv
    <2>2. \A x \in DOMAIN built : built[x] \in 0 .. Never1
      BY <1>1, <2>1
    <2> QED BY <2>1, <2>2, PartialsAre
  <1>o. PICK order : order = TopologicalOrder(g)
    OBVIOUS
  <1>j. PICK J : J = EarliestJoin
    OBVIOUS
  <1>m. PICK m : KahnsOrder(g, order, m) /\ IsFlow(g, J, built, order, Len(order), flow)
    BY <1>1, <1>2, <1>g, <1>j, <1>o, BuildsFlow DEF PropagateFreshness
  <1> DEFINE BuildsAbove(d) == {built[x] : x \in MeasuredAbove(d)}
             R == {d \in g.nodes : flow[d] = J[BuildsAbove(d)]}
  <1>3. \A d : BuildsAbove(d) \in SUBSET (0 .. Never1)
    BY <1>2 DEF MeasuredAbove
  <1>4. ASSUME NEW d \in g.nodes, ~Twisted(g, d), \A q \in Parents(g, d) \ {d} : q \in R
        PROVE  d \in R
    <2>i. PICK I : I = Parents(g, d) \ {d}
      OBVIOUS
    <2>k. PICK S : S = {flow[q] : q \in I} \cup SeedOf(built, d)
      OBVIOUS
    <2>b. PICK B : B = BuildsAbove(d)
      OBVIOUS
    <2>1. flow[d] = J[S]
      BY <1>1, <1>m, <1>4, <2>i, <2>k, FlowOffTheCycles
    <2>2. Closure(g, d) = {d} \cup UNION {Closure(g, q) : q \in I} /\ Closure(g, d) \subseteq g.nodes
      BY <1>1, <2>i, ClosureByInputs
    <2>3. \A q \in I : flow[q] = J[BuildsAbove(q)]
      BY <1>4, <2>i
    <2>4. /\ \A q \in I : MeasuredAbove(q) \subseteq MeasuredAbove(d)
          /\ \A y \in MeasuredAbove(d) : y = d \/ \E q \in I : y \in MeasuredAbove(q)
          /\ d \in DOMAIN built => d \in MeasuredAbove(d)
          /\ \A y \in MeasuredAbove(d) : y \in DOMAIN built
      <3>1. \A q \in I : Closure(g, q) \subseteq Closure(g, d)
        BY <2>2
      <3> QED BY <1>g, <2>2, <3>1 DEF MeasuredAbove
    <2>5. SeedOf(built, d) = IF d \in DOMAIN built THEN {built[d]} ELSE {}
      <3>1. d \in DOMAIN built => {d} \cap DOMAIN built = {d}
        OBVIOUS
      <3>2. d \notin DOMAIN built => {d} \cap DOMAIN built = {}
        OBVIOUS
      <3> QED BY <3>1, <3>2 DEF SeedOf
    <2>6. \A q \in I : BuildsAbove(q) \subseteq B
      BY <2>4, <2>b
    <2>7. \A b \in B : (d \in DOMAIN built /\ b = built[d]) \/ \E q \in I : b \in BuildsAbove(q)
      BY <2>4, <2>b
    <2>8. d \in DOMAIN built => built[d] \in B
      BY <2>4, <2>b
    <2>9. B \in SUBSET (0 .. Never1) /\ \A q \in I : BuildsAbove(q) \in SUBSET (0 .. Never1)
      BY <1>3, <2>b
    <2> HIDE DEF BuildsAbove, R
    <2>10. \A q \in I : flow[q] \in 0 .. Never1 /\ IsEarliest(flow[q], BuildsAbove(q))
      <3> TAKE q \in I
      <3>1. IsEarliest(J[BuildsAbove(q)], BuildsAbove(q)) /\ J[BuildsAbove(q)] \in 0 .. Never1
        BY <1>j, <2>9, EarliestIs
      <3> QED BY <2>3, <3>1
    <2>11. S \in SUBSET (0 .. Never1)
      BY <1>2, <2>5, <2>10, <2>k
    <2>12. \A s \in S : (d \in DOMAIN built /\ s = built[d]) \/ \E q \in I : s = flow[q]
      BY <2>5, <2>k
    <2>13. (d \in DOMAIN built => built[d] \in S) /\ \A q \in I : flow[q] \in S
      BY <2>5, <2>k
    <2>n. PICK n : n = J[S]
      OBVIOUS
    <2>14. IsEarliest(n, S) /\ n \in 0 .. Never1
      BY <1>j, <2>11, <2>n, EarliestIs
    <2>15. n \in B \cup {Never1}
      <3>1. n \in S => n \in B \cup {Never1}
        BY <2>6, <2>8, <2>10, <2>12 DEF IsEarliest
      <3> QED BY <2>14, <3>1 DEF IsEarliest
    <2>16. ASSUME NEW b \in B \cup {Never1} PROVE n <= b
      <3>1. CASE b = Never1
        BY <2>14, <3>1 DEF IsEarliest
      <3>2. CASE d \in DOMAIN built /\ b = built[d]
        BY <2>13, <2>14, <3>2 DEF IsEarliest
      <3>3. ASSUME NEW q \in I, b \in BuildsAbove(q) PROVE n <= b
        <4>1. n <= flow[q] /\ flow[q] <= b
          BY <2>10, <2>13, <2>14, <3>3 DEF IsEarliest
        <4>2. n \in Nat /\ flow[q] \in Nat /\ b \in Nat
          BY <2>9, <2>10, <2>14, <3>3
        <4> QED BY <4>1, <4>2
      <3> QED BY <2>7, <3>1, <3>2, <3>3
    <2>17. IsEarliest(n, B)
      BY <2>15, <2>16 DEF IsEarliest
    <2>18. n = J[B]
      BY <1>j, <2>9, <2>17, EarliestIs
    <2> QED BY <2>1, <2>18, <2>b, <2>n DEF R
  <1>5. \A d \in g.nodes : ~Twisted(g, d) => d \in R
    <2> HIDE DEF R
    <2> QED BY <1>1, <1>4, DownOffTheCycles
  <1> QED BY <1>5, <1>g, <1>j

LEMMA FreshnessFromInv == FreshnessInv => ReportedFreshnessIsTransitive
  <1> SUFFICES ASSUME FreshnessInv PROVE ReportedFreshnessIsTransitive
    OBVIOUS
  <1>r. PICK r : r = FreshnessReport(pipeline.nodes)
    OBVIOUS
  <1>f. PICK flow : flow = PropagateFreshness
    OBVIOUS
  <1>0. MaxAge \in Nat /\ Interval \in Nat
    BY FreshnessAssumption
  <1>1. /\ \A d \in r.ok : d \in pipeline.nodes /\ EffectiveAge(d) # -1 /\ ~IsLate(d) /\ ~IsStale(d)
        /\ \A d \in r.stale : d \in pipeline.nodes /\ EffectiveAge(d) # -1 /\ IsStale(d)
    BY <1>r DEF FreshnessReport
  <1>2. \A d \in r.ok : \A x \in Closure(pipeline, d) \cap DOMAIN built : Age(x) <= MaxAge
    <2> TAKE d \in r.ok
    <2> TAKE x \in Closure(pipeline, d) \cap DOMAIN built
    <2>1. x \in MeasuredAbove(d) /\ d \in pipeline.nodes /\ ~(EffectiveAge(d) > MaxAge)
      BY <1>1 DEF MeasuredAbove, IsStale
    <2>2. EffectiveAge(d) \in Nat /\ Age(x) <= EffectiveAge(d) /\ Age(x) \in Nat
      BY <2>1, AgesAre
    <2> QED BY <1>0, <2>1, <2>2
  <1>3. \A d \in r.ok : d \in DOMAIN built /\ Age(d) <= Interval /\ IsFresh(d)
    <2> TAKE d \in r.ok
    <2>1. d \in pipeline.nodes /\ EffectiveAge(d) # -1 /\ ~(EffectiveAge(d) > MaxAge) /\ d \in DOMAIN built
          /\ ~(Age(d) > Interval)
      BY <1>1 DEF IsLate, IsStale
    <2>2. EffectiveAge(d) \in Nat /\ Age(d) \in Nat
      BY <2>1, AgesAre
    <2>3. EffectiveAge(d) <= MaxAge /\ Age(d) <= Interval
      BY <1>0, <2>1, <2>2
    <2> QED BY <2>1, <2>3 DEF IsFresh
  <1>4. ASSUME NEW d \in r.stale, NEW c \in Blame(d), NEW way, way = FreshnessPath(d, c)
        PROVE  /\ c \in StaleClosure(d) /\ way[1] = c /\ way[Len(way)] = d
               /\ \A i \in 1 .. Len(way) - 1 : way[i + 1] \in Children(pipeline, way[i])
    <2>1. d \in pipeline.nodes /\ EffectiveAge(d) > MaxAge
      BY <1>1 DEF IsStale
    <2>2. c \in MeasuredAbove(d) /\ Age(c) = EffectiveAge(d)
      BY <1>4 DEF Blame
    <2>3. c \in Closure(pipeline, d) /\ c \in DOMAIN built
      BY <2>2 DEF MeasuredAbove
    <2>4. c \in StaleClosure(d)
      BY <2>1, <2>2, <2>3 DEF StaleClosure
    <2>5. IsLineage(pipeline) /\ c \in pipeline.nodes
      BY <2>1, <2>3, AgesAre
    <2>6. CASE c = d
      <3>1. way = <<d>> /\ Len(way) = 1 /\ way[1] = d
        BY <1>4, <2>6 DEF FreshnessPath
      <3>2. \A i \in 1 .. Len(way) - 1 : FALSE
        BY <3>1
      <3> QED BY <2>4, <2>6, <3>1, <3>2
    <2>7. CASE c # d
      <3>w. PICK w : w = ShortestPath(pipeline, c, d)
        OBVIOUS
      <3>1. w # << >> /\ Head(w) = c /\ Last(w) = d /\ \A i \in 1 .. Len(w) - 1 : w[i + 1] \in Children(pipeline, w[i])
        BY <2>1, <2>3, <2>5, <3>w, RoutesAreWays
      <3>2. way = w
        BY <1>4, <2>7, <3>1, <3>w DEF FreshnessPath
      <3>3. Head(w) = w[1] /\ Last(w) = w[Len(w)]
        BY DEF Head, Last
      <3> QED BY <2>4, <3>1, <3>2, <3>3
    <2> QED BY <2>6, <2>7
  <1>5. ASSUME NEW d \in pipeline.nodes, ~Twisted(pipeline, d)
        PROVE  flow[d] = IF EffectiveAge(d) = -1 THEN Never1 ELSE instant - EffectiveAge(d)
    <2>b. PICK B : B = {built[x] : x \in MeasuredAbove(d)}
      OBVIOUS
    <2>2. flow[d] = EarliestJoin[B]
      BY <1>5, <1>f, <2>b, OldestOffTheCycles
    <2>3. /\ instant \in Nat
          /\ \A x \in DOMAIN built : built[x] \in 0 .. instant
          /\ MeasuredAbove(d) = {} => EffectiveAge(d) = -1
          /\ MeasuredAbove(d) # {} =>
              /\ EffectiveAge(d) \in Nat /\ \E x \in MeasuredAbove(d) : Age(x) = EffectiveAge(d)
              /\ \A x \in MeasuredAbove(d) : Age(x) <= EffectiveAge(d)
      BY AgesAre
    <2>4. Never1 \in Nat /\ instant < Never1
      BY FreshnessAssumption, <2>3 DEF FreshnessInv, Never1
    <2>5. B \in SUBSET (0 .. Never1)
      <3>1. \A x \in MeasuredAbove(d) : built[x] \in 0 .. instant
        BY <2>3 DEF MeasuredAbove
      <3>2. \A x \in MeasuredAbove(d) : built[x] \in 0 .. Never1
        BY <2>3, <2>4, <3>1
      <3> QED BY <2>b, <3>2
    <2>6. CASE MeasuredAbove(d) = {}
      <3>1. B = {} /\ EffectiveAge(d) = -1
        BY <2>3, <2>6, <2>b
      <3>2. IsEarliest(EarliestJoin[B], B)
        BY <2>5, EarliestIs
      <3> QED BY <2>2, <3>1, <3>2 DEF IsEarliest
    <2>7. CASE MeasuredAbove(d) # {}
      <3>a. PICK a \in Nat : a = EffectiveAge(d)
        BY <2>3, <2>7
      <3>1. PICK x \in MeasuredAbove(d) : instant - built[x] = a
        BY <2>3, <2>7, <3>a DEF Age
      <3>2. x \in DOMAIN built /\ built[x] \in 0 .. instant
        BY <2>3, <3>1 DEF MeasuredAbove
      <3>3. instant - a = built[x]
        BY <2>3, <3>1, <3>2
      <3>4. instant - a \in B
        BY <2>b, <3>1, <3>3
      <3>5. ASSUME NEW s \in B \cup {Never1} PROVE instant - a <= s
        <4>1. CASE s = Never1
          BY <2>3, <2>4, <3>2, <3>3, <4>1
        <4>2. CASE s \in B
          <5>1. PICK y \in MeasuredAbove(d) : s = built[y]
            BY <2>b, <4>2
          <5>2. instant - built[y] <= a /\ built[y] \in 0 .. instant
            BY <2>3, <3>a, <5>1 DEF Age, MeasuredAbove
          <5> QED BY <2>3, <5>1, <5>2
        <4> QED BY <3>5, <4>1, <4>2
      <3>6. IsEarliest(instant - a, B)
        BY <3>4, <3>5 DEF IsEarliest
      <3>7. instant - a = EarliestJoin[B]
        BY <2>5, <3>6, EarliestIs
      <3>8. a # -1
        OBVIOUS
      <3> QED BY <2>2, <3>7, <3>8, <3>a
    <2> QED BY <2>6, <2>7
  <1>6. ASSUME FreshnessIsClean(FreshnessReport(SLAsFrom)), NEW l \in SLAsFrom, NEW d \in Closure(pipeline, l),
               d \in r.stale
        PROVE  FALSE
    <2>1. l \in pipeline.nodes /\ d \in pipeline.nodes /\ EffectiveAge(d) > MaxAge /\ EffectiveAge(d) # -1
      BY <1>1, <1>6 DEF SLAsFrom, Leaves, IsStale
    <2>2. ~(EffectiveAge(l) > MaxAge)
      <3>1. EffectiveAge(l) # -1 => ~IsStale(l)
        BY <1>6 DEF FreshnessIsClean, FreshnessReport
      <3>2. l \in SLAsFrom => EffectiveAge(l) # -1
        BY <1>6 DEF FreshnessIsClean, FreshnessReport
      <3> QED BY <3>1, <3>2 DEF IsStale
    <2>3. MeasuredAbove(d) # {}
      BY <2>1, AgesAre
    <2>4. EffectiveAge(d) \in Nat /\ \E x \in MeasuredAbove(d) : Age(x) = EffectiveAge(d)
      BY <2>1, <2>3, AgesAre
    <2>5. PICK x \in MeasuredAbove(d) : Age(x) = EffectiveAge(d)
      BY <2>4
    <2>6. Closure(pipeline, d) \subseteq Closure(pipeline, l)
      <3>1. IsLineage(pipeline)
        BY <2>1, AgesAre
      <3> QED BY <1>6, <2>1, <3>1, AncestorsAndDescendants
    <2>7. x \in MeasuredAbove(l)
      BY <2>5, <2>6 DEF MeasuredAbove
    <2>8. EffectiveAge(l) \in Nat /\ Age(x) <= EffectiveAge(l)
      BY <2>1, <2>7, AgesAre
    <2> QED BY <1>0, <2>1, <2>2, <2>4, <2>5, <2>8
  <1> QED BY <1>2, <1>3, <1>4, <1>5, <1>6, <1>r, <1>f DEF ReportedFreshnessIsTransitive

(***************************************************************************)
(* observe/completeness.py                                                 *)
(***************************************************************************)
Shipments == [key : Nat \X Slices, content : Digests]
Receipts  == [key : Nat \X Slices, observed : Nat, digest : Digests \cup {NoDigest}]
Tells(e, l) == e.key = l.key /\ e.digest \in {l.content, NoDigest}

\* What is logged was written, and what was written is logged.
ArrivalsInv ==
  /\ landed \in Seq(Shipments) /\ arrivalLog \in Seq(Receipts) /\ period \in Nat
  /\ unsure \subseteq ToSet(arrivalLog)
  /\ \A e \in ToSet(arrivalLog) : \E l \in ToSet(landed) : Tells(e, l)
  /\ \A l \in ToSet(landed) : \E e \in ToSet(arrivalLog) : Tells(e, l)

LEMMA ArrivalsInvInit == ArrivalsInit => ArrivalsInv
  <1> SUFFICES ASSUME ArrivalsInit PROVE ArrivalsInv
    OBVIOUS
  <1>1. landed = << >> /\ arrivalLog = << >> /\ unsure = {} /\ period = 1
    BY DEF ArrivalsInit
  <1>2. ToSet(landed) = {} /\ ToSet(arrivalLog) = {}
    BY <1>1 DEF ToSet
  <1> QED BY <1>1, <1>2 DEF ArrivalsInv

LEMMA LandingsAre ==
  ASSUME NEW batch \in Landings
  PROVE  batch \in Seq(Shipments)
  <1>1. CASE batch \in {<<[key |-> <<p, s>>, content |-> c]>> : p \in Periods, s \in Slices, c \in Digests}
    <2>1. PICK p \in Periods, s \in Slices, c \in Digests : batch = <<[key |-> <<p, s>>, content |-> c]>>
      BY <1>1
    <2>2. [key |-> <<p, s>>, content |-> c] \in Shipments
      BY <2>1, ArrivalsAssumption DEF Shipments
    <2> QED BY <2>1, <2>2
  <1>2. CASE batch \in {<<[key |-> <<p, s>>, content |-> c], [key |-> <<p + 1, s>>, content |-> c]>> :
                          p \in Periods, s \in Slices, c \in Digests}
    <2>1. PICK p \in Periods, s \in Slices, c \in Digests :
            batch = <<[key |-> <<p, s>>, content |-> c], [key |-> <<p + 1, s>>, content |-> c]>>
      BY <1>2
    <2>2. [key |-> <<p, s>>, content |-> c] \in Shipments /\ [key |-> <<p + 1, s>>, content |-> c] \in Shipments
      BY <2>1, ArrivalsAssumption DEF Shipments
    <2> QED BY <2>1, <2>2
  <1> QED BY <1>1, <1>2 DEF Landings

LEMMA ArrivalsInvStep == ArrivalsInv /\ (ArrivalsNext \/ UNCHANGED arrivalVars) => ArrivalsInv'
  <1> SUFFICES ASSUME ArrivalsInv, ArrivalsNext \/ UNCHANGED arrivalVars PROVE ArrivalsInv'
    OBVIOUS
  <1>0. /\ landed \in Seq(Shipments) /\ arrivalLog \in Seq(Receipts) /\ period \in Nat
        /\ unsure \subseteq ToSet(arrivalLog)
        /\ \A e \in ToSet(arrivalLog) : \E l \in ToSet(landed) : Tells(e, l)
        /\ \A l \in ToSet(landed) : \E e \in ToSet(arrivalLog) : Tells(e, l)
    BY DEF ArrivalsInv
  <1>1. ASSUME NEW batch \in Landings, NEW hashed \in BOOLEAN, Land(batch, hashed) PROVE ArrivalsInv'
    <2>n. PICK new : new = [i \in DOMAIN batch |-> Entry(batch[i], period, IF hashed THEN batch[i].content ELSE NoDigest)]
      OBVIOUS
    <2>1. landed' = landed \o batch /\ arrivalLog' = arrivalLog \o new /\ unsure' = ToSet(new) /\ period' = period
      BY <1>1, <2>n DEF Land
    <2>2. batch \in Seq(Shipments)
      BY LandingsAre
    <2>3. \A i \in DOMAIN batch : batch[i] \in Shipments
      BY <2>2
    <2>4. \A i \in DOMAIN batch : new[i] \in Receipts /\ Tells(new[i], batch[i])
      <3> TAKE i \in DOMAIN batch
      <3>1. batch[i] \in Shipments
        BY <2>3
      <3>2. new[i] = [key |-> batch[i].key, observed |-> period, digest |-> IF hashed THEN batch[i].content ELSE NoDigest]
        BY <2>n DEF Entry
      <3> QED BY <1>0, <3>1, <3>2 DEF Shipments, Receipts, Tells
    <2>5. new \in Seq(Receipts) /\ DOMAIN new = DOMAIN batch
      <3>1. Len(batch) \in Nat /\ DOMAIN batch = 1 .. Len(batch)
        BY <2>2
      <3> QED BY <2>4, <2>n, <3>1
    <2>6. /\ landed' \in Seq(Shipments) /\ ToSet(landed') = ToSet(landed) \cup ToSet(batch)
          /\ arrivalLog' \in Seq(Receipts) /\ ToSet(arrivalLog') = ToSet(arrivalLog) \cup ToSet(new)
      BY <1>0, <2>1, <2>2, <2>5, SetOfConcat
    <2>7. /\ \A e \in ToSet(new) : \E l \in ToSet(batch) : Tells(e, l)
          /\ \A l \in ToSet(batch) : \E e \in ToSet(new) : Tells(e, l)
      BY <2>4, <2>5 DEF ToSet
    <2> QED BY <1>0, <2>1, <2>6, <2>7 DEF ArrivalsInv
  <1>2. ASSUME Retry PROVE ArrivalsInv'
    <2>1. PICK e \in unsure : arrivalLog' = Append(arrivalLog, [e EXCEPT !.observed = period])
      BY <1>2 DEF Retry
    <2>2. unsure' = {} /\ landed' = landed /\ period' = period
      BY <1>2 DEF Retry
    <2>3. e \in ToSet(arrivalLog) /\ e \in Receipts
      BY <1>0, <2>1 DEF ToSet
    <2>f. PICK f : f = [e EXCEPT !.observed = period]
      OBVIOUS
    <2>4. f \in Receipts /\ f.key = e.key /\ f.digest = e.digest
      BY <1>0, <2>3, <2>f DEF Receipts
    <2>5. arrivalLog' \in Seq(Receipts) /\ ToSet(arrivalLog') = ToSet(arrivalLog) \cup {f}
      BY <1>0, <2>1, <2>4, <2>f, SetOfAppend
    <2>6. \A l : Tells(f, l) <=> Tells(e, l)
      BY <2>4 DEF Tells
    <2> QED BY <1>0, <2>2, <2>3, <2>5, <2>6 DEF ArrivalsInv
  <1>3. CASE NextPeriod
    BY <1>0, <1>3 DEF NextPeriod, ArrivalsInv
  <1>4. CASE UNCHANGED arrivalVars
    BY <1>0, <1>4 DEF arrivalVars, ArrivalsInv
  <1> QED BY <1>1, <1>2, <1>3, <1>4 DEF ArrivalsNext

\* Where a run of missing periods that starts at p ends.
RunsTo(ps, p) == Min({q \in ps : q >= p /\ q + 1 \notin ps})

LEMMA RunsEnd ==
  ASSUME NEW to \in Nat, NEW ps \in SUBSET (1 .. to), NEW p \in ps
  PROVE  /\ RunsTo(ps, p) \in ps /\ p <= RunsTo(ps, p) /\ RunsTo(ps, p) + 1 \notin ps
         /\ \A x \in p .. RunsTo(ps, p) : x \in ps
  <1>e. PICK E : E = {q \in ps : q >= p /\ q + 1 \notin ps}
    OBVIOUS
  <1>1. IsFiniteSet(ps) /\ ps \subseteq Nat
    <2>1. IsFiniteSet(1 .. to) /\ 1 .. to \subseteq Nat
      BY FS_Interval
    <2> QED BY <2>1, FS_Subset
  <1>2. E # {}
    <2>1. PICK m \in ps : \A n \in ps : n <= m
      BY <1>1, FiniteHasGreatest
    <2>2. m + 1 \notin ps /\ m >= p
      BY <1>1, <2>1
    <2> QED BY <1>e, <2>2
  <1>3. PICK n \in E : \A m \in E : n <= m
    BY <1>1, <1>2, <1>e, LeastNumber
  <1>4. RunsTo(ps, p) \in E /\ \A m \in E : RunsTo(ps, p) <= m
    BY <1>3, <1>e DEF RunsTo, Min
  <1>r. PICK r : r = RunsTo(ps, p)
    OBVIOUS
  <1>5. r \in ps /\ r >= p /\ r + 1 \notin ps /\ r \in Nat /\ p \in Nat
    BY <1>1, <1>4, <1>e, <1>r
  <1> DEFINE Q == {k \in 0 .. r - p : p + k \in ps}
  <1>6. 0 \in Q
    BY <1>5
  <1>7. ASSUME NEW k \in 0 .. r - p, k + 1 \in 0 .. r - p, k \in Q PROVE k + 1 \in Q
    <2>1. p + k \in ps /\ p + k >= p /\ p + k < r /\ (p + k) + 1 = p + (k + 1)
      BY <1>5, <1>7
    <2>2. (p + k) + 1 \in ps
      <3>1. p + k \notin E
        BY <1>1, <1>4, <1>5, <1>r, <2>1
      <3> QED BY <1>e, <2>1, <3>1
    <2> QED BY <1>7, <2>1, <2>2
  <1>8. \A k \in 0 .. r - p : k \in Q
    <2>1. r - p \in Nat
      BY <1>5
    <2> HIDE DEF Q
    <2> QED BY <1>6, <1>7, <2>1, UpTo
  <1>9. \A x \in p .. r : x \in ps
    <2> TAKE x \in p .. r
    <2>1. x - p \in 0 .. r - p /\ p + (x - p) = x
      BY <1>5
    <2> QED BY <1>8, <2>1
  <1> QED BY <1>5, <1>9, <1>r

PeriodsOf(absent, s) == {k[1] : k \in {a \in absent : a[2] = s}}

LEMMA GapsAre ==
  ASSUME NEW absent, NEW r
  PROVE  r \in Gaps(absent) <=>
           \E s \in {k[2] : k \in absent} : \E p \in PeriodsOf(absent, s) :
              /\ p - 1 \notin PeriodsOf(absent, s)
              /\ r = [slice |-> s, start |-> p, end |-> RunsTo(PeriodsOf(absent, s), p)]
  <1> DEFINE Runs(s) == {[slice |-> s, start |-> p, end |-> RunsTo(PeriodsOf(absent, s), p)] :
                           p \in {x \in PeriodsOf(absent, s) : x - 1 \notin PeriodsOf(absent, s)}}
  <1>1. Gaps(absent) = UNION {Runs(s) : s \in {k[2] : k \in absent}}
    BY DEF Gaps, PeriodsOf, RunsTo
  <1> QED BY <1>1

LEMMA LoggedIsLanded ==
  ASSUME ArrivalsInv
  PROVE  /\ PresentPartitions = {landed[i].key : i \in DOMAIN landed}
         /\ PresentPartitions \subseteq Nat \X Slices
  <1>0. /\ landed \in Seq(Shipments) /\ arrivalLog \in Seq(Receipts)
        /\ \A e \in ToSet(arrivalLog) : \E l \in ToSet(landed) : Tells(e, l)
        /\ \A l \in ToSet(landed) : \E e \in ToSet(arrivalLog) : Tells(e, l)
    BY DEF ArrivalsInv
  <1>1. /\ \A i \in DOMAIN arrivalLog : \E j \in DOMAIN landed : arrivalLog[i].key = landed[j].key
        /\ \A j \in DOMAIN landed : \E i \in DOMAIN arrivalLog : arrivalLog[i].key = landed[j].key
    BY <1>0 DEF Tells, ToSet
  <1>2. \A i \in DOMAIN arrivalLog : arrivalLog[i] \in Receipts
    BY <1>0
  <1>3. \A i \in DOMAIN arrivalLog : arrivalLog[i].key \in Nat \X Slices
    BY <1>2 DEF Receipts
  <1> QED BY <1>1, <1>3 DEF PresentPartitions

LEMMA CompleteFromInv == ArrivalsInv => CompleteMeansLanded
  <1> SUFFICES ASSUME ArrivalsInv, NEW to \in Periods, NEW declared1 \in SUBSET Slices
               PROVE  LET r == CompletenessReport(1, to, declared1)
                          wrote == {landed[i].key : i \in DOMAIN landed}
                          parts(g) == {<<p, g.slice>> : p \in g.start .. g.end}
                      IN  /\ IsComplete(r) => \A k \in r.expected : k \in wrote
                          /\ IsComplete(r) => \A s \in declared1, p \in 1 .. to : <<p, s>> \in wrote
                          /\ r.absent \cap wrote = {} /\ r.surplus \subseteq wrote
                          /\ UNION {parts(g) : g \in r.runs} = r.absent
                          /\ \A g, h \in r.runs : g # h /\ g.slice = h.slice =>
                               g.end + 1 < h.start \/ h.end + 1 < g.start
    BY DEF CompleteMeansLanded
  <1>w. PICK wrote : wrote = {landed[i].key : i \in DOMAIN landed}
    OBVIOUS
  <1>p. PICK present : present = PresentPartitions
    OBVIOUS
  <1>d. PICK domain : domain = IF declared1 = {} THEN ObservedDomain(present) ELSE declared1
    OBVIOUS
  <1>x. PICK want : want = ExpectedKeys(1, to, domain)
    OBVIOUS
  <1>a. PICK absent : absent = want \ present
    OBVIOUS
  <1>s. PICK slices : slices = IF domain = {} THEN {ANY} ELSE domain
    OBVIOUS
  <1>r. PICK r : r = CompletenessReport(1, to, declared1)
    OBVIOUS
  <1>1. r.expected = want /\ r.absent = absent /\ r.runs = Gaps(absent) /\ r.surplus = present \ want
    BY <1>a, <1>d, <1>p, <1>r, <1>x DEF CompletenessReport, Missing, Unexpected
  <1>2. wrote = present
    BY <1>p, <1>w, LoggedIsLanded
  <1>3. want = {<<p, s>> : p \in 1 .. to, s \in slices}
    BY <1>s, <1>x DEF ExpectedKeys
  <1>4. IsComplete(r) => want \subseteq wrote
    BY <1>1, <1>2, <1>a DEF IsComplete
  <1>5. IsComplete(r) => \A s \in declared1, p \in 1 .. to : <<p, s>> \in wrote
    BY <1>3, <1>4, <1>d, <1>s
  <1>6. absent \cap wrote = {} /\ present \ want \subseteq wrote
    BY <1>2, <1>a
  <1>7. to \in Nat /\ \A k \in absent : \E p \in 1 .. to, s \in slices : k = <<p, s>>
    BY <1>3, <1>a, ArrivalsAssumption
  <1>8. \A p, s : <<p, s>> \in absent <=> p \in PeriodsOf(absent, s)
    <2> TAKE p, s
    <2>1. ASSUME p \in PeriodsOf(absent, s) PROVE <<p, s>> \in absent
      <3>1. PICK k \in absent : k[2] = s /\ k[1] = p
        BY <2>1 DEF PeriodsOf
      <3>2. k = <<p, s>>
        BY <1>7, <3>1
      <3> QED BY <3>1, <3>2
    <2>2. ASSUME <<p, s>> \in absent PROVE p \in PeriodsOf(absent, s)
      <3>1. PICK k : k = <<p, s>>
        OBVIOUS
      <3>2. k[1] = p /\ k[2] = s /\ k \in absent
        BY <2>2, <3>1
      <3> QED BY <3>2 DEF PeriodsOf
    <2> QED BY <2>1, <2>2
  <1>9. \A s : PeriodsOf(absent, s) \in SUBSET (1 .. to)
    <2> SUFFICES ASSUME NEW s, NEW p \in PeriodsOf(absent, s) PROVE p \in 1 .. to
      OBVIOUS
    <2>1. <<p, s>> \in absent
      BY <1>8
    <2> QED BY <1>7, <2>1
  <1>n. 1 .. to \subseteq Nat
    BY <1>7
  <1>10. \A g : g \in Gaps(absent) =>
           \E s : \E p \in PeriodsOf(absent, s) :
              /\ p - 1 \notin PeriodsOf(absent, s)
              /\ g.slice = s /\ g.start = p /\ g.end = RunsTo(PeriodsOf(absent, s), p)
    BY GapsAre
  <1> DEFINE Parts(g) == {<<p, g.slice>> : p \in g.start .. g.end}
  <1>11. ASSUME NEW g \in Gaps(absent) PROVE Parts(g) \subseteq absent
    <2>1. PICK s : \E p \in PeriodsOf(absent, s) :
             g.slice = s /\ g.start = p /\ g.end = RunsTo(PeriodsOf(absent, s), p)
      BY <1>10
    <2>2. PICK p \in PeriodsOf(absent, s) : g.slice = s /\ g.start = p /\ g.end = RunsTo(PeriodsOf(absent, s), p)
      BY <2>1
    <2>3. \A x \in p .. RunsTo(PeriodsOf(absent, s), p) : x \in PeriodsOf(absent, s)
      BY <1>7, <1>9, RunsEnd
    <2> QED BY <1>8, <2>2, <2>3
  <1>12. ASSUME NEW k \in absent PROVE \E g \in Gaps(absent) : k \in Parts(g)
    <2>1. PICK q \in 1 .. to, s \in slices : k = <<q, s>>
      BY <1>7
    <2>p. PICK ps : ps = PeriodsOf(absent, s)
      OBVIOUS
    <2>2. q \in ps /\ ps \in SUBSET (1 .. to)
      BY <1>8, <1>9, <2>1, <2>p
    <2>b. PICK B : B = {x \in ps : x <= q /\ \A y \in x .. q : y \in ps}
      OBVIOUS
    <2>3. B \in SUBSET Nat /\ q \in B
      <3>1. q \in Nat /\ ps \subseteq Nat
        BY <1>n, <2>2
      <3>2. \A y \in q .. q : y = q
        BY <3>1
      <3>3. q <= q /\ \A y \in q .. q : y \in ps
        BY <2>2, <3>1, <3>2
      <3>4. B \subseteq ps
        BY <2>b
      <3> QED BY <2>2, <2>b, <3>1, <3>3, <3>4
    <2>4. PICK p \in B : \A x \in B : p <= x
      BY <2>3, LeastNumber
    <2>5. p \in ps /\ p <= q /\ (\A y \in p .. q : y \in ps) /\ p \in Nat /\ q \in Nat
      BY <1>n, <2>2, <2>4, <2>b
    <2>6. p - 1 \notin ps
      <3> SUFFICES ASSUME p - 1 \in ps PROVE FALSE
        OBVIOUS
      <3>1. \A y \in p - 1 .. q : y = p - 1 \/ y \in p .. q
        BY <2>5
      <3>2. p - 1 \in B
        BY <2>5, <2>b, <3>1
      <3> QED BY <2>4, <2>5, <3>2
    <2>7. /\ RunsTo(ps, p) \in ps /\ p <= RunsTo(ps, p) /\ RunsTo(ps, p) + 1 \notin ps
      BY <1>7, <2>2, <2>5, RunsEnd
    <2>8. q <= RunsTo(ps, p)
      <3> SUFFICES ASSUME ~(q <= RunsTo(ps, p)) PROVE FALSE
        OBVIOUS
      <3>1. RunsTo(ps, p) \in Nat
        BY <1>n, <2>2, <2>7
      <3>2. RunsTo(ps, p) + 1 \in p .. q
        BY <2>5, <2>7, <3>1
      <3> QED BY <2>5, <2>7, <3>2
    <2>g. PICK g : g = [slice |-> s, start |-> p, end |-> RunsTo(ps, p)]
      OBVIOUS
    <2>9. s \in {x[2] : x \in absent}
      BY <2>1
    <2>10. g \in Gaps(absent)
      BY <2>5, <2>6, <2>9, <2>g, <2>p, GapsAre
    <2>11. q \in g.start .. g.end /\ g.slice = s
      BY <2>2, <2>5, <2>7, <2>8, <2>g
    <2> QED BY <2>1, <2>10, <2>11
  <1>13. UNION {Parts(g) : g \in Gaps(absent)} = absent
    <2> HIDE DEF Parts
    <2> QED BY <1>11, <1>12
  <1>14. ASSUME NEW g \in Gaps(absent), NEW h \in Gaps(absent), g # h, g.slice = h.slice
         PROVE  g.end + 1 < h.start \/ h.end + 1 < g.start
    <2>1. PICK s : \E p \in PeriodsOf(absent, s) :
             /\ p - 1 \notin PeriodsOf(absent, s)
             /\ g = [slice |-> s, start |-> p, end |-> RunsTo(PeriodsOf(absent, s), p)]
      BY GapsAre
    <2>p. PICK ps : ps = PeriodsOf(absent, s)
      OBVIOUS
    <2>2. PICK p \in ps : p - 1 \notin ps /\ g = [slice |-> s, start |-> p, end |-> RunsTo(ps, p)]
      BY <2>1, <2>p
    <2>3. PICK t : \E q \in PeriodsOf(absent, t) :
             /\ q - 1 \notin PeriodsOf(absent, t)
             /\ h = [slice |-> t, start |-> q, end |-> RunsTo(PeriodsOf(absent, t), q)]
      BY GapsAre
    <2>4. t = s
      BY <1>14, <2>2, <2>3
    <2>5. PICK q \in ps : q - 1 \notin ps /\ h = [slice |-> s, start |-> q, end |-> RunsTo(ps, q)]
      BY <2>3, <2>4, <2>p
    <2>6. p # q
      BY <1>14, <2>2, <2>5
    <2>7. ps \in SUBSET (1 .. to) /\ to \in Nat
      BY <1>7, <1>9, <2>p
    <2>8. /\ RunsTo(ps, p) \in ps /\ RunsTo(ps, q) \in ps
          /\ \A x \in p .. RunsTo(ps, p) : x \in ps
          /\ \A x \in q .. RunsTo(ps, q) : x \in ps
      BY <2>7, RunsEnd
    <2>9. p \in Nat /\ q \in Nat /\ RunsTo(ps, p) \in Nat /\ RunsTo(ps, q) \in Nat
      BY <1>n, <2>7, <2>8
    <2>10. p < q => RunsTo(ps, p) + 1 < q
      <3> SUFFICES ASSUME p < q, ~(RunsTo(ps, p) + 1 < q) PROVE FALSE
        OBVIOUS
      <3>1. q - 1 \in p .. RunsTo(ps, p)
        BY <2>9
      <3> QED BY <2>5, <2>8, <3>1
    <2>11. q < p => RunsTo(ps, q) + 1 < p
      <3> SUFFICES ASSUME q < p, ~(RunsTo(ps, q) + 1 < p) PROVE FALSE
        OBVIOUS
      <3>1. p - 1 \in q .. RunsTo(ps, q)
        BY <2>9
      <3> QED BY <2>2, <2>8, <3>1
    <2> QED BY <2>2, <2>5, <2>6, <2>9, <2>10, <2>11
  <1> QED BY <1>1, <1>4, <1>5, <1>6, <1>13, <1>14, <1>r, <1>w

Contents(k) == {l.content : l \in {x \in ToSet(landed) : x.key = k}}

\* The digests of a key's arrivals against the contents it was written with.
LEMMA GroupsTell ==
  ASSUME ArrivalsInv, NEW g \in DuplicateArrivals(arrivalLog)
  PROVE  /\ {landed[i].content : i \in {j \in DOMAIN landed : \E x \in g : landed[j].key = arrivalLog[x].key}} # {}
         /\ IsFiniteSet({landed[i].content :
              i \in {j \in DOMAIN landed : \E x \in g : landed[j].key = arrivalLog[x].key}})
         /\ IsFiniteSet(DigestsOf(arrivalLog, g)) /\ DigestsOf(arrivalLog, g) # {}
         /\ NoDigest \notin DigestsOf(arrivalLog, g) =>
              {landed[i].content : i \in {j \in DOMAIN landed : \E x \in g : landed[j].key = arrivalLog[x].key}}
                = DigestsOf(arrivalLog, g)
  <1>0. /\ landed \in Seq(Shipments) /\ arrivalLog \in Seq(Receipts)
        /\ \A e \in ToSet(arrivalLog) : \E l \in ToSet(landed) : Tells(e, l)
        /\ \A l \in ToSet(landed) : \E e \in ToSet(arrivalLog) : Tells(e, l)
    BY DEF ArrivalsInv
  <1>i. PICK i \in DOMAIN arrivalLog : g = GroupOf(arrivalLog, arrivalLog[i].key)
    BY DEF DuplicateArrivals
  <1>k. PICK k : k = arrivalLog[i].key
    OBVIOUS
  <1>1. i \in g /\ g \subseteq DOMAIN arrivalLog /\ \A x \in DOMAIN arrivalLog : x \in g <=> arrivalLog[x].key = k
    BY <1>i, <1>k DEF GroupOf
  <1>j. PICK J : J = {j \in DOMAIN landed : landed[j].key = k}
    OBVIOUS
  <1>2. {j \in DOMAIN landed : \E x \in g : landed[j].key = arrivalLog[x].key} = J
    BY <1>1, <1>j, <1>k
  <1>c. PICK C : C = {landed[j].content : j \in J}
    OBVIOUS
  <1>d. PICK D : D = DigestsOf(arrivalLog, g)
    OBVIOUS
  <1>3. D = {arrivalLog[x].digest : x \in g}
    BY <1>d DEF DigestsOf
  <1>4. /\ \A x \in g : \E j \in J : arrivalLog[x].digest \in {landed[j].content, NoDigest}
        /\ \A j \in J : \E x \in g : arrivalLog[x].digest \in {landed[j].content, NoDigest}
    <2>1. /\ \A x \in DOMAIN arrivalLog : \E j \in DOMAIN landed : Tells(arrivalLog[x], landed[j])
          /\ \A j \in DOMAIN landed : \E x \in DOMAIN arrivalLog : Tells(arrivalLog[x], landed[j])
      BY <1>0 DEF ToSet
    <2> QED BY <1>1, <1>j, <2>1 DEF Tells
  <1>5. IsFiniteSet(J) /\ IsFiniteSet(g)
    <2>1. IsFiniteSet(1 .. Len(landed)) /\ IsFiniteSet(1 .. Len(arrivalLog))
      BY <1>0, FS_Interval
    <2>2. DOMAIN landed = 1 .. Len(landed) /\ DOMAIN arrivalLog = 1 .. Len(arrivalLog)
      BY <1>0
    <2>3. J \subseteq 1 .. Len(landed) /\ g \subseteq 1 .. Len(arrivalLog)
      BY <1>1, <1>j, <2>2
    <2> QED BY <2>1, <2>3, FS_Subset
  <1>6. IsFiniteSet(C)
    <2>f. PICK f : f = [j \in J |-> landed[j].content]
      OBVIOUS
    <2>1. DOMAIN f = J /\ C = {f[j] : j \in J}
      BY <1>c, <2>f
    <2> QED BY <1>5, <2>1, ImageIsFinite
  <1>7. IsFiniteSet(D)
    <2>f. PICK f : f = [x \in g |-> arrivalLog[x].digest]
      OBVIOUS
    <2>1. DOMAIN f = g /\ D = {f[x] : x \in g}
      BY <1>3, <2>f
    <2> QED BY <1>5, <2>1, ImageIsFinite
  <1>8. C # {} /\ D # {}
    BY <1>1, <1>3, <1>4, <1>c
  <1>9. ASSUME NoDigest \notin D PROVE C = D
    <2>1. \A x \in g : arrivalLog[x].digest # NoDigest
      BY <1>3, <1>9
    <2>2. \A x \in g : \E j \in J : arrivalLog[x].digest = landed[j].content
      BY <1>4, <2>1
    <2>3. \A j \in J : \E x \in g : arrivalLog[x].digest = landed[j].content
      BY <1>4, <2>1
    <2> QED BY <1>3, <1>c, <2>2, <2>3
  <1> QED BY <1>2, <1>6, <1>7, <1>8, <1>9, <1>c, <1>d

LEMMA RewritesFromInv == ArrivalsInv => RewritesAreNotReplays
  <1> SUFFICES ASSUME ArrivalsInv PROVE RewritesAreNotReplays
    OBVIOUS
  <1>0. arrivalLog \in Seq(Receipts) /\ Len(arrivalLog) \in Nat
    BY DEF ArrivalsInv
  <1> DEFINE Written(g) == {landed[i].content : i \in {j \in DOMAIN landed : \E x \in g : landed[j].key = arrivalLog[x].key}}
             D(g) == DigestsOf(arrivalLog, g)
  <1>1. \A g \in DuplicateArrivals(arrivalLog) :
          /\ Written(g) # {} /\ IsFiniteSet(Written(g)) /\ IsFiniteSet(D(g)) /\ D(g) # {}
          /\ NoDigest \notin D(g) => Written(g) = D(g)
    BY GroupsTell
  <1>2. \A g : /\ g \in Replays(arrivalLog) <=> /\ g \in DuplicateArrivals(arrivalLog)
                                                /\ Cardinality(D(g)) = 1 /\ NoDigest \notin D(g)
               /\ g \in Restatements(arrivalLog) <=> /\ g \in DuplicateArrivals(arrivalLog)
                                                     /\ Cardinality(D(g)) > 1 \/ NoDigest \in D(g)
    BY DEF Replays, Restatements
  <1> HIDE DEF Written, D
  <1>3. \A g \in DuplicateArrivals(arrivalLog) : Cardinality(D(g)) \in Nat /\ Cardinality(D(g)) # 0
    BY <1>1, FS_CardinalityType, FS_EmptySet
  <1>4. \A g \in Replays(arrivalLog) : Cardinality(Written(g)) = 1
    BY <1>1, <1>2
  <1>5. \A g \in Restatements(arrivalLog) : NoDigest \in D(g) \/ Cardinality(Written(g)) > 1
    BY <1>1, <1>2
  <1>6. /\ Replays(arrivalLog) \cup Restatements(arrivalLog) = DuplicateArrivals(arrivalLog)
        /\ Replays(arrivalLog) \cap Restatements(arrivalLog) = {}
    <2>1. \A g \in DuplicateArrivals(arrivalLog) : Cardinality(D(g)) = 1 \/ Cardinality(D(g)) > 1
      BY <1>3
    <2>2. \A g : ~(Cardinality(D(g)) = 1 /\ Cardinality(D(g)) > 1)
      OBVIOUS
    <2> QED BY <1>2, <2>1, <2>2
  <1>n. PICK n : n = Min({Limit, Len(arrivalLog)})
    OBVIOUS
  <1>7. n \in 0 .. Len(arrivalLog) /\ (Len(arrivalLog) <= Limit => n = Len(arrivalLog))
    <2>1. n \in {Limit, Len(arrivalLog)} /\ \A m \in {Limit, Len(arrivalLog)} : n <= m
      <3>1. \E m \in {Limit, Len(arrivalLog)} : \A k \in {Limit, Len(arrivalLog)} : m <= k
        BY <1>0, ArrivalsAssumption
      <3> QED BY <1>n, <3>1 DEF Min
    <2> QED BY <1>0, <2>1, ArrivalsAssumption
  <1>s. PICK s : s = SubSeq(arrivalLog, 1, n)
    OBVIOUS
  <1>8. s \in Seq(Receipts) /\ Len(s) = n /\ \A i \in 1 .. n : s[i] = arrivalLog[i]
    BY <1>0, <1>7, <1>s
  <1>9. SubSeq(s, 1, n) = s
    BY <1>7, <1>8
  <1>10. IsPrefix(s, arrivalLog)
    BY <1>0, <1>7, <1>8, <1>9, <1>s DEF IsPrefix
  <1>11. Len(arrivalLog) <= Limit => s = arrivalLog
    BY <1>0, <1>7, <1>8
  <1> QED BY <1>4, <1>5, <1>6, <1>10, <1>11, <1>n, <1>s DEF RewritesAreNotReplays, ArrivalsRead, Written, D

(***************************************************************************)
(* observe/joins.py                                                        *)
(***************************************************************************)
JoinTables == [JoinKeys \cup {NullKey} -> Nat]
JoinProfiles == [rows : Nat, distinct : Nat]

JoinsInv == left \in JoinTables /\ right \in JoinTables /\ output \in JoinProfiles /\ previous \in JoinProfiles

\* A profile counts, and no key has more rows than the others leave it.
LEMMA TablesAre ==
  ASSUME NEW t \in JoinTables
  PROVE  /\ IsSummable(t) /\ t = [x \in DOMAIN t |-> t[x]] /\ \A x \in DOMAIN t : t[x] \in Nat
         /\ DOMAIN t = JoinKeys \cup {NullKey} /\ KeysIn(t) \subseteq JoinKeys
         /\ IsFiniteSet(KeysIn(t)) /\ Cardinality(KeysIn(t)) \in Nat /\ Rows(t) \in Nat
         /\ ProfileOf(t) \in JoinProfiles
         /\ \A k \in DOMAIN t : Rows(t) >= t[k] + Cardinality(KeysIn(t)) - 1
         /\ Rows(t) >= Cardinality(KeysIn(t))
  <1>d. PICK D : D = JoinKeys \cup {NullKey}
    OBVIOUS
  <1>1. DOMAIN t = D /\ t = [x \in D |-> t[x]] /\ (\A x \in D : t[x] \in Nat) /\ IsFiniteSet(D)
    <2>1. IsFiniteSet(JoinKeys \cup {NullKey})
      BY JoinsAssumption, FS_Singleton, FS_Union
    <2> QED BY <1>d, <2>1 DEF JoinTables
  <1>2. IsSummable(t)
    BY <1>1 DEF IsSummable
  <1>k. PICK K : K = KeysIn(t)
    OBVIOUS
  <1>3. K \subseteq JoinKeys /\ K \subseteq D /\ (\A x \in K : t[x] > 0) /\ IsFiniteSet(K) /\ Cardinality(K) \in Nat
    <2>1. K \subseteq JoinKeys /\ K \subseteq D /\ \A x \in K : t[x] > 0
      BY <1>d, <1>k DEF KeysIn
    <2> QED BY <1>1, <2>1, FS_Subset, FS_CardinalityType
  <1>4. PICK g : AddsAll(g, t)
    BY <1>2, SumsAdd
  <1>5. g \in [SUBSET D -> Int] /\ g[{}] = 0 /\ \A U \in SUBSET D : \A y \in U : g[U] = t[y] + g[U \ {y}]
    BY <1>1, <1>4 DEF AddsAll
  <1>6. Rows(t) = g[D]
    BY <1>1, <1>4, SumIs DEF Rows
  <1> DEFINE P == {U \in SUBSET D : g[U] >= Cardinality(U \cap K)}
  <1>7. \A U \in SUBSET D : IsFiniteSet(U \cap K) /\ Cardinality(U \cap K) \in Nat /\ g[U] \in Int
    BY <1>3, <1>5, FS_Subset, FS_CardinalityType
  <1>8. {} \in P
    <2>1. {} \cap K = {}
      OBVIOUS
    <2>2. Cardinality({}) = 0
      BY FS_EmptySet
    <2> QED BY <1>5, <2>1, <2>2
  <1>9. ASSUME NEW U \in SUBSET D, NEW y \in U, U \ {y} \in P PROVE U \in P
    <2>c. PICK m, n, x : m = Cardinality((U \ {y}) \cap K) /\ n = Cardinality(U \cap K) /\ x = t[y]
      OBVIOUS
    <2>1. g[U] = x + g[U \ {y}] /\ x \in Nat /\ g[U \ {y}] >= m /\ U \ {y} \in SUBSET D
      BY <1>1, <1>5, <1>9, <2>c
    <2>2. g[U \ {y}] \in Int /\ m \in Nat /\ n \in Nat
      BY <1>7, <2>1, <2>c
    <2>3. n <= m + x
      <3>1. CASE y \in K
        <4>1. (U \ {y}) \cap K = (U \cap K) \ {y} /\ y \in U \cap K
          BY <3>1
        <4>2. m = n - 1
          <5>u. PICK W : W = U \cap K
            OBVIOUS
          <5>1. IsFiniteSet(W) /\ y \in W /\ n = Cardinality(W) /\ m = Cardinality(W \ {y})
            BY <1>7, <2>c, <4>1, <5>u
          <5> QED BY <5>1, FS_RemoveElement
        <4>3. x > 0
          BY <1>3, <2>c, <3>1
        <4> QED BY <2>1, <2>2, <4>2, <4>3
      <3>2. CASE y \notin K
        <4>1. (U \ {y}) \cap K = U \cap K
          BY <3>2
        <4> QED BY <2>1, <2>2, <2>c, <4>1
      <3> QED BY <3>1, <3>2
    <2>4. g[U] >= n
      BY <2>1, <2>2, <2>3
    <2> QED BY <2>4, <2>c
  <1>10. \A U \in SUBSET D : U \in P
    <2> HIDE DEF P
    <2> QED BY <1>1, <1>8, <1>9, OneByOne
  <1>11. ASSUME NEW k \in D PROVE g[D] >= t[k] + Cardinality(K) - 1
    <2>e. PICK E : E = D \ {k}
      OBVIOUS
    <2>0. D \in SUBSET D /\ E \in SUBSET D
      BY <2>e
    <2>c. PICK m, n, x : m = Cardinality(E \cap K) /\ n = Cardinality(K) /\ x = t[k]
      OBVIOUS
    <2>1. g[D] = x + g[E] /\ x \in Nat
      BY <1>1, <1>5, <2>0, <2>c, <2>e
    <2>2. g[E] >= m /\ g[E] \in Int /\ m \in Nat /\ n \in Nat
      BY <1>3, <1>7, <1>10, <2>0, <2>c
    <2>3. CASE k \in K
      <3>1. E \cap K = K \ {k}
        BY <1>3, <2>e
      <3>2. m = n - 1
        BY <1>3, <2>3, <2>c, <3>1, FS_RemoveElement
      <3> QED BY <2>1, <2>2, <2>c, <3>2
    <2>4. CASE k \notin K
      <3>1. E \cap K = K
        BY <1>3, <2>4, <2>e
      <3>2. m = n
        BY <2>c, <3>1
      <3>3. g[D] >= x + n - 1
        BY <2>1, <2>2, <3>2
      <3> QED BY <2>c, <3>3
    <2> QED BY <2>3, <2>4
  <1>12. g[D] >= Cardinality(K) /\ g[D] \in Nat
    <2>0. D \in SUBSET D
      OBVIOUS
    <2>c. PICK n : n = Cardinality(K)
      OBVIOUS
    <2>1. D \in P /\ D \cap K = K
      BY <1>3, <1>10, <2>0
    <2>2. g[D] >= n /\ n \in Nat /\ g[D] \in Int
      BY <1>3, <1>7, <2>0, <2>1, <2>c
    <2>3. g[D] \in Nat
      BY <2>2
    <2> QED BY <2>2, <2>3, <2>c
  <1>13. ProfileOf(t) \in JoinProfiles
    BY <1>3, <1>6, <1>12, <1>k DEF ProfileOf, JoinProfiles
  <1> QED BY <1>1, <1>2, <1>3, <1>6, <1>11, <1>12, <1>13, <1>d, <1>k

InnerTable == [k \in DOMAIN left |-> IF k = NullKey THEN 0 ELSE Joined[k]]

LEMMA InnerIs ==
  ASSUME JoinsInv
  PROVE  InnerTable \in JoinTables /\ InnerTable[NullKey] = 0
         /\ \A k \in JoinKeys : InnerTable[k] = left[k] * right[k] /\ Joined[k] = left[k] * right[k]
  <1>1. DOMAIN left = JoinKeys \cup {NullKey} /\ \A k \in JoinKeys : left[k] \in Nat /\ right[k] \in Nat
    BY DEF JoinsInv, JoinTables
  <1>2. \A k \in JoinKeys : k # NullKey /\ Joined[k] = left[k] * right[k] /\ left[k] * right[k] \in Nat
    <2>1. \A a, b \in Nat : a * b \in Nat
      OBVIOUS
    <2> QED BY <1>1, <2>1, JoinsAssumption DEF Joined
  <1> QED BY <1>1, <1>2 DEF InnerTable, JoinTables

LEMMA JoinsInvInit == JoinsInit => JoinsInv
  BY DEF JoinsInit, JoinsInv, JoinTables, JoinProfiles

LEMMA JoinsInvStep == JoinsInv /\ (JoinsNext \/ UNCHANGED joinVars) => JoinsInv'
  <1> SUFFICES ASSUME JoinsInv, JoinsNext \/ UNCHANGED joinVars PROVE JoinsInv'
    OBVIOUS
  <1>1. CASE GrowLeft
    BY <1>1 DEF GrowLeft, JoinsInv, JoinTables
  <1>2. CASE GrowRight
    BY <1>2 DEF GrowRight, JoinsInv, JoinTables
  <1>3. CASE BuildJoin
    <2>1. output' = ProfileOf(InnerTable) /\ previous' = output /\ left' = left /\ right' = right
      BY <1>3 DEF BuildJoin, InnerTable
    <2>2. ProfileOf(InnerTable) \in JoinProfiles
      BY InnerIs, TablesAre
    <2> QED BY <2>1, <2>2 DEF JoinsInv
  <1>4. CASE UNCHANGED joinVars
    BY <1>4 DEF joinVars, JoinsInv
  <1> QED BY <1>1, <1>2, <1>3, <1>4 DEF JoinsNext

\* A unique key has no more rows than the tolerance leaves it.
LEMMA UniqueIsTight ==
  ASSUME NEW t \in JoinTables, IsUnique(ProfileOf(t)), NEW k \in DOMAIN t
  PROVE  100 * (t[k] - 1) <= (UniqueTolerance - 100) * Cardinality(KeysIn(t))
  <1>r. PICK r, d, x : r = Rows(t) /\ d = Cardinality(KeysIn(t)) /\ x = t[k]
    OBVIOUS
  <1>1. r \in Nat /\ d \in Nat /\ x \in Nat /\ r >= x + d - 1
    BY <1>r, TablesAre
  <1>2. 100 * r <= UniqueTolerance * d
    BY <1>r DEF IsUnique, ProfileOf
  <1>u. PICK u : u = UniqueTolerance
    OBVIOUS
  <1>3. u \in Nat /\ u >= 100
    BY <1>u, JoinsAssumption
  <1>4. (u - 100) * d = u * d - 100 * d /\ u * d \in Nat
    BY <1>1, <1>3
  <1>5. PICK m : m = u * d
    OBVIOUS
  <1>6. 100 * (x - 1) <= m - 100 * d
    BY ONLY <1>1, <1>2, <1>4, <1>5, <1>u
  <1> QED BY <1>4, <1>5, <1>6, <1>r, <1>u

\* What is as much larger as both tolerances is larger by the second, and larger.
LEMMA FanOutShows ==
  ASSUME NEW wr \in Nat, NEW wd \in Nat, NEW nr \in Nat, NEW nd \in Nat, NEW u \in Nat, NEW f \in Nat,
         wr > 0, wd > 0, nr > 0, nd > 0,
         100 * wr <= u * wd, ~(100 * nr <= u * nd), 100 * 100 * nr >= (100 + f) * u * nd
  PROVE  nr * wd > wr * nd /\ 100 * (nr * wd - wr * nd) >= f * (wr * nd)
  <1>1. \A a, b, c \in Nat : a <= b => a * c <= b * c
    OBVIOUS
  <1>2. \A a, b, c \in Nat : a < b /\ c > 0 => a * c < b * c
    OBVIOUS
  <1>3. (100 * wr) * nd <= (u * wd) * nd
    <2>1. 100 * wr \in Nat /\ u * wd \in Nat
      OBVIOUS
    <2> QED BY <1>1, <2>1
  <1>4. (u * nd) * wd < (100 * nr) * wd
    <2>1. 100 * nr \in Nat /\ u * nd \in Nat /\ u * nd < 100 * nr
      OBVIOUS
    <2> QED BY <1>2, <2>1
  <1>5. ((100 + f) * u * nd) * wd <= (100 * 100 * nr) * wd
    <2>1. (100 + f) * u * nd \in Nat /\ 100 * 100 * nr \in Nat
      OBVIOUS
    <2> QED BY <1>1, <2>1
  <1>6. (100 * wr) * nd * (100 + f) <= (u * wd) * nd * (100 + f)
    <2>1. (100 * wr) * nd \in Nat /\ (u * wd) * nd \in Nat /\ 100 + f \in Nat
      OBVIOUS
    <2> QED BY <1>1, <1>3, <2>1
  <1>p. PICK a, b, m : a = nr * wd /\ b = wr * nd /\ m = u * wd * nd
    OBVIOUS
  <1>7. a \in Nat /\ b \in Nat /\ m \in Nat
    BY <1>p
  <1>8. (100 * wr) * nd = 100 * b /\ (u * wd) * nd = m /\ (u * nd) * wd = m /\ (100 * nr) * wd = 100 * a
    BY <1>p
  <1>9. ((100 + f) * u * nd) * wd = (100 + f) * m /\ (100 * 100 * nr) * wd = 10000 * a
    BY <1>p
  <1>10. 100 * b <= m /\ m < 100 * a
    BY <1>3, <1>4, <1>8
  <1>11. b < a
    BY <1>7, <1>10
  <1>12. (100 * b) * (100 + f) <= m * (100 + f) /\ (100 + f) * m <= 10000 * a
    BY <1>5, <1>6, <1>8, <1>9
  <1>13. m * (100 + f) = (100 + f) * m /\ (100 * b) * (100 + f) = 10000 * b + 100 * (f * b) /\ f * b \in Nat
    BY <1>7
  <1>14. PICK q : q = f * b /\ q \in Nat
    BY <1>13
  <1>15. 10000 * b + 100 * q <= 10000 * a
    BY <1>7, <1>12, <1>13, <1>14
  <1>16. 100 * (a - b) >= q
    BY ONLY <1>7, <1>14, <1>15
  <1> QED BY <1>11, <1>14, <1>16, <1>p

LEMMA RisksFromInv == JoinsInv => ProvenRisksAreReal
  <1> SUFFICES ASSUME JoinsInv PROVE ProvenRisksAreReal
    OBVIOUS
  <1>a. PICK a, b, inner : a = ProfileOf(left) /\ b = ProfileOf(right) /\ inner = ProfileOf(InnerTable)
    OBVIOUS
  <1>r. PICK risk : risk = JoinRisks(a, b, inner, previous)
    OBVIOUS
  <1>c. PICK clear : clear = (IsJoinClear(risk) /\ risk.unmeasurable = {})
    OBVIOUS
  <1>0. left \in JoinTables /\ right \in JoinTables /\ InnerTable \in JoinTables /\ previous \in JoinProfiles
    BY InnerIs DEF JoinsInv
  <1>1. a \in JoinProfiles /\ b \in JoinProfiles /\ inner \in JoinProfiles
    BY <1>0, <1>a, TablesAre
  <1>2. OrphanFloor(a, b) <= Cardinality(KeysIn(left) \ KeysIn(right))
    <2>l. PICK L, R : L = KeysIn(left) /\ R = KeysIn(right)
      OBVIOUS
    <2>1. IsFiniteSet(L) /\ IsFiniteSet(R) /\ a.distinct = Cardinality(L) /\ b.distinct = Cardinality(R)
      BY <1>0, <1>a, <2>l, TablesAre DEF ProfileOf
    <2>2. Cardinality(L \ R) = Cardinality(L) - Cardinality(L \cap R) /\ IsFiniteSet(L \ R)
      BY <2>1, FS_Difference
    <2>3. IsFiniteSet(L \cap R) /\ Cardinality(L \cap R) <= Cardinality(R)
      BY <2>1, FS_Subset
    <2>4. Cardinality(L) \in Nat /\ Cardinality(R) \in Nat /\ Cardinality(L \cap R) \in Nat /\ Cardinality(L \ R) \in Nat
      BY <2>1, <2>2, <2>3, FS_CardinalityType
    <2>m. PICK d : d = Cardinality(L) - Cardinality(R)
      OBVIOUS
    <2>5. Max({0, d}) \in {0, d}
      <3>1. d \in Int
        BY <2>4, <2>m
      <3>2. \E m \in {0, d} : \A k \in {0, d} : k <= m
        BY <3>1
      <3> QED BY <3>2 DEF Max
    <2>6. OrphanFloor(a, b) \in {0, d}
      BY <2>1, <2>5, <2>m DEF OrphanFloor
    <2> QED BY <2>2, <2>3, <2>4, <2>6, <2>l, <2>m
  <1>3. ASSUME clear PROVE IsUnique(a) /\ IsUnique(b)
    <2>1. risk.unmeasurable = {} /\ risk.findings = {}
      BY <1>3, <1>c DEF IsJoinClear
    <2>2. Measurable(a) /\ Measurable(b)
      <3>1. risk.unmeasurable = {s \in {"left", "right"} : ~Measurable(IF s = "left" THEN a ELSE b)}
        BY <1>r DEF JoinRisks
      <3>2. "left" \notin risk.unmeasurable /\ "right" \notin risk.unmeasurable
        BY <2>1
      <3> QED BY <3>1, <3>2
    <2>3. {[kind |-> "join_key_not_unique", severity |-> "warn"] :
             s \in {p \in {a, b} : Measurable(p) /\ ~IsUnique(p)}} \subseteq risk.findings
      BY <1>r DEF JoinRisks
    <2>4. {p \in {a, b} : Measurable(p) /\ ~IsUnique(p)} = {}
      BY <2>1, <2>3
    <2> QED BY <2>2, <2>4
  <1>4. ASSUME clear, NEW t \in {left, right}, NEW k \in DOMAIN t
        PROVE  100 * (t[k] - 1) <= (UniqueTolerance - 100) * Cardinality(KeysIn(t))
    BY <1>0, <1>3, <1>4, <1>a, UniqueIsTight
  <1>5. ASSUME clear, ToldExactly(a), ToldExactly(b)
        PROVE  (\A k \in JoinKeys : Joined[k] <= 1) /\ inner.rows <= Min({a.rows, b.rows})
    <2>1. \A k \in DOMAIN left : left[k] \in {0, 1} /\ right[k] \in {0, 1}
      <3> SUFFICES ASSUME NEW k \in DOMAIN left PROVE left[k] \in {0, 1} /\ right[k] \in {0, 1}
        OBVIOUS
      <3>1. left[k] \in Nat /\ right[k] \in Nat /\ k \in DOMAIN right
        BY <1>0 DEF JoinTables
      <3>2. 100 * (left[k] - 1) < 100 /\ 100 * (right[k] - 1) < 100
        <4>1. a.distinct = Cardinality(KeysIn(left)) /\ b.distinct = Cardinality(KeysIn(right))
          BY <1>a DEF ProfileOf
        <4>p. PICK m, n : m = (UniqueTolerance - 100) * a.distinct /\ n = (UniqueTolerance - 100) * b.distinct
          OBVIOUS
        <4>2. m \in Int /\ n \in Int
          BY <1>1, <4>p, JoinsAssumption DEF JoinProfiles
        <4>3. m < 100 /\ n < 100
          BY <1>5, <4>p DEF ToldExactly
        <4>4. 100 * (left[k] - 1) <= m /\ 100 * (right[k] - 1) <= n
          BY <1>4, <1>5, <3>1, <4>1, <4>p
        <4> QED BY <3>1, <4>2, <4>3, <4>4
      <3> QED BY <3>1, <3>2
    <2>2. \A k \in JoinKeys : left[k] \in {0, 1} /\ right[k] \in {0, 1} /\ Joined[k] = left[k] * right[k]
                              /\ InnerTable[k] = left[k] * right[k]
      BY <1>0, <2>1, InnerIs DEF JoinTables
    <2>3. \A k \in JoinKeys : Joined[k] <= 1 /\ InnerTable[k] <= left[k] /\ InnerTable[k] <= right[k]
      BY <2>2
    <2>4. InnerTable[NullKey] = 0
      BY InnerIs
    <2>5. \A k \in DOMAIN left : InnerTable[k] <= left[k] /\ InnerTable[k] <= right[k]
      <3>1. DOMAIN left = JoinKeys \cup {NullKey} /\ \A k \in DOMAIN left : left[k] \in Nat /\ right[k] \in Nat
        BY <1>0 DEF JoinTables
      <3> QED BY <2>3, <2>4, <3>1
    <2>6. SumFunction(InnerTable) <= SumFunction(left) /\ SumFunction(InnerTable) <= SumFunction(right)
      <3>d. PICK D : D = DOMAIN left
        OBVIOUS
      <3>1. /\ IsSummable(InnerTable) /\ IsSummable(left) /\ IsSummable(right)
            /\ DOMAIN InnerTable = D /\ DOMAIN left = D /\ DOMAIN right = D
            /\ InnerTable = [x \in D |-> InnerTable[x]] /\ left = [x \in D |-> left[x]] /\ right = [x \in D |-> right[x]]
        <4>1. DOMAIN right = D /\ DOMAIN InnerTable = D
          BY <1>0, <3>d DEF JoinTables
        <4> QED BY <1>0, <3>d, <4>1, TablesAre
      <3> QED BY <2>5, <3>1, <3>d, SumInOrder
    <2>7. inner.rows <= a.rows /\ inner.rows <= b.rows
      BY <1>a, <2>6 DEF ProfileOf, Rows
    <2>8. Min({a.rows, b.rows}) \in {a.rows, b.rows}
      <3>1. a.rows \in Nat /\ b.rows \in Nat
        BY <1>1 DEF JoinProfiles
      <3>2. \E m \in {a.rows, b.rows} : \A k \in {a.rows, b.rows} : m <= k
        BY <3>1
      <3> QED BY <3>2 DEF Min
    <2> QED BY <2>3, <2>7, <2>8
  <1>6. ASSUME UniquenessLost(previous, inner),
               100 * 100 * inner.rows >= (100 + FanOutTolerance) * UniqueTolerance * inner.distinct
        PROVE  [kind |-> "join_key_fan_out", severity |-> "error"] \in risk.findings
    <2>w. PICK wr, wd, nr, nd : wr = previous.rows /\ wd = previous.distinct /\ nr = inner.rows /\ nd = inner.distinct
      OBVIOUS
    <2>1. wr \in Nat /\ wd \in Nat /\ nr \in Nat /\ nd \in Nat
      BY <1>0, <1>1, <2>w DEF JoinProfiles
    <2>2. wr > 0 /\ wd > 0 /\ nr > 0 /\ nd > 0 /\ 100 * wr <= UniqueTolerance * wd /\ ~(100 * nr <= UniqueTolerance * nd)
      BY <1>6, <2>w DEF UniquenessLost, Measurable, IsUnique
    <2>3. nr * wd > wr * nd /\ 100 * (nr * wd - wr * nd) >= FanOutTolerance * (wr * nd)
      BY <1>6, <2>1, <2>2, <2>w, FanOutShows, JoinsAssumption
    <2>p. PICK x, y : x = nr * wd /\ y = wr * nd
      OBVIOUS
    <2>4. x > y /\ ~(100 * (x - y) < FanOutTolerance * y)
      <3>1. x \in Nat /\ y \in Nat /\ FanOutTolerance * y \in Nat
        <4>1. \A m, n \in Nat : m * n \in Nat
          OBVIOUS
        <4> QED BY <2>1, <2>p, <4>1, JoinsAssumption
      <3> QED BY <2>3, <2>p, <3>1
    <2>5. ShapeDrift(previous, inner) = {[kind |-> "join_key_fan_out", severity |-> "error"]}
      BY <1>6, <2>4, <2>p, <2>w DEF ShapeDrift, UniquenessLost
    <2> QED BY <1>r, <2>5 DEF JoinRisks
  <1> QED BY <1>2, <1>4, <1>5, <1>6, <1>a, <1>r, <1>c DEF ProvenRisksAreReal, InnerTable

(***************************************************************************)
(* report/telemetry.py                                                     *)
(***************************************************************************)
FitsIn(bs, i, v)   == IF i > Len(bs) THEN TRUE ELSE v <= bs[i]
Fitting(bs, vs, i) == {k \in DOMAIN vs : FitsIn(bs, i, vs[k])}

\* A histogram counts what was observed.
TelemetryInv ==
  /\ buckets = << >> \/ buckets \in BucketChoices
  /\ buckets = << >> => DOMAIN counts = {} /\ running = {}
  /\ observed1 \in [Labels1 -> Seq(Nat)]
  /\ DOMAIN counts \subseteq Labels1 /\ DOMAIN sums = DOMAIN counts /\ running \subseteq Labels1
  /\ \A l \in Labels1 : l \in DOMAIN counts <=> observed1[l] # << >>
  /\ \A l \in DOMAIN counts :
       /\ counts[l] = [i \in 1 .. Len(buckets) + 1 |-> Cardinality(Fitting(buckets, observed1[l], i))]
       /\ sums[l] = SumFunction(observed1[l])
  /\ spans \in SpanTrees

LEMMA TelemetryInvInit == TelemetryInit => TelemetryInv
  <1> SUFFICES ASSUME TelemetryInit PROVE TelemetryInv
    OBVIOUS
  <1>1. buckets = << >> /\ DOMAIN counts = {} /\ DOMAIN sums = {} /\ running = {} /\ spans \in SpanTrees
    BY DEF TelemetryInit
  <1>2. observed1 = [l \in Labels1 |-> << >>] /\ << >> \in Seq(Nat)
    BY DEF TelemetryInit
  <1> QED BY <1>1, <1>2 DEF TelemetryInv

LEMMA FittingGrows ==
  ASSUME NEW bs, NEW vs \in Seq(Nat), NEW v \in Nat, NEW i
  PROVE  /\ IsFiniteSet(Fitting(bs, vs, i)) /\ Cardinality(Fitting(bs, vs, i)) \in Nat
         /\ Cardinality(Fitting(bs, Append(vs, v), i))
              = IF FitsIn(bs, i, v) THEN Cardinality(Fitting(bs, vs, i)) + 1 ELSE Cardinality(Fitting(bs, vs, i))
  <1>n. PICK n : n = Len(vs)
    OBVIOUS
  <1>w. PICK ws : ws = Append(vs, v)
    OBVIOUS
  <1>1. n \in Nat /\ DOMAIN vs = 1 .. n /\ DOMAIN ws = 1 .. n + 1 /\ ws[n + 1] = v /\ \A k \in 1 .. n : ws[k] = vs[k]
    BY <1>n, <1>w
  <1>f. PICK F, G : F = Fitting(bs, vs, i) /\ G = Fitting(bs, ws, i)
    OBVIOUS
  <1>2. F = {k \in 1 .. n : FitsIn(bs, i, vs[k])} /\ G = {k \in 1 .. n + 1 : FitsIn(bs, i, ws[k])}
    BY <1>1, <1>f DEF Fitting
  <1>3. 1 .. n + 1 = (1 .. n) \cup {n + 1} /\ n + 1 \notin 1 .. n
    BY <1>1
  <1>4. IsFiniteSet(F) /\ Cardinality(F) \in Nat
    <2>1. IsFiniteSet(1 .. n)
      BY <1>1, FS_Interval
    <2>2. F \subseteq 1 .. n
      BY <1>2
    <2> QED BY <2>1, <2>2, FS_Subset, FS_CardinalityType
  <1>5. CASE FitsIn(bs, i, v)
    <2>1. G = F \cup {n + 1} /\ n + 1 \notin F
      BY <1>1, <1>2, <1>3, <1>5
    <2>2. Cardinality(G) = Cardinality(F) + 1
      BY <1>4, <2>1, FS_AddElement
    <2> QED BY <1>4, <1>5, <1>f, <1>w, <2>2
  <1>6. CASE ~FitsIn(bs, i, v)
    <2>1. G = F
      BY <1>1, <1>2, <1>3, <1>6
    <2> QED BY <1>4, <1>6, <1>f, <1>w, <2>1
  <1> QED BY <1>5, <1>6

LEMMA SumOfAppend ==
  ASSUME NEW s \in Seq(Nat), NEW v \in Nat
  PROVE  SumFunction(Append(s, v)) = SumFunction(s) + v /\ SumFunction(s) \in Int
  <1>n. PICK n, t : n = Len(s) /\ t = Append(s, v)
    OBVIOUS
  <1>1. n \in Nat /\ DOMAIN s = 1 .. n /\ DOMAIN t = 1 .. n + 1 /\ t[n + 1] = v /\ \A k \in 1 .. n : t[k] = s[k]
    BY <1>n
  <1>2. t = [k \in 1 .. n + 1 |-> t[k]] /\ s = [k \in 1 .. n |-> s[k]] /\ \A k \in 1 .. n + 1 : t[k] \in Nat
    <2>1. t \in Seq(Nat) /\ Len(t) = n + 1
      BY <1>n
    <2>2. t = [k \in 1 .. Len(t) |-> t[k]] /\ \A k \in 1 .. Len(t) : t[k] \in Nat
      BY <2>1
    <2> QED BY <1>n, <2>1, <2>2
  <1>3. 1 .. n + 1 = (1 .. n) \cup {n + 1} /\ (1 .. n + 1) \ {n + 1} = 1 .. n /\ n + 1 \in 1 .. n + 1
    BY <1>1
  <1>4. IsSummable(t)
    <2>1. IsFiniteSet(1 .. n + 1)
      BY <1>1, FS_Interval
    <2> QED BY <1>1, <1>2, <2>1 DEF IsSummable
  <1>5. PICK g : AddsAll(g, t)
    BY <1>4, SumsAdd
  <1>d. PICK D, E : D = 1 .. n + 1 /\ E = 1 .. n
    OBVIOUS
  <1>6. E \in SUBSET D /\ D \in SUBSET D /\ n + 1 \in D /\ D \ {n + 1} = E
    BY <1>3, <1>d
  <1>7. g[D] = t[n + 1] + g[E] /\ g[E] \in Int /\ SumFunction([x \in E |-> t[x]]) = g[E]
    <2>1. D = DOMAIN t
      BY <1>1, <1>d
    <2>2. /\ g \in [SUBSET D -> Int]
          /\ \A U \in SUBSET D : \A y \in U : g[U] = t[y] + g[U \ {y}]
          /\ \A U \in SUBSET D : SumFunction([x \in U |-> t[x]]) = g[U]
      BY <1>5, <2>1 DEF AddsAll
    <2>3. g[D] = t[n + 1] + g[D \ {n + 1}]
      BY <1>6, <2>2
    <2> QED BY <1>6, <2>2, <2>3
  <1>8. [x \in E |-> t[x]] = s
    BY <1>1, <1>2, <1>d
  <1>9. SumFunction(t) = g[D]
    BY <1>1, <1>2, <1>5, <1>d, SumIs
  <1>10. SumFunction(s) = g[E]
    BY <1>7, <1>8
  <1>11. SumFunction(t) = v + g[E]
    BY <1>1, <1>7, <1>9
  <1>12. v + g[E] = g[E] + v
    BY <1>7
  <1> QED BY <1>7, <1>10, <1>11, <1>12, <1>n

LEMMA SumOfNothing == SumFunction(<< >>) = 0
  <1>e. PICK e : e = << >>
    OBVIOUS
  <1>1. DOMAIN e = {} /\ e = [x \in DOMAIN e |-> e[x]]
    BY <1>e
  <1>2. IsSummable(e)
    BY <1>1, FS_EmptySet DEF IsSummable
  <1>3. PICK g : AddsAll(g, e)
    BY <1>2, SumsAdd
  <1>4. g[{}] = 0
    BY <1>3 DEF AddsAll
  <1>5. SumFunction(e) = g[DOMAIN e]
    BY <1>1, <1>3, SumIs
  <1> QED BY <1>1, <1>4, <1>5, <1>e

LEMMA TelemetryInvStep == TelemetryInv /\ (TelemetryNext \/ UNCHANGED telemetryVars) => TelemetryInv'
  <1> SUFFICES ASSUME TelemetryInv, TelemetryNext \/ UNCHANGED telemetryVars PROVE TelemetryInv'
    OBVIOUS
  <1>0. /\ buckets = << >> \/ buckets \in BucketChoices
        /\ buckets = << >> => DOMAIN counts = {} /\ running = {}
        /\ observed1 \in [Labels1 -> Seq(Nat)]
        /\ DOMAIN counts \subseteq Labels1 /\ DOMAIN sums = DOMAIN counts /\ running \subseteq Labels1
        /\ \A l \in Labels1 : l \in DOMAIN counts <=> observed1[l] # << >>
        /\ \A l \in DOMAIN counts :
             /\ counts[l] = [i \in 1 .. Len(buckets) + 1 |-> Cardinality(Fitting(buckets, observed1[l], i))]
             /\ sums[l] = SumFunction(observed1[l])
        /\ spans \in SpanTrees
    BY DEF TelemetryInv
  <1>1. ASSUME NEW bounds \in BucketChoices, Histogram(bounds) PROVE TelemetryInv'
    <2>1. CASE buckets = << >>
      <3>1. buckets' = bounds /\ bounds # << >> /\ UNCHANGED <<counts, sums, running, observed1, spans>>
        BY <1>1, <2>1, TelemetryAssumption DEF Histogram
      <3> QED BY <1>0, <2>1, <3>1 DEF TelemetryInv
    <2>2. CASE buckets # << >>
      <3>1. UNCHANGED <<buckets, counts, sums, running, observed1, spans>>
        BY <1>1, <2>2 DEF Histogram
      <3> QED BY <1>0, <3>1 DEF TelemetryInv
    <2> QED BY <2>1, <2>2
  <1>2. ASSUME NEW l \in Labels1, StartTimer(l) PROVE TelemetryInv'
    <2>1. buckets # << >> /\ running' = running \cup {l} /\ UNCHANGED <<buckets, counts, sums, observed1, spans>>
      BY <1>2 DEF StartTimer
    <2> QED BY <1>0, <2>1 DEF TelemetryInv
  <1>3. ASSUME NEW l \in Labels1, NEW v \in Durations, StopTimer(l, v) PROVE TelemetryInv'
    <2>o. PICK vs, ws : vs = observed1[l] /\ ws = Append(vs, v)
      OBVIOUS
    <2>1. /\ l \in running /\ running' = running \ {l} /\ buckets' = buckets /\ spans' = spans
          /\ counts' = [m \in DOMAIN counts \cup {l} |-> IF m = l THEN Counted(l, v) ELSE counts[m]]
          /\ sums' = [m \in DOMAIN sums \cup {l} |->
                        IF m # l THEN sums[m] ELSE v + IF m \in DOMAIN sums THEN sums[m] ELSE 0]
          /\ observed1' = [observed1 EXCEPT ![l] = ws]
      BY <1>3, <2>o DEF StopTimer, ObserveDuration
    <2>2. vs \in Seq(Nat) /\ v \in Nat /\ ws \in Seq(Nat) /\ ws # << >> /\ buckets # << >>
      <3>1. vs \in Seq(Nat) /\ v \in Nat /\ buckets # << >>
        BY <1>0, <2>1, <2>o, TelemetryAssumption
      <3>2. ws \in Seq(Nat) /\ Len(ws) = Len(vs) + 1 /\ Len(vs) \in Nat
        BY <2>o, <3>1
      <3> QED BY <3>1, <3>2
    <2>b. PICK bs, N : bs = buckets /\ N = Len(buckets) + 1
      OBVIOUS
    <2>3. \A i : /\ Cardinality(Fitting(bs, ws, i))
                      = IF FitsIn(bs, i, v) THEN Cardinality(Fitting(bs, vs, i)) + 1 ELSE Cardinality(Fitting(bs, vs, i))
                 /\ FitsIn(bs, i, v) <=> Fits(i, v)
      BY <2>2, <2>b, <2>o, FittingGrows DEF Fits, FitsIn
    <2>4. Counted(l, v) = [i \in 1 .. N |-> Cardinality(Fitting(bs, ws, i))]
      <3>o. PICK old : old = IF l \in DOMAIN counts THEN counts[l] ELSE [i \in 1 .. N |-> 0]
        OBVIOUS
      <3>1. old = [i \in 1 .. N |-> Cardinality(Fitting(bs, vs, i))]
        <4>1. CASE l \in DOMAIN counts
          BY <1>0, <2>b, <2>o, <3>o, <4>1
        <4>2. CASE l \notin DOMAIN counts
          <5>1. vs = << >>
            BY <1>0, <2>o, <4>2
          <5>2. \A i : Fitting(bs, vs, i) = {}
            BY <5>1 DEF Fitting
          <5>3. \A i : Cardinality(Fitting(bs, vs, i)) = 0
            BY <5>2, FS_EmptySet
          <5> QED BY <3>o, <4>2, <5>3
        <4> QED BY <4>1, <4>2
      <3>2. Counted(l, v) = [i \in DOMAIN old |-> IF Fits(i, v) THEN old[i] + 1 ELSE old[i]]
        BY <2>b, <3>o DEF Counted
      <3>3. \A i \in 1 .. N : old[i] = Cardinality(Fitting(bs, vs, i))
        BY <3>1
      <3>4. DOMAIN old = 1 .. N
        BY <3>1
      <3>5. \A i \in 1 .. N : (IF Fits(i, v) THEN old[i] + 1 ELSE old[i]) = Cardinality(Fitting(bs, ws, i))
        BY <2>3, <3>3
      <3> QED BY <3>2, <3>4, <3>5
    <2>5. DOMAIN counts' = DOMAIN counts \cup {l} /\ DOMAIN sums' = DOMAIN counts \cup {l}
      BY <1>0, <2>1
    <2>6. /\ observed1' \in [Labels1 -> Seq(Nat)] /\ observed1'[l] = ws
          /\ \A m \in Labels1 : m # l => observed1'[m] = observed1[m]
      BY <1>0, <2>1, <2>2
    <2>7. /\ counts'[l] = [i \in 1 .. N |-> Cardinality(Fitting(bs, ws, i))]
          /\ \A m \in DOMAIN counts : m # l => counts'[m] = counts[m] /\ sums'[m] = sums[m]
      BY <1>0, <2>1, <2>4
    <2>8. sums'[l] = SumFunction(ws)
      <3>1. SumFunction(ws) = SumFunction(vs) + v /\ SumFunction(vs) \in Int
        BY <2>2, <2>o, SumOfAppend
      <3>2. CASE l \in DOMAIN counts
        <4>1. sums'[l] = v + sums[l] /\ sums[l] = SumFunction(vs)
          BY <1>0, <2>1, <2>o, <3>2
        <4> QED BY <2>2, <3>1, <4>1
      <3>3. CASE l \notin DOMAIN counts
        <4>1. vs = << >> /\ SumFunction(vs) = 0
          BY <1>0, <2>o, <3>3, SumOfNothing
        <4>2. sums'[l] = v + 0
          BY <1>0, <2>1, <3>3
        <4> QED BY <2>2, <3>1, <4>1, <4>2
      <3> QED BY <3>2, <3>3
    <2>9. \A m \in DOMAIN counts' :
            /\ counts'[m] = [i \in 1 .. Len(buckets') + 1 |-> Cardinality(Fitting(buckets', observed1'[m], i))]
            /\ sums'[m] = SumFunction(observed1'[m])
      <3> TAKE m \in DOMAIN counts'
      <3>1. CASE m = l
        BY <2>1, <2>6, <2>7, <2>8, <2>b, <3>1
      <3>2. CASE m # l
        <4>1. m \in DOMAIN counts /\ m \in Labels1
          BY <1>0, <2>5, <3>2
        <4> QED BY <1>0, <2>1, <2>6, <2>7, <3>2, <4>1
      <3> QED BY <3>1, <3>2
    <2>10. \A m \in Labels1 : m \in DOMAIN counts' <=> observed1'[m] # << >>
      BY <1>0, <2>2, <2>5, <2>6
    <2> QED BY <1>0, <2>1, <2>2, <2>5, <2>6, <2>9, <2>10 DEF TelemetryInv
  <1>4. CASE UNCHANGED telemetryVars
    BY <1>0, <1>4 DEF telemetryVars, TelemetryInv
  <1> QED BY <1>1, <1>2, <1>3, <1>4 DEF TelemetryNext

\* What is read of a histogram: the counts of its buckets, and below each the values
\* counted there.
IsHistogram(vs, N, c) ==
  /\ vs \in Seq(Nat) /\ Len(vs) \in Nat /\ Len(vs) >= 1 /\ DOMAIN vs = 1 .. Len(vs)
  /\ N \in Nat /\ N >= 1 /\ DOMAIN buckets = 1 .. N /\ \A i \in 1 .. N : buckets[i] \in Nat
  /\ \A i, j \in 1 .. N : i < j => buckets[i] < buckets[j]
  /\ DOMAIN c = 1 .. N + 1
  /\ \A i \in 1 .. N + 1 : /\ c[i] \in Nat /\ c[i] = Cardinality(Fitting(buckets, vs, i))
                           /\ IsFiniteSet(Fitting(buckets, vs, i))
  /\ c[N + 1] = Len(vs)
  /\ \A i \in 1 .. N : Fitting(buckets, vs, i) = {k \in DOMAIN vs : vs[k] <= buckets[i]}
  /\ Fitting(buckets, vs, N + 1) = DOMAIN vs

LEMMA HistogramIs ==
  ASSUME TelemetryInv, NEW l \in DOMAIN counts
  PROVE  IsHistogram(observed1[l], Len(buckets), counts[l])
  <1>v. PICK vs, N, c : vs = observed1[l] /\ N = Len(buckets) /\ c = counts[l]
    OBVIOUS
  <1>1. l \in Labels1 /\ vs \in Seq(Nat) /\ vs # << >> /\ buckets \in BucketChoices
        /\ c = [i \in 1 .. N + 1 |-> Cardinality(Fitting(buckets, vs, i))]
    BY <1>v DEF TelemetryInv
  <1>2. buckets \in Seq(Nat) /\ buckets # << >> /\ \A i, j \in DOMAIN buckets : i < j => buckets[i] < buckets[j]
    BY <1>1, TelemetryAssumption
  <1>3. N \in Nat /\ N >= 1 /\ DOMAIN buckets = 1 .. N /\ \A i \in 1 .. N : buckets[i] \in Nat
    BY <1>2, <1>v
  <1>n. PICK n : n = Len(vs)
    OBVIOUS
  <1>4. n \in Nat /\ n >= 1 /\ DOMAIN vs = 1 .. n /\ \A k \in 1 .. n : vs[k] \in Nat
    BY <1>1, <1>n
  <1>5. \A i \in 1 .. N + 1 : IsFiniteSet(Fitting(buckets, vs, i)) /\ Cardinality(Fitting(buckets, vs, i)) \in Nat
    <2>1. 0 \in Nat
      OBVIOUS
    <2> QED BY <1>1, <2>1, FittingGrows
  <1>6. \A i \in 1 .. N : Fitting(buckets, vs, i) = {k \in DOMAIN vs : vs[k] <= buckets[i]}
    <2> SUFFICES ASSUME NEW i \in 1 .. N PROVE Fitting(buckets, vs, i) = {k \in DOMAIN vs : vs[k] <= buckets[i]}
      OBVIOUS
    <2>1. ~(i > N)
      BY <1>3
    <2> QED BY <1>v, <2>1 DEF Fitting, FitsIn
  <1>7. Fitting(buckets, vs, N + 1) = DOMAIN vs
    <2>1. N + 1 > N
      BY <1>3
    <2> QED BY <1>v, <2>1 DEF Fitting, FitsIn
  <1>8. Cardinality(DOMAIN vs) = n
    <2>1. Cardinality(1 .. n) = n
      BY <1>4, FS_Interval
    <2> QED BY <1>4, <2>1
  <1>9. N + 1 \in 1 .. N + 1
    BY <1>3
  <1>10. DOMAIN c = 1 .. N + 1 /\ \A i \in 1 .. N + 1 : c[i] = Cardinality(Fitting(buckets, vs, i))
    BY <1>1
  <1>11. c[N + 1] = n
    BY <1>7, <1>8, <1>9, <1>10
  <1>12. IsHistogram(vs, N, c)
    BY <1>1, <1>2, <1>3, <1>4, <1>5, <1>6, <1>7, <1>10, <1>11, <1>n DEF IsHistogram
  <1> QED BY <1>12, <1>v

InBucket(i, v) == (i = 1 \/ v > buckets[i - 1]) /\ (i = Len(buckets) + 1 \/ v <= buckets[i])

LEMMA BucketsHold ==
  ASSUME TelemetryInv, NEW l \in DOMAIN counts, NEW i \in DOMAIN PerBucket(l)
  PROVE  PerBucket(l)[i] = Cardinality({k \in DOMAIN observed1[l] : InBucket(i, observed1[l][k])})
  <1>v. PICK vs, N, c : vs = observed1[l] /\ N = Len(buckets) /\ c = counts[l]
    OBVIOUS
  <1>0. IsHistogram(vs, N, c)
    BY <1>v, HistogramIs
  <1>1. /\ vs \in Seq(Nat) /\ Len(vs) \in Nat /\ DOMAIN vs = 1 .. Len(vs)
        /\ N \in Nat /\ N >= 1 /\ \A j \in 1 .. N : buckets[j] \in Nat
        /\ \A j, k \in 1 .. N : j < k => buckets[j] < buckets[k]
        /\ DOMAIN c = 1 .. N + 1
        /\ \A j \in 1 .. N + 1 : /\ c[j] \in Nat /\ c[j] = Cardinality(Fitting(buckets, vs, j))
                                 /\ IsFiniteSet(Fitting(buckets, vs, j))
        /\ \A j \in 1 .. N : Fitting(buckets, vs, j) = {k \in DOMAIN vs : vs[k] <= buckets[j]}
        /\ Fitting(buckets, vs, N + 1) = DOMAIN vs
    BY <1>0 DEF IsHistogram
  <1>2. i \in 1 .. N + 1 /\ PerBucket(l)[i] = c[i] - IF i = 1 THEN 0 ELSE c[i - 1]
    BY <1>1, <1>v DEF PerBucket
  <1>h. PICK H : H = {k \in DOMAIN vs : InBucket(i, vs[k])}
    OBVIOUS
  <1>3. \A k \in DOMAIN vs : vs[k] \in Nat
    BY <1>1
  <1>f. PICK F : F = Fitting(buckets, vs, i)
    OBVIOUS
  <1>4. \A k \in DOMAIN vs : k \in F <=> (i = N + 1 \/ vs[k] <= buckets[i])
    <2>1. i = N + 1 \/ i \in 1 .. N
      BY <1>1, <1>2
    <2> QED BY <1>1, <1>f, <2>1
  <1>5. F \subseteq DOMAIN vs /\ IsFiniteSet(F) /\ Cardinality(F) \in Nat /\ c[i] = Cardinality(F)
    BY <1>1, <1>2, <1>f DEF Fitting
  <1>6. CASE i = 1
    <2>1. H = F
      BY <1>4, <1>5, <1>6, <1>h, <1>v DEF InBucket
    <2>2. PerBucket(l)[i] = Cardinality(H)
      BY <1>2, <1>5, <1>6, <2>1
    <2> QED BY <1>h, <1>v, <2>2
  <1>7. CASE i # 1
    <2>e. PICK E : E = Fitting(buckets, vs, i - 1)
      OBVIOUS
    <2>1. i - 1 \in 1 .. N /\ i - 1 \in 1 .. N + 1
      BY <1>1, <1>2, <1>7
    <2>2. E = {k \in DOMAIN vs : vs[k] <= buckets[i - 1]} /\ IsFiniteSet(E) /\ c[i - 1] = Cardinality(E)
      BY <1>1, <2>1, <2>e
    <2>3. \A k \in DOMAIN vs : k \in E <=> ~(vs[k] > buckets[i - 1])
      BY <1>1, <1>3, <2>1, <2>2
    <2>4. H = F \ E
      BY <1>4, <1>5, <1>7, <1>h, <1>v, <2>3 DEF InBucket
    <2>5. E \subseteq F
      <3> SUFFICES ASSUME NEW k \in E PROVE k \in F
        OBVIOUS
      <3>1. k \in DOMAIN vs /\ vs[k] <= buckets[i - 1] /\ vs[k] \in Nat
        BY <1>3, <2>2
      <3>2. i \in 1 .. N => buckets[i - 1] < buckets[i] /\ buckets[i] \in Nat /\ buckets[i - 1] \in Nat
        BY <1>1, <2>1
      <3>3. i = N + 1 \/ i \in 1 .. N
        BY <1>1, <1>2
      <3> QED BY <1>4, <3>1, <3>2, <3>3
    <2>6. F \cap E = E
      BY <2>5
    <2>7. Cardinality(F \ E) = Cardinality(F) - Cardinality(F \cap E)
      BY <1>5, FS_Difference
    <2>8. Cardinality(H) = c[i] - c[i - 1]
      BY <1>5, <2>2, <2>4, <2>6, <2>7
    <2>9. PerBucket(l)[i] = Cardinality(H)
      BY <1>2, <1>7, <2>8
    <2> QED BY <1>h, <1>v, <2>9
  <1> QED BY <1>6, <1>7

\* The value of a rank is in the buckets that count as many as the rank, and in no other.
LEMMA RankFits ==
  ASSUME TelemetryInv, NEW l \in DOMAIN counts, NEW q \in 1 .. 100
  PROVE  /\ Ranked(l, q) \in Nat
         /\ \A i \in 1 .. Len(buckets) : Ranked(l, q) <= buckets[i] <=> 100 * counts[l][i] >= q * Len(observed1[l])
  <1>v. PICK vs, N, c : vs = observed1[l] /\ N = Len(buckets) /\ c = counts[l]
    OBVIOUS
  <1>0. IsHistogram(vs, N, c)
    BY <1>v, HistogramIs DEF IsHistogram
  <1>1. /\ vs \in Seq(Nat) /\ Len(vs) \in Nat /\ Len(vs) >= 1 /\ DOMAIN vs = 1 .. Len(vs)
        /\ N \in Nat /\ N >= 1 /\ \A j \in 1 .. N : buckets[j] \in Nat
        /\ \A j \in 1 .. N + 1 : /\ c[j] \in Nat /\ c[j] = Cardinality(Fitting(buckets, vs, j))
                                 /\ IsFiniteSet(Fitting(buckets, vs, j))
        /\ \A j \in 1 .. N : Fitting(buckets, vs, j) = {k \in DOMAIN vs : vs[k] <= buckets[j]}
    BY <1>0 DEF IsHistogram
  <1>n. PICK n, D : n = Len(vs) /\ D = DOMAIN vs
    OBVIOUS
  <1>2. IsFiniteSet(D) /\ D # {} /\ Cardinality(D) = n /\ n \in Nat /\ n >= 1 /\ \A k \in D : vs[k] \in Nat
    <2>1. IsFiniteSet(1 .. n) /\ Cardinality(1 .. n) = n /\ D = 1 .. n
      BY <1>1, <1>n, FS_Interval
    <2>2. 1 \in D
      BY <1>1, <1>n
    <2> QED BY <1>1, <1>n, <2>1, <2>2
  <1>r. PICK R : R = {vs[k] : k \in D}
    OBVIOUS
  <1>3. R = Range(vs) /\ R \subseteq Nat /\ R # {} /\ IsFiniteSet(R)
    <2>1. R = Range(vs) /\ R \subseteq Nat /\ R # {}
      BY <1>2, <1>n, <1>r DEF Range
    <2>2. IsFiniteSet(R)
      BY <1>2, <1>n, <1>r, ImageIsFinite
    <2> QED BY <2>1, <2>2
  <1> DEFINE Upto(v) == {k \in D : vs[k] <= v}
  <1>4. \A v : IsFiniteSet(Upto(v)) /\ Cardinality(Upto(v)) \in Nat
    BY <1>2, FS_Subset, FS_CardinalityType
  <1>t. PICK t : t = q * n
    OBVIOUS
  <1>5. t \in Nat /\ t >= 1 /\ t <= 100 * n
    <2>1. q \in Nat /\ q >= 1 /\ q <= 100
      OBVIOUS
    <2>2. \A a, b \in Nat : a >= 1 /\ b >= 1 => a * b >= 1
      OBVIOUS
    <2>3. \A a, b, d \in Nat : a <= b => a * d <= b * d
      OBVIOUS
    <2> QED BY <1>2, <1>t, <2>1, <2>2, <2>3
  <1>s. PICK S : S = {v \in R : 100 * Cardinality(Upto(v)) >= t}
    OBVIOUS
  <1>6. S # {}
    <2>0. R \in SUBSET Int
      BY <1>3
    <2>1. PICK m \in R : \A v \in R : v <= m
      BY <1>3, <2>0, FiniteHasGreatest
    <2>2. Upto(m) = D
      BY <1>r, <2>1
    <2>3. 100 * Cardinality(Upto(m)) >= t
      BY <1>2, <1>5, <2>2
    <2> QED BY <1>s, <2>1, <2>3
  <1>m. PICK r : r = Ranked(l, q)
    OBVIOUS
  <1>7. r \in S /\ \A v \in S : r <= v
    <2>1. r = Min(S)
      BY <1>3, <1>m, <1>n, <1>s, <1>t, <1>v DEF Ranked
    <2>2. S \in SUBSET Nat
      BY <1>3, <1>s
    <2>3. PICK x \in S : \A v \in S : x <= v
      BY <1>6, <2>2, LeastNumber
    <2> QED BY <2>1, <2>3 DEF Min
  <1>8. r \in R /\ r \in Nat /\ 100 * Cardinality(Upto(r)) >= t
    BY <1>3, <1>7, <1>s
  <1>9. ASSUME NEW i \in 1 .. N PROVE r <= buckets[i] <=> 100 * c[i] >= t
    <2>b. PICK b, F : b = buckets[i] /\ F = Fitting(buckets, vs, i)
      OBVIOUS
    <2>1. b \in Nat /\ F = Upto(b) /\ IsFiniteSet(F) /\ c[i] = Cardinality(F) /\ c[i] \in Nat
      <3>1. i \in 1 .. N + 1
        BY <1>1
      <3>2. F = {k \in D : vs[k] <= b}
        BY <1>1, <1>n, <2>b
      <3> QED BY <1>1, <2>b, <3>1, <3>2
    <2>2. ASSUME r <= b PROVE 100 * c[i] >= t
      <3>1. Upto(r) \subseteq F
        BY <1>2, <1>8, <2>1, <2>2
      <3>u. PICK U : U = Upto(r)
        OBVIOUS
      <3>2. Cardinality(U) <= Cardinality(F) /\ Cardinality(U) \in Nat /\ 100 * Cardinality(U) >= t
        BY <1>4, <1>8, <2>1, <3>1, <3>u, FS_Subset
      <3> HIDE DEF Upto
      <3> QED BY <1>5, <2>1, <3>2
    <2>3. ASSUME 100 * c[i] >= t PROVE r <= b
      <3>1. F # {}
        <4>1. Cardinality({}) = 0
          BY FS_EmptySet
        <4>2. c[i] # 0
          BY <1>5, <2>1, <2>3
        <4> QED BY <2>1, <4>1, <4>2
      <3>g. PICK G : G = {vs[k] : k \in F}
        OBVIOUS
      <3>2. G # {} /\ G \in SUBSET Int /\ IsFiniteSet(G) /\ G \subseteq R
        <4>1. F \subseteq D
          BY <2>1
        <4>2. G \subseteq R
          BY <1>r, <3>g, <4>1
        <4> QED BY <1>3, <3>1, <3>g, <4>2, FS_Subset
      <3>3. PICK m \in G : \A v \in G : v <= m
        BY <3>2, FiniteHasGreatest
      <3>4. m \in R /\ m \in Nat /\ m <= b
        <4>1. PICK k \in F : m = vs[k]
          BY <3>g
        <4> QED BY <1>3, <2>1, <3>2, <4>1
      <3>5. Upto(m) = F
        <4>1. \A k \in F : k \in D /\ vs[k] <= m
          BY <2>1, <3>3, <3>g
        <4>2. \A k \in D : vs[k] <= m => vs[k] <= b
          BY <1>2, <2>1, <3>4
        <4> QED BY <2>1, <4>1, <4>2
      <3>6. m \in S
        BY <1>s, <2>1, <2>3, <3>4, <3>5
      <3> QED BY <1>7, <1>8, <2>1, <3>4, <3>6
    <2> QED BY <2>2, <2>3, <2>b
  <1> QED BY <1>8, <1>9, <1>m, <1>n, <1>t, <1>v

LEMMA PartsOfAWhole ==
  ASSUME NEW x \in Nat, NEW y \in Nat, NEW g \in Nat \ {0}, NEW m \in Nat, x <= y, y <= g * m
  PROVE  x \div g \in Nat /\ y \div g \in Nat /\ x \div g <= y \div g /\ y \div g <= m
  <1>1. \A z \in Nat : z \div g \in Nat /\ g * (z \div g) <= z /\ z < g * (z \div g) + g
    OBVIOUS
  <1>p. PICK p, q : p = x \div g /\ q = y \div g
    OBVIOUS
  <1>2. p \in Nat /\ q \in Nat /\ g * p <= x /\ x < g * p + g /\ g * q <= y /\ y < g * q + g
    BY <1>1, <1>p
  <1>3. \A a, b \in Nat : a < b => g * a + g <= g * b
    <2>1. SUFFICES ASSUME NEW a \in Nat, NEW b \in Nat, a < b PROVE g * a + g <= g * b
      OBVIOUS
    <2>2. PICK e \in Nat : b = a + 1 + e
      <3>1. b - a - 1 \in Nat /\ b = a + 1 + (b - a - 1)
        BY <2>1
      <3> QED BY <3>1
    <2>3. g * b = g * a + g + g * e /\ g * e \in Nat /\ g * a \in Nat
      BY <2>2
    <2> QED BY <2>3
  <1>4. g * p \in Nat /\ g * q \in Nat /\ g * m \in Nat
    BY <1>2
  <1>5. ~(q < p)
    <2>1. q < p => g * q + g <= g * p
      BY <1>2, <1>3
    <2> QED BY <1>2, <1>4, <2>1
  <1>6. ~(m < q)
    <2>1. m < q => g * m + g <= g * q
      BY <1>2, <1>3
    <2> QED BY <1>2, <1>4, <2>1
  <1> QED BY <1>2, <1>5, <1>6, <1>p

\* The bucket a quantile is read from: its bounds, what was counted below it and in it.
LowerBound(b)      == IF b = 1 THEN 0 ELSE buckets[b - 1]
CountedBelow(l, b) == IF b = 1 THEN 0 ELSE counts[l][b - 1]
Target(l, q)       == q * Len(observed1[l])
Hits(l, q)         == {i \in 1 .. Len(buckets) : 100 * counts[l][i] >= Target(l, q)}
Hit(l, q)          == Min(Hits(l, q))
PointOf(l, b, t) ==
  100 * LowerBound(b)
    + ((t - 100 * CountedBelow(l, b)) * (buckets[b] - LowerBound(b))) \div (counts[l][b] - CountedBelow(l, b))

LEMMA QuantileIs ==
  ASSUME TelemetryInv, NEW l \in DOMAIN counts, NEW q \in 1 .. 100
  PROVE  LET b == Hit(l, q)  t == Target(l, q)  below == CountedBelow(l, b)  low == LowerBound(b) IN
         /\ t \in Nat
         /\ Hits(l, q) = {} => Quantile(l, q) = << >>
         /\ Hits(l, q) # {} =>
              /\ b \in 1 .. Len(buckets) /\ b \in Hits(l, q) /\ \A i \in Hits(l, q) : b <= i
              /\ below \in Nat /\ low \in Nat /\ counts[l][b] \in Nat /\ buckets[b] \in Nat
              /\ 100 * below < t /\ t <= 100 * counts[l][b] /\ below < counts[l][b] /\ low <= buckets[b]
              /\ Quantile(l, q) = <<PointOf(l, b, t)>>
  <1>v. PICK N, c, n, t, H, b : /\ N = Len(buckets) /\ c = counts[l] /\ n = Len(observed1[l])
                                /\ t = Target(l, q) /\ H = Hits(l, q) /\ b = Hit(l, q)
    OBVIOUS
  <1>1. /\ N \in Nat /\ N >= 1 /\ n \in Nat /\ n >= 1 /\ \A i \in 1 .. N : buckets[i] \in Nat
        /\ \A i, j \in 1 .. N : i < j => buckets[i] < buckets[j]
        /\ \A i \in 1 .. N + 1 : c[i] \in Nat
        /\ c[N + 1] = n
    BY <1>v, HistogramIs DEF IsHistogram
  <1>2. t = q * n /\ t \in Nat /\ t >= 1 /\ H = {i \in 1 .. N : 100 * c[i] >= t}
    <2>1. q \in Nat /\ q >= 1
      OBVIOUS
    <2>2. \A x, y \in Nat : x >= 1 /\ y >= 1 => x * y \in Nat /\ x * y >= 1
      OBVIOUS
    <2> QED BY <1>1, <1>v, <2>1, <2>2 DEF Target, Hits
  <1> DEFINE at(i) == IF i = 0 THEN 0 ELSE c[i]
             bound(i) == IF i = 0 THEN 0 ELSE buckets[i]
             hits == {i \in 1 .. N : 100 * at(i) >= t}
  <1>3. hits = H
    <2>1. \A i \in 1 .. N : at(i) = c[i]
      BY <1>1
    <2> QED BY <1>2, <2>1
  <1> HIDE DEF hits
  <1>4. Quantile(l, q) =
          IF hits = {} THEN << >>
          ELSE IF at(Min(hits)) - at(Min(hits) - 1) = 0 THEN <<100 * bound(Min(hits))>>
          ELSE <<100 * bound(Min(hits) - 1)
                   + ((t - 100 * at(Min(hits) - 1)) * (bound(Min(hits)) - bound(Min(hits) - 1)))
                       \div (at(Min(hits)) - at(Min(hits) - 1))>>
    <2> DEFINE At(i) == IF i = 0 THEN 0 ELSE counts[l][i]
               Bound(i) == IF i = 0 THEN 0 ELSE buckets[i]
               target == q * counts[l][Len(buckets) + 1]
               those == {i \in 1 .. Len(buckets) : 100 * At(i) >= target}
    <2>1. Quantile(l, q) =
            IF l \notin DOMAIN counts \/ those = {} THEN << >>
            ELSE IF At(Min(those)) - At(Min(those) - 1) = 0 THEN <<100 * Bound(Min(those))>>
            ELSE <<100 * Bound(Min(those) - 1)
                     + ((target - 100 * At(Min(those) - 1)) * (Bound(Min(those)) - Bound(Min(those) - 1)))
                         \div (At(Min(those)) - At(Min(those) - 1))>>
      BY DEF Quantile
    <2>2. target = t
      <3>1. counts[l][Len(buckets) + 1] = n
        BY <1>1, <1>v
      <3> QED BY <1>2, <3>1
    <2>3. \A i : At(i) = at(i) /\ Bound(i) = bound(i)
      BY <1>v
    <2> HIDE DEF target, At, Bound
    <2>4. those = hits
      <3> HIDE DEF at, bound
      <3> QED BY <1>v, <2>2, <2>3 DEF hits
    <2> HIDE DEF those, at, bound
    <2> QED BY <2>1, <2>2, <2>3, <2>4
  <1>5. H = {} => Quantile(l, q) = << >>
    BY <1>3, <1>4
  <1>6. ASSUME H # {}
        PROVE  /\ b \in 1 .. N /\ b \in H /\ \A i \in H : b <= i
               /\ CountedBelow(l, b) \in Nat /\ LowerBound(b) \in Nat /\ c[b] \in Nat /\ buckets[b] \in Nat
               /\ 100 * CountedBelow(l, b) < t /\ t <= 100 * c[b] /\ CountedBelow(l, b) < c[b]
               /\ LowerBound(b) <= buckets[b]
               /\ Quantile(l, q) = <<PointOf(l, b, t)>>
    <2>1. b \in H /\ \A i \in H : b <= i
      <3>1. H \in SUBSET Nat
        BY <1>1, <1>2
      <3>2. PICK x \in H : \A i \in H : x <= i
        BY <1>6, <3>1, LeastNumber
      <3>3. b = Min(H)
        BY <1>v DEF Hit
      <3> QED BY <3>2, <3>3 DEF Min
    <2>2. b \in 1 .. N /\ 100 * c[b] >= t /\ b \in 1 .. N + 1 /\ c[b] \in Nat /\ buckets[b] \in Nat
      BY <1>1, <1>2, <2>1
    <2>w. PICK w, low : w = CountedBelow(l, b) /\ low = LowerBound(b)
      OBVIOUS
    <2>3. w = at(b - 1) /\ low = bound(b - 1)
      <3>1. b - 1 = 0 <=> b = 1
        BY <2>2
      <3> QED BY <1>v, <2>w, <3>1 DEF CountedBelow, LowerBound
    <2>4. w \in Nat /\ low \in Nat /\ 100 * w < t /\ low <= buckets[b]
      <3>1. CASE b = 1
        <4>1. w = 0 /\ low = 0
          BY <2>w, <3>1 DEF CountedBelow, LowerBound
        <4> QED BY <1>2, <2>2, <4>1
      <3>2. CASE b # 1
        <4>1. b - 1 \in 1 .. N /\ b - 1 \in 1 .. N + 1 /\ b - 1 < b
          BY <1>1, <2>2, <3>2
        <4>2. w = c[b - 1] /\ low = buckets[b - 1]
          BY <1>v, <2>w, <3>2 DEF CountedBelow, LowerBound
        <4>3. b - 1 \notin H
          BY <2>1, <2>2, <4>1
        <4>4. ~(100 * c[b - 1] >= t)
          BY <1>2, <4>1, <4>3
        <4>5. buckets[b - 1] < buckets[b] /\ buckets[b - 1] \in Nat /\ c[b - 1] \in Nat
          BY <1>1, <2>2, <4>1
        <4> QED BY <1>2, <2>2, <4>2, <4>4, <4>5
      <3> QED BY <3>1, <3>2
    <2>5. w < c[b]
      BY <1>2, <2>2, <2>4
    <2>6. Min(hits) = b
      BY <1>3, <1>v DEF Hit
    <2>7. at(b) = c[b] /\ bound(b) = buckets[b]
      BY <2>2
    <2>8. hits # {} /\ at(b) - at(b - 1) # 0
      BY <1>3, <1>6, <2>2, <2>3, <2>4, <2>5, <2>7
    <2>9. Quantile(l, q) = <<100 * bound(b - 1) + ((t - 100 * at(b - 1)) * (bound(b) - bound(b - 1))) \div (at(b) - at(b - 1))>>
      <3> HIDE DEF at, bound
      <3> QED BY <1>4, <2>6, <2>8
    <2>10. Quantile(l, q) = <<100 * low + ((t - 100 * w) * (buckets[b] - low)) \div (c[b] - w)>>
      <3> HIDE DEF at, bound
      <3> QED BY <2>3, <2>7, <2>9
    <2>11. Quantile(l, q) = <<PointOf(l, b, t)>>
      BY <1>v, <2>10, <2>w DEF PointOf
    <2> QED BY <2>1, <2>2, <2>4, <2>5, <2>11, <2>w
  <1> QED BY <1>2, <1>5, <1>6, <1>v

\* A point lies in its bucket, the further the more is asked.
LEMMA PointsLie ==
  ASSUME TelemetryInv, NEW l \in DOMAIN counts, NEW b \in 1 .. Len(buckets), NEW s \in Nat, NEW t \in Nat,
         CountedBelow(l, b) \in Nat, LowerBound(b) \in Nat, counts[l][b] \in Nat, buckets[b] \in Nat,
         100 * CountedBelow(l, b) < s, s <= t, t <= 100 * counts[l][b], CountedBelow(l, b) < counts[l][b],
         LowerBound(b) <= buckets[b]
  PROVE  /\ PointOf(l, b, s) \in Nat /\ PointOf(l, b, t) \in Nat
         /\ 100 * LowerBound(b) <= PointOf(l, b, s) /\ PointOf(l, b, s) <= PointOf(l, b, t)
         /\ PointOf(l, b, t) <= 100 * buckets[b]
  <1>p. PICK w, low, m, k : w = CountedBelow(l, b) /\ low = LowerBound(b) /\ m = buckets[b] /\ k = counts[l][b]
    OBVIOUS
  <1>0. w \in Nat /\ low \in Nat /\ m \in Nat /\ k \in Nat /\ 100 * w < s /\ t <= 100 * k /\ w < k /\ low <= m
    BY <1>p
  <1>g. PICK g, h : g = k - w /\ h = m - low
    OBVIOUS
  <1>1. h \in Nat /\ g \in Nat \ {0} /\ k = w + g /\ m = low + h
    BY <1>0, <1>g
  <1>q. PICK x, y : x = s - 100 * w /\ y = t - 100 * w
    OBVIOUS
  <1>2. x \in Nat /\ y \in Nat /\ x <= y /\ y <= 100 * g
    BY <1>0, <1>1, <1>q
  <1>3. x * h \in Nat /\ y * h \in Nat /\ x * h <= y * h /\ y * h <= g * (100 * h) /\ 100 * h \in Nat
    <2>0. \A a, e, d \in Nat : a <= e => a * d \in Nat /\ e * d \in Nat /\ a * d <= e * d
      OBVIOUS
    <2>1. \A a, e \in Nat : a <= e => a * h \in Nat /\ e * h \in Nat /\ a * h <= e * h
      BY <1>1, <2>0
    <2>2. x * h <= y * h /\ x * h \in Nat /\ y * h \in Nat
      BY <1>2, <2>1
    <2>3. 100 * g \in Nat
      BY <1>1
    <2>4. y * h <= (100 * g) * h
      BY <1>2, <2>1, <2>3
    <2>5. (100 * g) * h = g * (100 * h)
      BY <1>1
    <2> QED BY <1>1, <2>2, <2>4, <2>5
  <1>d. PICK u, v : u = (x * h) \div g /\ v = (y * h) \div g
    OBVIOUS
  <1>4. u \in Nat /\ v \in Nat /\ u <= v /\ v <= 100 * h
    <2>m. PICK c, n, e : c = x * h /\ n = y * h /\ e = 100 * h
      OBVIOUS
    <2>1. c \in Nat /\ n \in Nat /\ e \in Nat /\ c <= n /\ n <= g * e
      BY <1>3, <2>m
    <2>2. c \div g \in Nat /\ n \div g \in Nat /\ c \div g <= n \div g /\ n \div g <= e
      BY <1>1, <2>1, PartsOfAWhole
    <2> QED BY <1>d, <2>2, <2>m
  <1>5. PointOf(l, b, s) = 100 * low + u /\ PointOf(l, b, t) = 100 * low + v
    BY <1>d, <1>g, <1>p, <1>q DEF PointOf
  <1>6. /\ 100 * low + u \in Nat /\ 100 * low + v \in Nat
        /\ 100 * low <= 100 * low + u /\ 100 * low + u <= 100 * low + v /\ 100 * low + v <= 100 * m
    BY <1>0, <1>1, <1>4
  <1> QED BY <1>5, <1>6, <1>p

LEMMA QuantilesLie ==
  ASSUME TelemetryInv, NEW l \in DOMAIN counts, NEW q \in 1 .. 100
  PROVE  LET got == Quantile(l, q)  true == Ranked(l, q) IN
         IF got = << >> THEN true > Last(buckets)
         ELSE \E i \in DOMAIN buckets :
                /\ InBucket(i, true) /\ got[1] <= 100 * buckets[i]
                /\ i > 1 => got[1] >= 100 * buckets[i - 1]
  <1>v. PICK N, c, t, H, b, r : /\ N = Len(buckets) /\ c = counts[l] /\ t = Target(l, q) /\ H = Hits(l, q)
                                /\ b = Hit(l, q) /\ r = Ranked(l, q)
    OBVIOUS
  <1>1. N \in Nat /\ N >= 1 /\ DOMAIN buckets = 1 .. N /\ (\A i \in 1 .. N : buckets[i] \in Nat) /\ r \in Nat
        /\ \A i \in 1 .. N : r <= buckets[i] <=> i \in H
    BY <1>v, HistogramIs, RankFits DEF IsHistogram, Hits, Target
  <1>2. CASE H = {}
    <2>1. Quantile(l, q) = << >>
      BY <1>2, <1>v, QuantileIs
    <2>2. N \in 1 .. N /\ Last(buckets) = buckets[N]
      BY <1>1, <1>v DEF Last
    <2>3. ~(r <= buckets[N]) /\ buckets[N] \in Nat
      BY <1>1, <1>2, <2>2
    <2>4. r > Last(buckets)
      BY <1>1, <2>2, <2>3
    <2> QED BY <1>v, <2>1, <2>4
  <1>3. CASE H # {}
    <2>w. PICK w, low : w = CountedBelow(l, b) /\ low = LowerBound(b)
      OBVIOUS
    <2>1. /\ t \in Nat /\ b \in 1 .. N /\ b \in H /\ \A i \in H : b <= i
          /\ w \in Nat /\ low \in Nat /\ c[b] \in Nat /\ buckets[b] \in Nat
          /\ 100 * w < t /\ t <= 100 * c[b] /\ w < c[b] /\ low <= buckets[b]
          /\ Quantile(l, q) = <<PointOf(l, b, t)>>
      BY <1>3, <1>v, <2>w, QuantileIs
    <2>2. t <= t
      BY <2>1
    <2>3. 100 * low <= PointOf(l, b, t) /\ PointOf(l, b, t) <= 100 * buckets[b]
      BY <1>v, <2>1, <2>2, <2>w, PointsLie
    <2>p. PICK p : p = PointOf(l, b, t)
      OBVIOUS
    <2>4. Quantile(l, q) # << >> /\ Quantile(l, q)[1] = p
      BY <2>1, <2>p
    <2>5. InBucket(b, r)
      <3>1. r <= buckets[b]
        BY <1>1, <2>1
      <3>2. b = 1 \/ r > buckets[b - 1]
        <4> SUFFICES ASSUME b # 1 PROVE r > buckets[b - 1]
          OBVIOUS
        <4>1. b - 1 \in 1 .. N /\ ~(b <= b - 1)
          BY <1>1, <2>1
        <4>2. b - 1 \notin H
          BY <2>1, <4>1
        <4> QED BY <1>1, <4>1, <4>2
      <3> QED BY <3>1, <3>2 DEF InBucket
    <2>6. b > 1 => p >= 100 * buckets[b - 1]
      <3> SUFFICES ASSUME b > 1 PROVE p >= 100 * buckets[b - 1]
        OBVIOUS
      <3>1. b # 1
        BY <2>1
      <3>2. low = buckets[b - 1]
        BY <2>w, <3>1 DEF LowerBound
      <3>3. p \in Nat
        BY <1>v, <2>1, <2>2, <2>p, <2>w, PointsLie
      <3> QED BY <2>1, <2>3, <2>p, <3>2, <3>3
    <2>7. b \in DOMAIN buckets /\ p <= 100 * buckets[b]
      BY <1>1, <2>1, <2>3, <2>p
    <2> QED BY <1>v, <2>4, <2>5, <2>6, <2>7
  <1> QED BY <1>2, <1>3

LEMMA QuantilesRise ==
  ASSUME TelemetryInv, NEW l \in DOMAIN counts, NEW q \in 1 .. 100, NEW r \in 1 .. 100, q < r, Quantile(l, r) # << >>
  PROVE  Quantile(l, q) # << >> /\ Quantile(l, q)[1] <= Quantile(l, r)[1]
  <1>v. PICK N, c, s, t, G, H, a, b : /\ N = Len(buckets) /\ c = counts[l]
                                      /\ s = Target(l, q) /\ G = Hits(l, q) /\ a = Hit(l, q)
                                      /\ t = Target(l, r) /\ H = Hits(l, r) /\ b = Hit(l, r)
    OBVIOUS
  <1>1. N \in Nat /\ N >= 1 /\ (\A i \in 1 .. N : buckets[i] \in Nat)
        /\ \A i, j \in 1 .. N : i < j => buckets[i] < buckets[j]
    BY <1>v, HistogramIs DEF IsHistogram
  <1>2. s \in Nat /\ t \in Nat /\ s <= t
    <2>1. Len(observed1[l]) \in Nat
      BY HistogramIs DEF IsHistogram
    <2>q. q \in Nat /\ r \in Nat /\ q <= r
      OBVIOUS
    <2>2. \A x, y, n \in Nat : x <= y => x * n <= y * n /\ x * n \in Nat /\ y * n \in Nat
      OBVIOUS
    <2> QED BY <1>v, <2>1, <2>2, <2>q DEF Target
  <1>3. H # {} /\ H \subseteq G
    <2>1. H # {}
      BY <1>v, QuantileIs
    <2>2. \A i \in 1 .. N : c[i] \in Nat
      <3>1. \A i \in 1 .. N : i \in 1 .. N + 1
        BY <1>1
      <3> QED BY <1>v, <3>1, HistogramIs DEF IsHistogram
    <2>3. \A i \in 1 .. N : 100 * c[i] >= t => 100 * c[i] >= s
      BY <1>2, <2>2
    <2> QED BY <1>v, <2>1, <2>3 DEF Hits
  <1>a. /\ a \in 1 .. N /\ a \in G /\ \A i \in G : a <= i
        /\ CountedBelow(l, a) \in Nat /\ LowerBound(a) \in Nat /\ c[a] \in Nat /\ buckets[a] \in Nat
        /\ 100 * CountedBelow(l, a) < s /\ s <= 100 * c[a] /\ CountedBelow(l, a) < c[a] /\ LowerBound(a) <= buckets[a]
        /\ Quantile(l, q) = <<PointOf(l, a, s)>>
    BY <1>3, <1>v, QuantileIs
  <1>b. /\ b \in 1 .. N /\ b \in H
        /\ CountedBelow(l, b) \in Nat /\ LowerBound(b) \in Nat /\ c[b] \in Nat /\ buckets[b] \in Nat
        /\ 100 * CountedBelow(l, b) < t /\ t <= 100 * c[b] /\ CountedBelow(l, b) < c[b] /\ LowerBound(b) <= buckets[b]
        /\ Quantile(l, r) = <<PointOf(l, b, t)>>
    BY <1>3, <1>v, QuantileIs
  <1>p. PICK x, y : x = PointOf(l, a, s) /\ y = PointOf(l, b, t)
    OBVIOUS
  <1>4. a <= b /\ s <= s /\ t <= t
    BY <1>2, <1>3, <1>a, <1>b
  <1>5. x \in Nat /\ x <= 100 * buckets[a]
    BY <1>2, <1>4, <1>a, <1>p, <1>v, PointsLie
  <1>6. y \in Nat /\ 100 * LowerBound(b) <= y
    BY <1>2, <1>4, <1>b, <1>p, <1>v, PointsLie
  <1>7. x <= y
    <2>1. CASE a = b
      BY <1>2, <1>a, <1>b, <1>p, <1>v, <2>1, PointsLie
    <2>2. CASE a # b
      <3>1. b # 1 /\ b - 1 \in 1 .. N /\ a <= b - 1
        BY <1>1, <1>4, <1>a, <1>b, <2>2
      <3>2. LowerBound(b) = buckets[b - 1]
        BY <3>1 DEF LowerBound
      <3>3. buckets[a] <= buckets[b - 1] /\ buckets[b - 1] \in Nat
        <4>1. a = b - 1 \/ a < b - 1
          BY <1>a, <3>1
        <4> QED BY <1>1, <1>a, <3>1, <4>1
      <3> QED BY <1>5, <1>6, <1>a, <3>2, <3>3
    <2> QED BY <2>1, <2>2
  <1>8. Quantile(l, q) # << >> /\ Quantile(l, q)[1] = x /\ Quantile(l, r)[1] = y
    BY <1>a, <1>b, <1>p
  <1> QED BY <1>7, <1>8

LEMMA SumOfDifference ==
  ASSUME NEW S, NEW f, NEW k, NEW d, DOMAIN f = S, DOMAIN k = S, DOMAIN d = S,
         f = [x \in S |-> f[x]], k = [x \in S |-> k[x]], d = [x \in S |-> d[x]],
         IsSummable(f), IsSummable(k), IsSummable(d), \A x \in S : d[x] = f[x] - k[x]
  PROVE  /\ SumFunction(f) \in Int /\ SumFunction(k) \in Int
         /\ SumFunction(d) = SumFunction(f) - SumFunction(k)
  <1>1. PICK g : AddsAll(g, f)
    BY SumsAdd
  <1>2. PICK h : AddsAll(h, k)
    BY SumsAdd
  <1>3. PICK e : AddsAll(e, d)
    BY SumsAdd
  <1>4. /\ g \in [SUBSET S -> Int] /\ g[{}] = 0 /\ \A U \in SUBSET S : \A y \in U : g[U] = f[y] + g[U \ {y}]
        /\ h \in [SUBSET S -> Int] /\ h[{}] = 0 /\ \A U \in SUBSET S : \A y \in U : h[U] = k[y] + h[U \ {y}]
        /\ e \in [SUBSET S -> Int] /\ e[{}] = 0 /\ \A U \in SUBSET S : \A y \in U : e[U] = d[y] + e[U \ {y}]
    BY <1>1, <1>2, <1>3 DEF AddsAll
  <1>5. IsFiniteSet(S) /\ \A x \in S : f[x] \in Int /\ k[x] \in Int /\ d[x] \in Int
    BY DEF IsSummable
  <1> DEFINE P == {U \in SUBSET S : e[U] = g[U] - h[U]}
  <1>6. {} \in P
    BY <1>4
  <1>7. ASSUME NEW U \in SUBSET S, NEW y \in U, U \ {y} \in P PROVE U \in P
    <2>1. U \ {y} \in SUBSET S /\ y \in S
      OBVIOUS
    <2>2. /\ e[U] = d[y] + e[U \ {y}] /\ g[U] = f[y] + g[U \ {y}] /\ h[U] = k[y] + h[U \ {y}]
          /\ e[U \ {y}] = g[U \ {y}] - h[U \ {y}]
      BY <1>4, <1>7
    <2>3. g[U \ {y}] \in Int /\ h[U \ {y}] \in Int /\ f[y] \in Int /\ k[y] \in Int /\ d[y] = f[y] - k[y]
      BY <1>4, <1>5, <2>1
    <2>4. e[U] = g[U] - h[U]
      BY <2>2, <2>3
    <2> QED BY <2>4
  <1>8. S \in SUBSET S
    OBVIOUS
  <1>9. S \in P
    <2> HIDE DEF P
    <2> QED BY <1>5, <1>6, <1>7, <1>8, OneByOne
  <1>10. SumFunction(f) = g[S] /\ SumFunction(k) = h[S] /\ SumFunction(d) = e[S]
    BY <1>1, <1>2, <1>3, SumIs
  <1> QED BY <1>4, <1>8, <1>9, <1>10

\* What the roots lead to: it holds the children of what it holds, and nothing in it has a
\* parent elsewhere.
LEMMA ShownIs ==
  ASSUME spans \in SpanTrees
  PROVE  /\ Shown \subseteq DOMAIN spans /\ SpanChildren("") \subseteq Shown
         /\ \A s \in Shown : SpanChildren(s) \subseteq Shown
         /\ \A s \in Shown : spans[s].parent = "" \/ spans[s].parent \in Shown
  <1>u. PICK U, N, A : U = DOMAIN spans /\ N = Cardinality(U) /\ A = SpanChildren("")
    OBVIOUS
  <1> DEFINE Wider(S) == S \cup UNION {SpanChildren(s) : s \in S}
             F == [S \in SUBSET U |-> Wider(S)]
             Eq(h) == h = [n \in 0 .. N |-> IF n = 0 THEN A ELSE Wider(h[n - 1])]
             wave == CHOOSE h : Eq(h)
             iter == CHOOSE h : h = [n \in 0 .. N |-> IF n = 0 THEN A ELSE F[h[n - 1]]]
  <1>0. Shown = wave[N]
    BY <1>u DEF Shown
  <1>1. IsFiniteSet(U) /\ N \in Nat
    BY <1>u, TelemetryAssumption, FS_CardinalityType
  <1>2. \A s : SpanChildren(s) \subseteq U
    BY <1>u DEF SpanChildren
  <1>3. A \in SUBSET U /\ HasSize(U, N) /\ F \in [SUBSET U -> SUBSET U] /\ \A S \in SUBSET U : S \subseteq F[S] /\ F[S] = Wider(S)
    <2>1. A \in SUBSET U
      BY <1>2, <1>u
    <2>2. HasSize(U, N)
      BY <1>1, <1>u DEF HasSize
    <2>3. \A S \in SUBSET U : Wider(S) \in SUBSET U /\ S \subseteq Wider(S)
      BY <1>2
    <2> HIDE DEF Wider
    <2> QED BY <2>1, <2>2, <2>3
  <1> HIDE DEF F, Wider
  <1>4. IsIteration(iter, N, A, F)
    BY DEF IsIteration
  <1>i. PICK it : it = iter
    OBVIOUS
  <1> HIDE DEF iter
  <1>5. /\ it \in [0 .. N -> SUBSET U] /\ it[0] = A
        /\ \A n \in 0 .. N : n + 1 \in 0 .. N => it[n + 1] = F[it[n]]
    <2>w. PICK W : W = SUBSET U
      OBVIOUS
    <2>1. N \in Nat /\ A \in W /\ F \in [W -> W] /\ IsIteration(it, N, A, F)
      BY <1>1, <1>3, <1>4, <1>i, <2>w
    <2>2. it \in [0 .. N -> W] /\ it[0] = A /\ \A n \in 0 .. N : n + 1 \in 0 .. N => it[n + 1] = F[it[n]]
      BY <2>1, Iterates
    <2> QED BY <2>2, <2>w
  <1>6. Eq(it)
    <2>1. ASSUME NEW n \in 0 .. N PROVE it[n] = IF n = 0 THEN A ELSE Wider(it[n - 1])
      <3>1. CASE n = 0
        BY <1>5, <3>1
      <3>2. CASE n # 0
        <4>1. n - 1 \in 0 .. N /\ (n - 1) + 1 = n
          BY <1>1, <3>2
        <4>2. it[n] = F[it[n - 1]] /\ it[n - 1] \in SUBSET U
          BY <1>5, <4>1
        <4> QED BY <1>3, <3>2, <4>2
      <3> QED BY <3>1, <3>2
    <2> QED BY <1>5, <2>1
  <1>7. Eq(wave)
    <2> HIDE DEF Eq
    <2> QED BY <1>6
  <1>v. PICK w : w = wave
    OBVIOUS
  <1> HIDE DEF wave
  <1>8. w[N] = it[N]
    <2> DEFINE P == {n \in 0 .. N : w[n] = it[n]}
    <2>1. 0 \in 0 .. N
      BY <1>1
    <2>2. 0 \in P
      BY <1>5, <1>7, <1>v, <2>1
    <2>3. ASSUME NEW n \in 0 .. N, n + 1 \in 0 .. N, n \in P PROVE n + 1 \in P
      <3>1. n + 1 # 0 /\ (n + 1) - 1 = n
        BY <1>1
      <3>2. w[n + 1] = Wider(w[n])
        BY <1>7, <1>v, <2>3, <3>1
      <3>3. it[n + 1] = Wider(it[n])
        BY <1>6, <2>3, <3>1
      <3> QED BY <2>3, <3>2, <3>3
    <2>4. \A n \in 0 .. N : n \in P
      <3> HIDE DEF P
      <3> QED BY <1>1, <2>2, <2>3, UpTo
    <2> QED BY <1>1, <2>4
  <1>s. PICK S : S = it[N]
    OBVIOUS
  <1>9. /\ S \in SUBSET U /\ A \subseteq S /\ F[S] = S
        /\ \A C \in SUBSET U : A \subseteq C /\ (\A T \in SUBSET C : F[T] \subseteq C) => S \subseteq C
    <2>1. IsWidening(F, U)
      BY <1>3 DEF IsWidening
    <2> QED BY <1>3, <1>4, <1>i, <1>s, <2>1, RoundsClose
  <1>10. \A s \in S : SpanChildren(s) \subseteq S
    BY <1>3, <1>9 DEF Wider
  <1>11. \A s \in S : spans[s].parent = "" \/ spans[s].parent \in S
    <2>c. PICK C : C = {s \in S : spans[s].parent = "" \/ spans[s].parent \in S}
      OBVIOUS
    <2>1. C \in SUBSET U /\ A \subseteq C
      BY <1>9, <1>u, <2>c DEF SpanChildren
    <2>2. ASSUME NEW T \in SUBSET C PROVE F[T] \subseteq C
      <3>1. T \in SUBSET U /\ T \subseteq S
        BY <2>1, <2>c
      <3>2. \A s \in T : SpanChildren(s) \subseteq C
        BY <1>10, <2>c, <3>1 DEF SpanChildren
      <3>3. F[T] = T \cup UNION {SpanChildren(s) : s \in T}
        BY <1>3, <3>1 DEF Wider
      <3> QED BY <3>2, <3>3
    <2>3. S \subseteq C
      BY <1>9, <2>1, <2>2
    <2> QED BY <2>3, <2>c
  <1> QED BY <1>0, <1>8, <1>9, <1>10, <1>11, <1>s, <1>u, <1>v

\* The time of a trace is that of its roots and of the children of its spans.
LEMMA SelfTimesAddUp ==
  ASSUME spans \in SpanTrees, \A s \in Shown : spans[s].duration >= TimeIn(SpanChildren(s))
  PROVE  SumFunction([s \in Shown |-> SelfTime(s)]) = TimeIn(SpanChildren(""))
  <1>s. PICK S, f : S = Shown /\ f = [s \in S |-> spans[s].duration]
    OBVIOUS
  <1>1. /\ S \subseteq DOMAIN spans /\ SpanChildren("") \subseteq S
        /\ \A s \in S : SpanChildren(s) \subseteq S
        /\ \A s \in S : spans[s].parent = "" \/ spans[s].parent \in S
    BY <1>s, ShownIs
  <1>2. IsFiniteSet(DOMAIN spans) /\ "" \notin DOMAIN spans /\ \A s \in DOMAIN spans : spans[s].duration \in Nat
    BY TelemetryAssumption
  <1>3. IsFiniteSet(S) /\ "" \notin S
    BY <1>1, <1>2, FS_Subset
  <1>4. DOMAIN f = S /\ f = [s \in S |-> f[s]] /\ \A s \in S : f[s] = spans[s].duration /\ f[s] \in Nat
    BY <1>1, <1>2, <1>s
  <1>5. IsSummable(f) /\ \A s \in S : f[s] \in Int
    <2>1. \A s \in S : f[s] \in Int
      BY <1>4
    <2>2. IsFiniteSet(DOMAIN f) /\ \A s \in DOMAIN f : f[s] \in Int
      BY <1>3, <1>4, <2>1
    <2> QED BY <2>1, <2>2 DEF IsSummable
  <1>t. PICK T, c : T = S \cup {""} /\ c = [s \in S |-> spans[s].parent]
    OBVIOUS
  <1>6. IsFiniteSet(T) /\ \A s \in S : c[s] \in T
    BY <1>1, <1>3, <1>t, FS_AddElement
  <1>7. \A t \in T : ClassOf(f, c, t) = SpanChildren(t)
    BY <1>1, <1>4, <1>t DEF ClassOf, SpanChildren
  <1>b. PICK b : b = ByClass(f, T, c)
    OBVIOUS
  <1>8. IsSummable(b) /\ SumFunction(b) = SumFunction(f)
    BY <1>4, <1>5, <1>6, <1>b, SumByClass
  <1>9. DOMAIN b = T /\ b = [t \in T |-> b[t]] /\ \A t \in T : b[t] = TimeIn(SpanChildren(t))
    <2>1. b = [t \in T |-> SumFunction([x \in ClassOf(f, c, t) |-> f[x]])]
      BY <1>b DEF ByClass
    <2>2. ASSUME NEW t \in T PROVE SumFunction([x \in ClassOf(f, c, t) |-> f[x]]) = TimeIn(SpanChildren(t))
      <3>1. SpanChildren(t) \subseteq S
        BY <1>1, <1>t
      <3>2. [x \in SpanChildren(t) |-> f[x]] = [x \in SpanChildren(t) |-> spans[x].duration]
        BY <1>4, <3>1
      <3> QED BY <1>7, <3>2 DEF TimeIn
    <2> QED BY <2>1, <2>2
  <1>10. PICK g : AddsAll(g, b)
    BY <1>8, SumsAdd
  <1>11. g \in [SUBSET T -> Int] /\ g[T] = SumFunction(f) /\ g[T] = b[""] + g[S] /\ g[S] = SumFunction([x \in S |-> b[x]])
    <2>1. /\ g \in [SUBSET T -> Int]
          /\ \A U \in SUBSET T : \A y \in U : g[U] = b[y] + g[U \ {y}]
          /\ \A U \in SUBSET T : SumFunction([x \in U |-> b[x]]) = g[U]
      BY <1>9, <1>10 DEF AddsAll
    <2>2. T \in SUBSET T /\ "" \in T /\ T \ {""} = S /\ S \in SUBSET T
      BY <1>3, <1>t
    <2>3. SumFunction(b) = g[T]
      BY <1>9, <1>10, SumIs
    <2>4. g[T] = b[""] + g[T \ {""}]
      BY <2>1, <2>2
    <2> QED BY <1>8, <2>1, <2>2, <2>3, <2>4
  <1>k. PICK k, d : k = [x \in S |-> b[x]] /\ d = [s \in S |-> SelfTime(s)]
    OBVIOUS
  <1>12. \A t \in T : b[t] \in Int
    BY <1>8, <1>9 DEF IsSummable
  <1>13. /\ DOMAIN k = S /\ k = [s \in S |-> k[s]] /\ IsSummable(k)
         /\ \A s \in S : k[s] = TimeIn(SpanChildren(s)) /\ k[s] \in Int
    BY <1>3, <1>9, <1>12, <1>k, <1>t DEF IsSummable
  <1>14. \A s \in S : SelfTime(s) = f[s] - k[s]
    <2> SUFFICES ASSUME NEW s \in S PROVE SelfTime(s) = f[s] - k[s]
      OBVIOUS
    <2>x. PICK x : x = f[s] - k[s]
      OBVIOUS
    <2>1. x \in Int /\ x >= 0
      BY <1>4, <1>13, <1>s, <2>x
    <2>2. SelfTime(s) = Max({0, x})
      BY <1>4, <1>13, <2>x DEF SelfTime
    <2>3. x \in {0, x} /\ \A y \in {0, x} : x >= y
      BY <2>1
    <2>4. \A y \in {0, x} : (\A z \in {0, x} : y >= z) => y = x
      BY <2>1
    <2> QED BY <2>2, <2>3, <2>4, <2>x DEF Max
  <1>15. DOMAIN d = S /\ d = [s \in S |-> d[s]] /\ IsSummable(d) /\ \A s \in S : d[s] = f[s] - k[s]
    <2>1. DOMAIN d = S /\ d = [s \in S |-> d[s]] /\ \A s \in S : d[s] = f[s] - k[s]
      BY <1>14, <1>k
    <2>2. \A s \in S : d[s] \in Int
      BY <1>5, <1>13, <2>1
    <2>3. IsFiniteSet(DOMAIN d) /\ \A s \in DOMAIN d : d[s] \in Int
      BY <1>3, <2>1, <2>2
    <2> QED BY <2>1, <2>3 DEF IsSummable
  <1>16. SumFunction(f) \in Int /\ SumFunction(k) \in Int /\ SumFunction(d) = SumFunction(f) - SumFunction(k)
    <2>1. /\ DOMAIN f = S /\ DOMAIN k = S /\ DOMAIN d = S
          /\ f = [x \in S |-> f[x]] /\ k = [x \in S |-> k[x]] /\ d = [x \in S |-> d[x]]
          /\ IsSummable(f) /\ IsSummable(k) /\ IsSummable(d) /\ \A x \in S : d[x] = f[x] - k[x]
      BY <1>4, <1>5, <1>13, <1>15
    <2> QED BY <2>1, SumOfDifference
  <1>17. SumFunction(f) = b[""] + SumFunction(k) /\ b[""] \in Int /\ b[""] = TimeIn(SpanChildren(""))
    <2>1. "" \in T
      BY <1>t
    <2> QED BY <1>9, <1>11, <1>12, <1>k, <2>1
  <1>18. SumFunction(d) = TimeIn(SpanChildren(""))
    <2>a. PICK x, y, z, r : x = SumFunction(f) /\ y = SumFunction(k) /\ z = SumFunction(d) /\ r = b[""]
      OBVIOUS
    <2>1. x \in Int /\ y \in Int /\ z = x - y /\ x = r + y /\ r \in Int
      BY <1>16, <1>17, <2>a
    <2>2. z = r
      BY <2>1
    <2> QED BY <1>17, <2>2, <2>a
  <1> QED BY <1>18, <1>k, <1>s

LEMMA MeasuresFromInv == TelemetryInv => MeasuresAddUp
  <1> SUFFICES ASSUME TelemetryInv PROVE MeasuresAddUp
    OBVIOUS
  <1>1. ASSUME NEW l \in DOMAIN counts
        PROVE  /\ \A i \in DOMAIN PerBucket(l) :
                    PerBucket(l)[i] = Cardinality({k \in DOMAIN observed1[l] : InBucket(i, observed1[l][k])})
               /\ counts[l][Len(buckets) + 1] = Len(observed1[l])
               /\ sums[l] = SumFunction(observed1[l])
    BY BucketsHold, HistogramIs DEF IsHistogram, TelemetryInv
  <1>2. ASSUME NEW l \in DOMAIN counts, NEW q \in {1, 50, 99, 100}
        PROVE  IF Quantile(l, q) = << >> THEN Ranked(l, q) > Last(buckets)
               ELSE \E i \in DOMAIN buckets :
                      /\ InBucket(i, Ranked(l, q)) /\ Quantile(l, q)[1] <= 100 * buckets[i]
                      /\ i > 1 => Quantile(l, q)[1] >= 100 * buckets[i - 1]
    <2>1. q \in 1 .. 100
      OBVIOUS
    <2> QED BY <2>1, QuantilesLie
  <1>3. ASSUME NEW l \in DOMAIN counts, NEW q \in {1, 50, 99, 100}, NEW r \in {1, 50, 99, 100},
               q < r, Quantile(l, r) # << >>
        PROVE  Quantile(l, q) # << >> /\ Quantile(l, q)[1] <= Quantile(l, r)[1]
    <2>1. q \in 1 .. 100 /\ r \in 1 .. 100
      OBVIOUS
    <2> QED BY <1>3, <2>1, QuantilesRise
  <1>4. (\A s \in Shown : spans[s].duration >= TimeIn(SpanChildren(s))) =>
          SumFunction([s \in Shown |-> SelfTime(s)]) = TimeIn(SpanChildren(""))
    BY SelfTimesAddUp DEF TelemetryInv
  <1>5. \A l \in DOMAIN counts :
          /\ \A i \in DOMAIN PerBucket(l) :
               PerBucket(l)[i] = Cardinality({k \in DOMAIN observed1[l] : InBucket(i, observed1[l][k])})
          /\ counts[l][Len(buckets) + 1] = Len(observed1[l])
          /\ sums[l] = SumFunction(observed1[l])
          /\ \A q \in {1, 50, 99, 100} :
               IF Quantile(l, q) = << >> THEN Ranked(l, q) > Last(buckets)
               ELSE \E i \in DOMAIN buckets :
                      /\ InBucket(i, Ranked(l, q)) /\ Quantile(l, q)[1] <= 100 * buckets[i]
                      /\ i > 1 => Quantile(l, q)[1] >= 100 * buckets[i - 1]
          /\ \A q, r \in {1, 50, 99, 100} :
               q < r /\ Quantile(l, r) # << >> => Quantile(l, q) # << >> /\ Quantile(l, q)[1] <= Quantile(l, r)[1]
    <2> TAKE l \in DOMAIN counts
    <2>1. \A q \in {1, 50, 99, 100} :
               IF Quantile(l, q) = << >> THEN Ranked(l, q) > Last(buckets)
               ELSE \E i \in DOMAIN buckets :
                      /\ InBucket(i, Ranked(l, q)) /\ Quantile(l, q)[1] <= 100 * buckets[i]
                      /\ i > 1 => Quantile(l, q)[1] >= 100 * buckets[i - 1]
      BY <1>2
    <2>2. \A q, r \in {1, 50, 99, 100} :
               q < r /\ Quantile(l, r) # << >> => Quantile(l, q) # << >> /\ Quantile(l, q)[1] <= Quantile(l, r)[1]
      BY <1>3
    <2> QED BY <1>1, <2>1, <2>2
  <1> QED BY ONLY <1>4, <1>5, Zenon DEF MeasuresAddUp, InBucket

(***************************************************************************)
(* ai/attribution.py                                                       *)
(***************************************************************************)
\* What the origin can have reached.
Touched == UNION {{o} \cup Descendants(story, o) : o \in origin}

AttributionInv ==
  /\ story \in Stories
  /\ origin \subseteq story.nodes /\ \A a, b \in origin : a = b
  /\ DOMAIN shown = story.nodes /\ \A d \in story.nodes : shown[d] # NONE => d \in Touched
  /\ DOMAIN after \subseteq story.nodes /\ \A d \in DOMAIN after : after[d] # NONE => d \in Touched

LEMMA AttributionInvInit == AttributionInit => AttributionInv
  BY DEF AttributionInit, AttributionInv

LEMMA AttributionInvStep == AttributionInv /\ (AttributionNext \/ UNCHANGED attributionVars) => AttributionInv'
  <1> SUFFICES ASSUME AttributionInv, AttributionNext \/ UNCHANGED attributionVars PROVE AttributionInv'
    OBVIOUS
  <1>0. IsLineage(story)
    BY AttributionAssumption DEF AttributionInv
  <1>1. ASSUME NEW d \in story.nodes, TakeProfile(d) PROVE AttributionInv'
    <2>1. /\ after' = [x \in DOMAIN after \cup {d} |-> IF x = d THEN shown[d] ELSE after[x]]
          /\ story' = story /\ shown' = shown /\ origin' = origin
      BY <1>1 DEF TakeProfile
    <2>2. Touched' = Touched
      BY <2>1 DEF Touched
    <2>3. DOMAIN after' \subseteq story.nodes /\ \A x \in DOMAIN after' : after'[x] # NONE => x \in Touched
      BY <2>1 DEF AttributionInv
    <2> QED BY <2>1, <2>2, <2>3 DEF AttributionInv
  <1>2. ASSUME NEW d \in story.nodes, NEW drift \in Drifts, ChangeItself(d, drift) PROVE AttributionInv'
    <2>1. /\ origin = {} /\ origin' = {d} /\ shown' = [shown EXCEPT ![d] = drift]
          /\ story' = story /\ after' = after
      BY <1>2 DEF ChangeItself
    <2>2. Touched = {} /\ d \in Touched'
      BY <2>1 DEF Touched
    <2>3. DOMAIN shown' = story.nodes /\ \A x \in story.nodes : shown'[x] # NONE => x = d
      BY <2>1, <2>2 DEF AttributionInv
    <2> QED BY <2>1, <2>2, <2>3 DEF AttributionInv
  <1>3. ASSUME NEW d \in story.nodes, NEW drift \in Drifts, Relay(d, drift) PROVE AttributionInv'
    <2>1. /\ shown' = [shown EXCEPT ![d] = drift] /\ story' = story /\ after' = after /\ origin' = origin
      BY <1>3 DEF Relay
    <2>2. PICK p \in Parents(story, d) : shown[p] # NONE
      BY <1>3 DEF Relay
    <2>3. p \in story.nodes /\ d \in Children(story, p)
      BY <1>0, <2>2 DEF IsLineage, Parents, Children, InEdges, OutEdges
    <2>4. PICK o \in origin : p \in {o} \cup Descendants(story, o)
      BY <2>2, <2>3 DEF AttributionInv, Touched
    <2>5. d \in Descendants(story, o)
      <3>1. o \in story.nodes
        BY DEF AttributionInv
      <3> QED BY <1>0, <2>3, <2>4, <3>1, BelowIsClosed
    <2>6. d \in Touched
      BY <2>5 DEF Touched
    <2>7. Touched' = Touched
      BY <2>1 DEF Touched
    <2>8. DOMAIN shown' = story.nodes /\ \A x \in story.nodes : shown'[x] # NONE => x \in Touched
      BY <2>1, <2>6 DEF AttributionInv
    <2> QED BY <2>1, <2>7, <2>8 DEF AttributionInv
  <1>4. CASE UNCHANGED attributionVars
    <2>1. story' = story /\ origin' = origin /\ shown' = shown /\ after' = after
      BY <1>4 DEF attributionVars
    <2>2. Touched' = Touched
      BY <2>1 DEF Touched
    <2> QED BY <2>1, <2>2 DEF AttributionInv
  <1> QED BY <1>1, <1>2, <1>3, <1>4 DEF AttributionNext

\* Hops are counted from one, and none of them weighs more than a warning.
LEMMA HopsAre ==
  ASSUME AttributionInv, NEW d \in story.nodes, NEW t \in story.nodes
  PROVE  /\ HopsTo(story, d, t) \in Nat \ {0} /\ Distance(story, d, t) \in Int
         /\ d # t /\ HasPath(story, d, t) => Distance(story, d, t) \in Nat \ {0}
         /\ Proximity(HopsTo(story, d, t)) \in 0 .. 180
  <1>0. IsLineage(story) /\ AttributionDepth \in Nat \ {0}
    BY AttributionAssumption DEF AttributionInv
  <1>g. PICK g : g = story
    OBVIOUS
  <1>w. PICK w : w = Walk(g, d, TRUE, MaxDepth(g))
    OBVIOUS
  <1>1. \A x \in DOMAIN w : w[x] \in Nat \ {0}
    <2>1. MaxDepth(g) \in Nat
      BY <1>0, <1>g, FS_CardinalityType DEF IsLineage, MaxDepth
    <2>2. Steps(g, {d}, TRUE) \subseteq g.nodes /\ Steps(g, g.nodes, TRUE) \subseteq g.nodes
      BY <1>0, <1>g, StepsStayIn
    <2> QED BY <1>0, <1>g, <1>w, <2>1, <2>2, WalkCounts
  <1>2. Distance(g, d, t) = IF d = t THEN 0 ELSE IF t \in DOMAIN w THEN w[t] ELSE -1
    BY <1>w DEF Distance
  <1>3. Distance(g, d, t) \in Int
    BY <1>1, <1>2
  <1>4. d # t /\ HasPath(g, d, t) => Distance(g, d, t) \in Nat \ {0}
    BY <1>1, <1>2, <1>w DEF HasPath, Descendants
  <1>h. PICK h : h = HopsTo(g, d, t)
    OBVIOUS
  <1>5. h \in Nat \ {0}
    <2>1. Distance(g, d, t) > 0 => Distance(g, d, t) \in Nat \ {0}
      BY <1>3
    <2> QED BY <1>h, <2>1 DEF HopsTo
  <1>x. PICK x \in Nat : x = 180 * (h - 1)
    BY <1>5
  <1>q. PICK q \in Nat : q = x \div AttributionDepth
    <2>1. \A a \in Nat, b \in Nat \ {0} : a \div b \in Nat
      OBVIOUS
    <2> QED BY <1>0, <2>1
  <1>6. Proximity(h) = Max({0, 180 - q})
    BY <1>q, <1>x DEF Proximity
  <1>7. Max({0, 180 - q}) \in {0, 180 - q} /\ Max({0, 180 - q}) >= 0
    <2>1. \E m \in {0, 180 - q} : \A n \in {0, 180 - q} : m >= n
      <3>1. CASE q <= 180
        <4>1. 180 - q >= 0 /\ 180 - q >= 180 - q
          BY <3>1
        <4> QED BY <4>1
      <3>2. CASE q > 180
        <4>1. 0 >= 180 - q /\ 0 >= 0
          BY <3>2
        <4> QED BY <4>1
      <3> QED BY <3>1, <3>2
    <2> QED BY <2>1 DEF Max
  <1>8. Proximity(h) \in 0 .. 180
    BY <1>6, <1>7
  <1> QED BY <1>3, <1>4, <1>5, <1>8, <1>g, <1>h

\* A diagnosis has every cause once, those ahead first.
CausesOf(t) == {CauseOf(story, d, t) : d \in Suspects(story, t)}

LEMMA SuspectsAre ==
  ASSUME AttributionInv, NEW t \in story.nodes
  PROVE  IsLineage(story) /\ Suspects(story, t) \subseteq Ancestors(story, t) /\ Suspects(story, t) \subseteq story.nodes
         /\ IsFiniteSet(Suspects(story, t))
  <1>0. IsLineage(story) /\ AttributionDepth \in Nat
    BY AttributionAssumption DEF AttributionInv
  <1>a. PICK A : A = Ancestors(story, t)
    OBVIOUS
  <1>1. A \in SUBSET story.nodes /\ Steps(story, {t}, FALSE) \subseteq A /\ Steps(story, A, FALSE) \subseteq A
    <2>1. FindsAll(story, t, FALSE, A)
      BY <1>0, <1>a, WalkFindsAll DEF Ancestors, MaxDepth
    <2> QED BY <2>1 DEF FindsAll
  <1>2. DOMAIN Walk(story, t, FALSE, AttributionDepth) \subseteq A
    BY <1>0, <1>1, WalkCounts
  <1>3. Suspects(story, t) \subseteq A
    BY <1>2 DEF Suspects
  <1>4. IsFiniteSet(Suspects(story, t))
    BY <1>0, <1>1, <1>3, FS_Subset DEF IsLineage
  <1> QED BY <1>0, <1>1, <1>3, <1>4, <1>a

LEMMA CausesAre ==
  ASSUME AttributionInv, NEW t \in story.nodes
  PROVE  /\ IsFiniteSet(CausesOf(t)) /\ Cardinality(CausesOf(t)) = Cardinality(Suspects(story, t))
         /\ \A c \in CausesOf(t) : /\ c.dataset \in Suspects(story, t) /\ c = CauseOf(story, c.dataset, t)
                                   /\ c.hops \in Nat \ {0} /\ c.score \in Int /\ c.dataset \in Nat
                                   /\ c.drift \in {"error", "warn"} => c.score >= 252
                                   /\ c.drift = NONE => c.score <= 180
         /\ \A d \in Suspects(story, t) : CauseOf(story, d, t).dataset = d
  <1>s. PICK S : S = Suspects(story, t)
    OBVIOUS
  <1>k. PICK K : K = CausesOf(t)
    OBVIOUS
  <1>0. S \subseteq story.nodes /\ IsFiniteSet(S) /\ story.nodes \subseteq Nat
    BY <1>s, SuspectsAre DEF IsLineage
  <1>f. PICK f : f = [d \in S |-> CauseOf(story, d, t)]
    OBVIOUS
  <1>1. K = {f[d] : d \in S}
    BY <1>f, <1>k, <1>s DEF CausesOf
  <1>2. \A d \in S : f[d].dataset = d
    BY <1>f DEF CauseOf
  <1>3. IsFiniteSet(K)
    BY <1>0, <1>1, <1>f, ImageIsFinite
  <1>4. Cardinality(K) = Cardinality(S)
    <2>1. f \in [S -> K] /\ \A a, b \in S : f[a] = f[b] => a = b
      BY <1>1, <1>2, <1>f
    <2>2. \A c \in K : \E d \in S : f[d] = c
      BY <1>1
    <2>3. f \in Bijection(S, K)
      BY <2>1, <2>2 DEF Bijection, Injection, Surjection, IsInjective
    <2>4. ExistsBijection(S, K)
      BY <2>3 DEF ExistsBijection
    <2> QED BY ONLY <1>0, <1>3, <2>4, FS_Bijection
  <1>5. ASSUME NEW c \in K
        PROVE  /\ c.dataset \in S /\ c = CauseOf(story, c.dataset, t)
               /\ c.hops \in Nat \ {0} /\ c.score \in Int /\ c.dataset \in Nat
               /\ c.drift \in {"error", "warn"} => c.score >= 252
               /\ c.drift = NONE => c.score <= 180
    <2>1. PICK d \in S : c = CauseOf(story, d, t)
      BY <1>1, <1>f
    <2>2. c.dataset = d /\ c.hops = HopsTo(story, d, t) /\ c.score = Score(HopsTo(story, d, t), c.drift)
      BY <2>1 DEF CauseOf
    <2>3. HopsTo(story, d, t) \in Nat \ {0}
      BY <1>0, <2>1, HopsAre
    <2>p. PICK p \in 0 .. 180 : p = Proximity(HopsTo(story, d, t))
      BY <1>0, <2>1, HopsAre
    <2>v. PICK v : v = SeverityWeight(c.drift)
      OBVIOUS
    <2>4. v \in Nat /\ (c.drift \in {"error", "warn"} => v >= 252) /\ (c.drift = NONE => v = 0)
      BY <2>v DEF SeverityWeight, NONE
    <2>5. c.score = v + p
      BY <2>2, <2>p, <2>v DEF Score
    <2> QED BY <1>0, <2>1, <2>2, <2>3, <2>4, <2>5
  <1> QED BY <1>2, <1>3, <1>4, <1>5, <1>f, <1>k, <1>s

LEMMA DiagnosisIs ==
  ASSUME AttributionInv, NEW t \in story.nodes, NEW causes, causes = Diagnose(story, t)
  PROVE  /\ Len(causes) = Cardinality(Suspects(story, t)) /\ Range(causes) = CausesOf(t)
         /\ \A n \in DOMAIN causes : causes[n] \in CausesOf(t)
         /\ \A i, j \in DOMAIN causes : causes[i].score > causes[j].score => i < j
  <1>k. PICK K : K = CausesOf(t)
    OBVIOUS
  <1>n. PICK N : N = Cardinality(K)
    OBVIOUS
  <1>1. /\ IsFiniteSet(K) /\ N = Cardinality(Suspects(story, t))
        /\ \A c \in K : c.hops \in Nat /\ c.score \in Int /\ c.dataset \in Nat /\ c = CauseOf(story, c.dataset, t)
    BY <1>k, <1>n, CausesAre
  <1>b. PICK B : B = {p \in K \X K : IsAhead(p[1], p[2])}
    OBVIOUS
  <1>2. \A a, b \in K : <<a, b>> \in B <=> IsAhead(a, b)
    BY <1>b
  <1>3. \A s \in K : <<s, s>> \notin B
    BY <1>1, <1>2 DEF IsAhead
  <1>4. ASSUME NEW a \in K, NEW b \in K, NEW c \in K, <<a, b>> \in B, <<b, c>> \in B PROVE <<a, c>> \in B
    <2>1. IsAhead(a, b) /\ IsAhead(b, c)
      BY <1>2, <1>4
    <2>2. IsAhead(a, c)
      BY <1>1, <2>1 DEF IsAhead
    <2> QED BY <1>2, <2>2
  <1>5. ASSUME NEW a \in K, NEW b \in K, a # b PROVE <<a, b>> \in B \/ <<b, a>> \in B
    <2>1. a.dataset # b.dataset
      BY <1>1, <1>5
    <2>2. IsAhead(a, b) \/ IsAhead(b, a)
      BY <1>1, <2>1 DEF IsAhead
    <2> QED BY <1>2, <2>2
  <1>6. /\ N \in Nat
        /\ \A s \in K : RankBy(K, B, s) \in 1 .. N
        /\ \A n \in 1 .. N : \E s \in K : RankBy(K, B, s) = n
        /\ \A a, b \in K : RankBy(K, B, a) = RankBy(K, B, b) => a = b
    BY ONLY <1>1, <1>3, <1>4, <1>5, <1>n, RanksTaken
  <1>7. \A s \in K : RankBy(K, B, s) = Cardinality({o \in K : IsAhead(o, s)}) + 1
    <2> TAKE s \in K
    <2>1. {u \in K : <<u, s>> \in B} = {o \in K : IsAhead(o, s)}
      BY <1>2
    <2> QED BY <2>1 DEF RankBy
  <1>8. causes = [n \in 1 .. N |-> CHOOSE c \in K : Cardinality({o \in K : IsAhead(o, c)}) + 1 = n]
    BY <1>k, <1>n DEF Diagnose, RankCauses, CausesOf
  <1>9. \A n \in 1 .. N : causes[n] \in K /\ RankBy(K, B, causes[n]) = n
    <2> TAKE n \in 1 .. N
    <2>1. causes[n] = CHOOSE c \in K : Cardinality({o \in K : IsAhead(o, c)}) + 1 = n
      BY <1>8
    <2>2. \E c \in K : Cardinality({o \in K : IsAhead(o, c)}) + 1 = n
      BY <1>6, <1>7
    <2>3. causes[n] \in K /\ Cardinality({o \in K : IsAhead(o, causes[n])}) + 1 = n
      BY <2>1, <2>2
    <2> QED BY <1>7, <2>3
  <1>10. DOMAIN causes = 1 .. N /\ Len(causes) = N
    <2>1. causes \in [1 .. N -> K]
      BY <1>8, <1>9
    <2>2. causes \in Seq(K)
      BY ONLY <1>6, <2>1
    <2> QED BY <1>6, <2>1, <2>2
  <1>11. Range(causes) = K
    <2>1. \A c \in K : \E n \in 1 .. N : causes[n] = c
      <3> TAKE c \in K
      <3>1. RankBy(K, B, c) \in 1 .. N
        BY <1>6
      <3>2. causes[RankBy(K, B, c)] \in K /\ RankBy(K, B, causes[RankBy(K, B, c)]) = RankBy(K, B, c)
        BY <1>9, <3>1
      <3> QED BY <1>6, <3>1, <3>2
    <2> QED BY <1>9, <1>10, <2>1 DEF Range
  <1>12. ASSUME NEW i \in 1 .. N, NEW j \in 1 .. N, causes[i].score > causes[j].score PROVE i < j
    <2>a. PICK a \in K : a = causes[i]
      BY <1>9
    <2>c. PICK c \in K : c = causes[j]
      BY <1>9
    <2>1. <<a, c>> \in B
      BY <1>2, <1>12, <2>a, <2>c DEF IsAhead
    <2>2. RankBy(K, B, a) < RankBy(K, B, c)
      BY ONLY <1>1, <1>3, <1>4, <2>1, RanksRise
    <2> QED BY <1>9, <2>2, <2>a, <2>c
  <1> QED BY <1>1, <1>9, <1>10, <1>11, <1>12, <1>k

\* Where no edge skips a hop, what is between the origin and the target is nearer than the origin.
LEMMA NearerBelow ==
  ASSUME AttributionInv, NEW t \in story.nodes, Even(story, t), NEW o \in story.nodes,
         NEW d \in Descendants(story, o), d # o, d \in Ancestors(story, t)
  PROVE  Distance(story, d, t) < Distance(story, o, t)
  <1>g. PICK g : g = story
    OBVIOUS
  <1>0. IsLineage(g)
    BY <1>g, AttributionAssumption DEF AttributionInv
  <1>v. PICK away : away = [x \in g.nodes |-> Distance(g, x, t)]
    OBVIOUS
  <1>1. \A x \in g.nodes : away[x] \in Int
    BY <1>g, <1>v, HopsAre
  <1>c. PICK C : C = {x \in g.nodes : x = o \/ (x \in Closure(g, t) => away[x] < away[o])}
    OBVIOUS
  <1>2. \A e \in g.edges : e[1] \in Ancestors(g, t) /\ e[2] \in Closure(g, t) \ {e[1]} =>
          Distance(g, e[1], t) = Distance(g, e[2], t) + 1
    BY <1>g DEF Even
  <1>3. ASSUME NEW z \in C \cup {o}, NEW w \in Children(g, z) PROVE w \in C
    <2>1. PICK e \in g.edges : e[1] = z /\ e[2] = w
      BY <1>3 DEF Children, OutEdges
    <2>2. z \in g.nodes /\ w \in g.nodes /\ z \in Parents(g, w)
      BY <1>0, <2>1 DEF IsLineage, Parents, InEdges
    <2>3. CASE w = o \/ w \notin Closure(g, t)
      BY <1>c, <2>2, <2>3
    <2>4. CASE w = z
      BY <1>3, <1>c, <1>g, <2>4
    <2>5. CASE w # o /\ w \in Closure(g, t) /\ w # z
      <3>1. z \in Ancestors(g, t)
        <4>1. z \in Ancestors(g, w)
          BY <1>0, <2>2, WalksAgree
        <4>2. CASE w = t
          BY <4>1, <4>2
        <4>3. CASE w \in Ancestors(g, t)
          <5>1. Ancestors(g, w) \subseteq Ancestors(g, t)
            BY <1>0, <1>g, <4>3, WalksAgree
          <5> QED BY <4>1, <5>1
        <4> QED BY <2>5, <4>2, <4>3 DEF Closure
      <3>2. away[z] = away[w] + 1
        BY <1>2, <1>v, <2>1, <2>2, <2>5, <3>1
      <3>3. z = o \/ away[z] < away[o]
        BY <1>3, <1>c, <3>1 DEF Closure
      <3>4. away[w] < away[o]
        BY <1>1, <1>g, <2>2, <3>2, <3>3
      <3> QED BY <1>c, <2>2, <3>4
    <2> QED BY <2>3, <2>4, <2>5
  <1>4. C \in SUBSET g.nodes /\ Children(g, o) \subseteq C /\ \A x \in C : Children(g, x) \subseteq C
    BY <1>3, <1>c
  <1>5. d \in C
    BY <1>0, <1>4, <1>g, BelowIsClosed
  <1>6. d \in Closure(g, t)
    BY <1>g DEF Closure
  <1> QED BY <1>5, <1>6, <1>c, <1>g, <1>v

LEMMA CausesFromInv == AttributionInv => CausesAreFound
  <1> SUFFICES ASSUME AttributionInv, NEW t \in story.nodes, NEW causes, causes = Diagnose(story, t)
               PROVE  /\ Len(causes) = Cardinality(Suspects(story, t))
                      /\ {c.dataset : c \in {x \in Range(causes) : ~x.checked}}
                           = UncheckedSuspects(story, t, baseline \cap DOMAIN after)
                      /\ \A c \in Confirmed(causes) : \E o \in origin : c.dataset \in {o} \cup Descendants(story, o)
                      /\ \A i, j \in DOMAIN causes :
                           causes[i].drift \in {"error", "warn"} /\ causes[j].drift = NONE => i < j
                      /\ Even(story, t) => \A o \in origin : (\E c \in Confirmed(causes) : c.dataset = o) =>
                           {c.dataset : c \in RootCauses(causes)} = {o}
    BY DEF CausesAreFound
  <1>s. PICK S : S = Suspects(story, t)
    OBVIOUS
  <1>k. PICK K : K = CausesOf(t)
    OBVIOUS
  <1>1. /\ Len(causes) = Cardinality(S) /\ Range(causes) = K
        /\ \A n \in DOMAIN causes : causes[n] \in K
        /\ \A i, j \in DOMAIN causes : causes[i].score > causes[j].score => i < j
    BY <1>k, <1>s, DiagnosisIs
  <1>2. \A c \in K : /\ c.dataset \in S /\ c = CauseOf(story, c.dataset, t)
                     /\ c.hops \in Nat \ {0} /\ c.score \in Int
                     /\ c.drift \in {"error", "warn"} => c.score >= 252
                     /\ c.drift = NONE => c.score <= 180
    BY <1>k, <1>s, CausesAre
  <1>3. \A d \in S : CauseOf(story, d, t) \in K /\ CauseOf(story, d, t).dataset = d
                     /\ (CauseOf(story, d, t).checked <=> d \in baseline /\ d \in DOMAIN after)
    <2>1. \A d \in S : CauseOf(story, d, t) \in K
      BY <1>k, <1>s DEF CausesOf
    <2> QED BY <2>1 DEF CauseOf
  <1>4. {c.dataset : c \in {x \in Range(causes) : ~x.checked}} = UncheckedSuspects(story, t, baseline \cap DOMAIN after)
    <2>u. PICK U : U = {x \in K : ~x.checked}
      OBVIOUS
    <2>1. \A c \in U : c.dataset \in S \ (baseline \cap DOMAIN after)
      BY <1>2, <1>3, <2>u
    <2>2. \A d \in S \ (baseline \cap DOMAIN after) : CauseOf(story, d, t) \in U /\ CauseOf(story, d, t).dataset = d
      BY <1>3, <2>u
    <2>3. {c.dataset : c \in U} = S \ (baseline \cap DOMAIN after)
      BY <2>1, <2>2
    <2> QED BY <1>1, <1>s, <2>3, <2>u DEF UncheckedSuspects
  <1>5. \A c \in Confirmed(causes) : c \in K /\ c.drift # NONE
    BY <1>1 DEF Confirmed
  <1>6. \A c \in Confirmed(causes) : \E o \in origin : c.dataset \in {o} \cup Descendants(story, o)
    <2> TAKE c \in Confirmed(causes)
    <2>d. PICK d : d = c.dataset
      OBVIOUS
    <2>1. c = CauseOf(story, d, t) /\ c.drift # NONE
      BY <1>2, <1>5, <2>d
    <2>2. d \in DOMAIN after /\ after[d] # NONE
      BY <2>1 DEF CauseOf
    <2>3. d \in Touched
      BY <2>2 DEF AttributionInv
    <2> QED BY <2>3, <2>d DEF Touched
  <1>7. ASSUME NEW i \in DOMAIN causes, NEW j \in DOMAIN causes,
               causes[i].drift \in {"error", "warn"}, causes[j].drift = NONE
        PROVE  i < j
    <2>1. causes[i].score \in Int /\ causes[j].score \in Int /\ causes[i].score >= 252 /\ causes[j].score <= 180
      BY <1>1, <1>2, <1>7
    <2> QED BY <1>1, <2>1
  <1>8. ASSUME Even(story, t), NEW o \in origin, NEW r \in Confirmed(causes), r.dataset = o
        PROVE  {c.dataset : c \in RootCauses(causes)} = {o}
    <2>1. /\ IsLineage(story) /\ S \subseteq Ancestors(story, t) /\ S \subseteq story.nodes
          /\ o \in S /\ o \in story.nodes /\ t \notin Ancestors(story, t)
      BY <1>2, <1>5, <1>8, <1>s, SuspectsAre DEF Even
    <2>2. \A d \in S : d # t /\ HasPath(story, d, t) /\ d \in story.nodes
      BY <2>1, WalksAgree DEF HasPath
    <2>3. \A d \in S : Distance(story, d, t) \in Nat \ {0} /\ HopsTo(story, d, t) = Distance(story, d, t)
      <3> TAKE d \in S
      <3>1. Distance(story, d, t) \in Nat \ {0}
        BY <2>2, HopsAre
      <3>2. Distance(story, d, t) > 0
        BY <3>1
      <3> QED BY <3>1, <3>2 DEF HopsTo
    <2>4. \A c \in K : c.hops = Distance(story, c.dataset, t)
      <3> TAKE c \in K
      <3>1. c = CauseOf(story, c.dataset, t) /\ c.dataset \in S
        BY <1>2
      <3>2. c.hops = HopsTo(story, c.dataset, t)
        BY <3>1 DEF CauseOf
      <3> QED BY <2>3, <3>1, <3>2
    <2>5. ASSUME NEW c \in Confirmed(causes), c.dataset # o PROVE c.hops < r.hops
      <3>1. c.dataset \in Descendants(story, o)
        <4>1. PICK o2 \in origin : c.dataset \in {o2} \cup Descendants(story, o2)
          BY <1>6
        <4>2. o2 = o
          BY DEF AttributionInv
        <4> QED BY <2>5, <4>1, <4>2
      <3>2. c.dataset \in Ancestors(story, t) /\ c \in K /\ r \in K
        BY <1>2, <1>5, <2>1
      <3>3. Distance(story, c.dataset, t) < Distance(story, o, t)
        BY <1>8, <2>1, <2>5, <3>1, <3>2, NearerBelow
      <3> QED BY <1>8, <2>4, <3>2, <3>3
    <2>6. \A c \in Confirmed(causes) : c.hops \in Nat
      BY <1>2, <1>5
    <2>7. \A c \in Confirmed(causes) : c.hops <= r.hops
      <3> TAKE c \in Confirmed(causes)
      <3>1. CASE c.dataset = o
        <4>1. c = r
          BY <1>2, <1>5, <1>8, <3>1
        <4> QED BY <2>6, <4>1
      <3>2. CASE c.dataset # o
        BY <2>5, <2>6, <3>2
      <3> QED BY <3>1, <3>2
    <2>8. r \in RootCauses(causes)
      BY <2>7 DEF RootCauses
    <2>9. ASSUME NEW c \in RootCauses(causes) PROVE c.dataset = o
      <3>1. c \in Confirmed(causes) /\ r.hops <= c.hops
        BY <2>9 DEF RootCauses
      <3>2. c.dataset # o => FALSE
        <4>1. c.dataset # o => c.hops < r.hops
          BY <2>5, <3>1
        <4> QED BY <2>6, <3>1, <4>1
      <3> QED BY <3>2
    <2> QED BY <1>8, <2>8, <2>9
  <1> QED BY <1>1, <1>4, <1>6, <1>7, <1>8, <1>s

(***************************************************************************)
(* All together: the users of the run share no state, and each leaves      *)
(* what the others use alone.                                              *)
(***************************************************************************)
GraphInv ==
  /\ user = "notify" => NotifyInv
  /\ user = "incidents" => IncidentInv
  /\ user = "billing" => BillingInv
  /\ user = "usage" => UsageInv
  /\ user \in {"consent", "residency"} => ConsentInv
  /\ user = "licenses" => LicenseInv
  /\ user = "freshness" => FreshnessInv
  /\ user = "arrivals" => ArrivalsInv
  /\ user = "joins" => JoinsInv
  /\ user = "telemetry" => TelemetryInv
  /\ user = "attribution" => AttributionInv

LEMMA GraphInvInit == GraphInit => GraphInv
  BY NotifyInvInit, IncidentInvInit, BillingInvInit, UsageInvInit, ConsentInvInit, LicenseInvInit,
     FreshnessInvInit, ArrivalsInvInit, JoinsInvInit, TelemetryInvInit, AttributionInvInit DEF GraphInit, GraphInv

LEMMA GraphInvStep == GraphInv /\ [GraphNext]_graphVars => GraphInv'
  <1> SUFFICES ASSUME GraphInv, [GraphNext]_graphVars PROVE GraphInv'
    OBVIOUS
  <1>1. user' = user
    BY DEF GraphNext, graphVars
  <1>2. ASSUME user = "notify" PROVE NotifyInv'
    <2>1. NotifyNext \/ UNCHANGED notifyVars
      BY <1>2 DEF GraphNext, graphVars
    <2> QED BY <1>2, <2>1, NotifyInvStep DEF GraphInv
  <1>3. ASSUME user = "incidents" PROVE IncidentInv'
    <2>1. IncidentsNext \/ UNCHANGED incidentVars
      BY <1>3 DEF GraphNext, graphVars
    <2> QED BY <1>3, <2>1, IncidentInvStep DEF GraphInv
  <1>4. ASSUME user = "billing" PROVE BillingInv'
    <2>1. BillingNext \/ UNCHANGED billingVars
      BY <1>4 DEF GraphNext, graphVars
    <2> QED BY <1>4, <2>1, BillingInvStep DEF GraphInv
  <1>5. ASSUME user = "usage" PROVE UsageInv'
    <2>1. UsageNext \/ UNCHANGED usageVars
      BY <1>5 DEF GraphNext, graphVars
    <2> QED BY <1>5, <2>1, UsageInvStep DEF GraphInv
  <1>6. ASSUME user \in {"consent", "residency"} PROVE ConsentInv'
    <2>1. RetentionNext \/ ResidencyNext \/ UNCHANGED consentVars
      BY <1>6 DEF GraphNext, graphVars
    <2> QED BY <1>6, <2>1, ConsentInvStep DEF GraphInv
  <1>7. ASSUME user = "licenses" PROVE LicenseInv'
    <2>1. LicenseNext \/ UNCHANGED licenseVars
      BY <1>7 DEF GraphNext, graphVars
    <2> QED BY <1>7, <2>1, LicenseInvStep DEF GraphInv
  <1>8. ASSUME user = "freshness" PROVE FreshnessInv'
    <2>1. FreshnessNext \/ UNCHANGED freshnessVars
      BY <1>8 DEF GraphNext, graphVars
    <2> QED BY <1>8, <2>1, FreshnessInvStep DEF GraphInv
  <1>9. ASSUME user = "arrivals" PROVE ArrivalsInv'
    <2>1. ArrivalsNext \/ UNCHANGED arrivalVars
      BY <1>9 DEF GraphNext, graphVars
    <2> QED BY <1>9, <2>1, ArrivalsInvStep DEF GraphInv
  <1>10. ASSUME user = "joins" PROVE JoinsInv'
    <2>1. JoinsNext \/ UNCHANGED joinVars
      BY <1>10 DEF GraphNext, graphVars
    <2> QED BY <1>10, <2>1, JoinsInvStep DEF GraphInv
  <1>11. ASSUME user = "telemetry" PROVE TelemetryInv'
    <2>1. TelemetryNext \/ UNCHANGED telemetryVars
      BY <1>11 DEF GraphNext, graphVars
    <2> QED BY <1>11, <2>1, TelemetryInvStep DEF GraphInv
  <1>12. ASSUME user = "attribution" PROVE AttributionInv'
    <2>1. AttributionNext \/ UNCHANGED attributionVars
      BY <1>12 DEF GraphNext, graphVars
    <2> QED BY <1>12, <2>1, AttributionInvStep DEF GraphInv
  <1> QED BY <1>1, <1>2, <1>3, <1>4, <1>5, <1>6, <1>7, <1>8, <1>9, <1>10, <1>11, <1>12 DEF GraphInv

LEMMA GraphInvGivesAlerts == GraphInv => AlertsLoseNothing
  <1>1. IncidentInv => observed \in Seq(Symptoms)
    BY DEF IncidentInv
  <1> QED BY <1>1, RepeatsFromInv, GroupsFromTypes, LifecycleFromInv DEF GraphInv, AlertsLoseNothing

\* Whatever is found, however often and at whatever age, and wherever quiet hours fall, what
\* notify.py suppresses as a duplicate was sent less than a window before at the severity it
\* has now, what is critical is stopped by nothing else, and the count tells every
\* recurrence; and incidents.py puts every finding into the incidents as often as it was
\* reported, beside one it is connected to, finds the cause where one explains the others,
\* and keeps what is done to an incident in order.
THEOREM AlertsAreNotLost == GraphSpec => []AlertsLoseNothing
  <1>1. GraphInit => GraphInv
    BY GraphInvInit
  <1>2. GraphInv /\ [GraphNext]_graphVars => GraphInv'
    BY GraphInvStep
  <1>3. GraphInv => AlertsLoseNothing
    BY GraphInvGivesAlerts
  <1> QED BY <1>1, <1>2, <1>3, PTL DEF GraphSpec

\* Over any bills, plans and reads, in any order: no saving is overstated, no charge is apportioned
\* or lost, nobody's upstream costs more than what is below it; and what is proposed for
\* retirement feeds nothing a person read in the window, through any number of datasets
\* (cost.py, billing.py, usage.py, lifetime.py).
THEOREM FiguresStayModest == GraphSpec => []FiguresAreModest
  <1>1. GraphInit => GraphInv
    BY GraphInvInit
  <1>2. GraphInv /\ [GraphNext]_graphVars => GraphInv'
    BY GraphInvStep
  <1>3. GraphInv => FiguresAreModest
    BY SavingsFromInv, RetirementFromInv DEF GraphInv, FiguresAreModest
  <1> QED BY <1>1, <1>2, <1>3, PTL DEF GraphSpec

\* On any graphs and under any declarations, in any order and at any hour: a purpose withdrawn, a
\* retention that ran out, a pinned region and a licence's term reach everything downstream through any
\* number of datasets, every refusal is explained, and off the cycles the one pass over the build
\* order never permits what the answer for one dataset refuses (consent.py, licenses.py).
THEOREM RestrictionsStayDown == GraphSpec => []RestrictionsReachDown
  <1>1. GraphInit => GraphInv
    BY GraphInvInit
  <1>2. GraphInv /\ [GraphNext]_graphVars => GraphInv'
    BY GraphInvStep
  <1>3. GraphInv => RestrictionsReachDown
    BY AgreesFromTypes, RefusalsFromTypes, RoutesFromTypes, NoTermLostFromTypes DEF GraphInv, RestrictionsReachDown
  <1> QED BY <1>1, <1>2, <1>3, PTL DEF GraphSpec

\* Whatever is built, lands, is joined, measured or changes, in any order: a dataset reported fresh has
\* nothing too old in it and one reported stale names what is, off the cycles the one pass finds the oldest
\* build; what is called complete landed, a rewrite is never passed off as a replay; a risk a join's profiles
\* prove is in its tables; counts, sums and quantiles are of what was observed; and a diagnosis
\* blames only what the origin of a change can have reached, and finds it where no edge skips a hop
\* (freshness.py, completeness.py, joins.py, telemetry.py, attribution.py).
THEOREM ReportsStayTrue == GraphSpec => []WhatIsReportedIsTrue
  <1>1. GraphInit => GraphInv
    BY GraphInvInit
  <1>2. GraphInv /\ [GraphNext]_graphVars => GraphInv'
    BY GraphInvStep
  <1>3. GraphInv => WhatIsReportedIsTrue
    BY FreshnessFromInv, CompleteFromInv, RewritesFromInv, RisksFromInv, MeasuresFromInv, CausesFromInv
       DEF GraphInv, WhatIsReportedIsTrue
  <1> QED BY <1>1, <1>2, <1>3, PTL DEF GraphSpec

\* Whatever ran, was charged and was calibrated before, a calibration makes the model price its
\* window exactly as the bill did, and is only made where the two were apart (billing.py).
THEOREM CalibrationsSettle == GraphSpec => CalibrationSettles
  <1>1. GraphInit => GraphInv
    BY GraphInvInit
  <1>2. GraphInv /\ [GraphNext]_graphVars => GraphInv'
    BY GraphInvStep
  <1>3. GraphInv /\ [GraphNext]_graphVars => [user = "billing" => RatesMatchTheBill]_graphVars
    <2> SUFFICES ASSUME GraphInv, GraphNext, user = "billing" PROVE RatesMatchTheBill
      OBVIOUS
    <2>1. BillingNext
      BY DEF GraphNext
    <2> QED BY <2>1, CalibrationsMatch DEF GraphInv
  <1> QED BY <1>1, <1>2, <1>3, PTL DEF GraphSpec, CalibrationSettles
=============================================================================
