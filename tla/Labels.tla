------------------------------- MODULE Labels -------------------------------
(***************************************************************************)
(* govern/policy.py: labels are inferred from profiles, flow downstream    *)
(* along column edges to a fixpoint and are checked against sink policies. *)
(* A confidence is the number of hops it may still travel before it falls  *)
(* below the threshold, 0 below it: damping lowers it by one, and the order*)
(* is that of the floats.  In the second part fathom label runs over the   *)
(* store (Project.labels), while datasets are profiled anew and people     *)
(* confirm proposals.                                                      *)
(***************************************************************************)
EXTENDS Integers, FiniteSets, SequencesExt, FiniteSetsExt

CONSTANTS FlowGraphs,        \* sequences of [src, dst, columns], in the order the graph has them
          Unattributed,
          SeedSets,          \* the labels to start from
          MaxRounds,         \* max_rounds, 32 in the code
          Labellers,         \* processes that run fathom label
          LabelGraph,        \* the stored graph they load
          Readings,          \* dataset -> the profiles it may have: column -> the detectors
                             \* that match it, as [name, confidence, support]
          PiiLabels,
          TopConfidence, SupportBonus,     \* 0.95 and 0.15 in the code
          MaxConfirmed       \* bound: labels a person confirms

ASSUME LabelsAssumption ==
  /\ MaxRounds \in Nat /\ MaxConfirmed \in Nat
  /\ {TopConfidence, SupportBonus} \subseteq Nat
  /\ \A g \in FlowGraphs \cup {LabelGraph} :
       g \in Seq(Range(g)) /\ \A e \in Range(g) : IsFiniteSet(e.columns)
  /\ \A s \in SeedSets :
       /\ s \in [DOMAIN s -> [confidence : Nat, confirmed : BOOLEAN]] /\ IsFiniteSet(DOMAIN s)
       /\ \A k \in DOMAIN s : k = <<k[1], k[2], k[3]>>
  /\ DOMAIN Readings \subseteq Nat /\ IsFiniteSet(DOMAIN Readings)

VARIABLES flow,              \* the graph
          labels,            \* <<dataset, column, name>> -> [confidence, confirmed], a partial function
          pending,           \* the edges left in this round
          round, changed, seeds
labelVars == <<flow, labels, pending, round, changed, seeds>>

Damped(l) == [confidence |-> IF l.confidence = 0 THEN 0 ELSE l.confidence - 1, confirmed |-> FALSE]

\* _merge: a human decision outranks any inference, and only a stronger label replaces one.
LastWins(prior, l) == TRUE                                          \* mutant
Replaces(prior, l) == ~prior.confirmed /\ (l.confirmed \/ l.confidence > prior.confidence)

\* Where an edge carries what sits on a column of its source: the unattributed column
\* goes on through every edge; with no column detail the others join it there.
FedColumns(e, col) ==
  IF col = Unattributed \/ e.columns = {} THEN {Unattributed}
  ELSE {c[2] : c \in {x \in e.columns : x[1] = col}}
Carried(ls, e) ==
  UNION {{[at |-> <<e.dst, c, k[3]>>, label |-> Damped(ls[k])] : c \in FedColumns(e, k[2])} :
           k \in {x \in DOMAIN ls : x[1] = e.src}}
Strongest(moves) ==      \* merging them one by one keeps the strongest for each place
  {m \in moves : \A n \in moves : n.at = m.at => n.label.confidence <= m.label.confidence}
AlongEdge(ls, e) ==
  LET taken == {m \in Strongest(Carried(ls, e)) : m.at \in DOMAIN ls => Replaces(ls[m.at], m.label)}
  IN  [k \in DOMAIN ls \cup {m.at : m \in taken} |->
         IF \E m \in taken : m.at = k THEN (CHOOSE m \in taken : m.at = k).label ELSE ls[k]]

CarryEdge ==
  /\ pending # << >>
  /\ LET after == AlongEdge(labels, Head(pending))
     IN  labels' = after /\ changed' = (changed \/ after # labels)
  /\ pending' = Tail(pending)
  /\ UNCHANGED <<flow, round, seeds>>
NextRound ==
  /\ pending = << >> /\ changed /\ round < MaxRounds
  /\ pending' = flow /\ round' = round + 1 /\ changed' = FALSE
  /\ UNCHANGED <<flow, labels, seeds>>

LabelsInit ==
  /\ flow \in FlowGraphs
  /\ seeds \in SeedSets /\ labels = seeds
  /\ pending = flow /\ round = 1 /\ changed = FALSE
LabelsNext == CarryEdge \/ NextRound
Propagated == pending = << >> /\ (~changed \/ round = MaxRounds)

\* enforce: a label counts when confirmed or confident enough; labels required of a sink
\* are looked for on any of its columns.
Counts(l) == l.confirmed \/ l.confidence > 0
Forbidden(ls, d, forbid) == {k \in DOMAIN ls : k[1] = d /\ k[3] \in forbid /\ Counts(ls[k])}
Missing(ls, d, needed)   == needed \ {k[3] : k \in {x \in DOMAIN ls : x[1] = d /\ Counts(ls[x])}}
TagIndex(ls)             == [d \in {k[1] : k \in DOMAIN ls} |-> {k[3] : k \in {x \in DOMAIN ls : x[1] = d}}]
LabelsOver(ls, ds)       == [n \in {k[3] : k \in DOMAIN ls} |-> {k \in DOMAIN ls : k[3] = n /\ k[1] \in ds}]

-----------------------------------------------------------------------------
\* Reference: from a seed along every way that carries it, with what is left of its
\* confidence on arrival.
FlowEdges == Range(flow)
Sites ==
  ({k[1] : k \in DOMAIN seeds} \cup {e.dst : e \in FlowEdges})
    \X ({k[2] : k \in DOMAIN seeds} \cup {Unattributed} \cup UNION {{c[2] : c \in e.columns} : e \in FlowEdges})
    \X {k[3] : k \in DOMAIN seeds}
Possible == [at : Sites, confidence : 0 .. Max({0} \cup {seeds[k].confidence : k \in DOMAIN seeds})]
Onward(a, e) ==
  IF a.at[1] # e.src THEN {}
  ELSE {[at |-> <<e.dst, c, a.at[3]>>, confidence |-> Damped(a).confidence] : c \in FedColumns(e, a.at[2])}
Arrivals ==
  LET step == [S \in SUBSET Possible |-> S \cup UNION {UNION {Onward(a, e) : e \in FlowEdges} : a \in S}]
      start == {[at |-> k, confidence |-> seeds[k].confidence] : k \in DOMAIN seeds}
      N == Cardinality(Possible)
      reach[n \in 0 .. N] == IF n = 0 THEN start ELSE step[reach[n - 1]]
  IN  reach[N]

\* Whatever order the edges are in, once a round changes nothing every place a way leads
\* to carries the label, as strongly as the best way brings it, unless somebody confirmed
\* the label on the way: so a sink is accused exactly when a way brings it the label with
\* enough confidence left.
ArrivalsAreLabelled ==
  Propagated /\ ~changed =>
    /\ \A a \in Arrivals : a.at \in DOMAIN labels
    /\ (\A k \in DOMAIN seeds : ~seeds[k].confirmed) =>
         \A k \in DOMAIN labels :
           /\ labels[k].confidence = Max({a.confidence : a \in {b \in Arrivals : b.at = k}})
           /\ (\E a \in Arrivals : a.at = k /\ a.confidence > 0) <=> k \in Forbidden(labels, k[1], {k[3]})
    /\ \A k \in DOMAIN seeds : seeds[k].confirmed => labels[k] = seeds[k]
-----------------------------------------------------------------------------
VARIABLES reading,           \* dataset -> its latest profile, a partial function
          tags,              \* the label table: <<dataset, column, name>> -> [confidence, confirmed]
          labelling,         \* what each run is doing
          decided,           \* history: the labels people confirmed
          lone               \* history: whether nobody else has written since the run began
tagVars == <<reading, tags, labelling, decided, lone>>

NoLabelling == [pc |-> "idle", unread |-> {}, seeds |-> << >>, left |-> {}]

\* infer, one column: a detector whose statistics speak for it is believed more, one they
\* refute is dropped, and what identifies a person is personal data as surely as its
\* surest sign.
Found(detectors) ==
  {[name |-> t.name,
    confidence |-> IF t.support = "corroborated" THEN Min({TopConfidence, t.confidence + SupportBonus})
                   ELSE t.confidence] : t \in {u \in detectors : u.support # "refuted"}}
Implied(found) ==
  LET identifying == {t \in found : t.name \in PiiLabels}
  IN  IF identifying = {} THEN {}
      ELSE {[name |-> "pii", confidence |-> Max({t.confidence : t \in identifying})]}
Infer(d, profile) ==
  LET of(col) == Found(profile[col]) \cup Implied(Found(profile[col]))
      at == UNION {{<<d, col, t.name>> : t \in of(col)} : col \in DOMAIN profile}
  IN  [k \in at |-> [confidence |-> (CHOOSE t \in of(k[2]) : t.name = k[3]).confidence,
                     confirmed |-> FALSE]]

\* propagate as one step: no other process sees it.
Propagate(edges, ls) ==
  LET N == MaxRounds * Len(edges)
      after[n \in 0 .. N] ==
        IF n = 0 THEN ls ELSE AlongEdge(after[n - 1], edges[((n - 1) % Len(edges)) + 1])
  IN  after[N]

\* set_label.
SetLabel(at, l) ==
  [k \in DOMAIN tags \cup {at} |->
     IF k # at THEN tags[k]
     ELSE [confidence |-> l.confidence,
           confirmed |-> l.confirmed \/ (at \in DOMAIN tags /\ tags[at].confirmed)]]

LabelsFor(d) == {k \in DOMAIN tags : k[1] = d}

\* A dataset is profiled: its latest profile changes.
Reprofile(d) ==
  /\ \E r \in Readings[d] :
       /\ (d \in DOMAIN reading => reading[d] # r)
       /\ reading' = [x \in DOMAIN reading \cup {d} |-> IF x = d THEN r ELSE reading[x]]
  /\ lone' = [p \in Labellers |-> FALSE]
  /\ UNCHANGED <<tags, labelling, decided>>

StartLabelling(p) ==
  /\ labelling[p].pc = "idle"
  /\ labelling' = [labelling EXCEPT ![p] = [NoLabelling EXCEPT !.pc = "infer", !.unread = DOMAIN Readings]]
  /\ lone' = [lone EXCEPT ![p] = \A q \in Labellers \ {p} : labelling[q].pc = "idle"]
  /\ UNCHANGED <<reading, tags, decided>>

\* seeds.update(infer(latest)), if there is one: the keys of two datasets are apart.
InferOne(p) ==
  /\ labelling[p].pc = "infer" /\ labelling[p].unread # {}
  /\ LET d == Min(labelling[p].unread)
         seen == IF d \in DOMAIN reading THEN Infer(d, reading[d]) ELSE << >>
     IN  labelling' = [labelling EXCEPT ![p].unread = @ \ {d},
                         ![p].seeds = [k \in DOMAIN @ \cup DOMAIN seen |->
                                         IF k \in DOMAIN seen THEN seen[k] ELSE @[k]]]
  /\ UNCHANGED <<reading, tags, decided, lone>>

PropagateSeeds(p) ==
  /\ labelling[p].pc = "infer" /\ labelling[p].unread = {}
  /\ LET ls == Propagate(LabelGraph, labelling[p].seeds)
     IN  labelling' = [labelling EXCEPT ![p] = [@ EXCEPT !.pc = "save", !.seeds = ls, !.left = DOMAIN ls]]
  /\ UNCHANGED <<reading, tags, decided, lone>>

\* One set_label, a transaction of its own: the columns come as they were found, the
\* labels of one in the order of a set.
SaveLabel(p) ==
  /\ labelling[p].pc = "save"
  /\ \E k \in {x \in labelling[p].left : \A y \in labelling[p].left : x[1] <= y[1]} :
       /\ tags' = SetLabel(k, labelling[p].seeds[k])
       /\ labelling' = [labelling EXCEPT ![p].left = @ \ {k}]
  /\ lone' = [q \in Labellers |-> q = p /\ lone[p]]
  /\ UNCHANGED <<reading, decided>>

EndLabelling(p) ==
  /\ labelling[p].pc = "save" /\ labelling[p].left = {}
  /\ labelling' = [labelling EXCEPT ![p] = NoLabelling]
  /\ UNCHANGED <<reading, tags, decided, lone>>

\* The run ends early.
StopLabelling(p) ==
  /\ labelling[p].pc # "idle"
  /\ labelling' = [labelling EXCEPT ![p] = NoLabelling]
  /\ UNCHANGED <<reading, tags, decided, lone>>

\* A person confirms a proposal.
ConfirmLabel(k) ==
  /\ ~tags[k].confirmed /\ Cardinality(decided) < MaxConfirmed
  /\ tags' = SetLabel(k, [confidence |-> TopConfidence, confirmed |-> TRUE])
  /\ decided' = decided \cup {k}
  /\ lone' = [p \in Labellers |-> FALSE]
  /\ UNCHANGED <<reading, labelling>>

TagsInit ==
  /\ reading = << >> /\ tags = << >> /\ decided = {}
  /\ labelling = [p \in Labellers |-> NoLabelling] /\ lone = [p \in Labellers |-> FALSE]
TagsNext ==
  \/ \E d \in DOMAIN Readings : Reprofile(d)
  \/ \E p \in Labellers : \/ StartLabelling(p) \/ InferOne(p) \/ PropagateSeeds(p)
                          \/ SaveLabel(p) \/ EndLabelling(p) \/ StopLabelling(p)
  \/ \E k \in DOMAIN tags : ConfirmLabel(k)

\* A run that no other writer came between leaves in the store what the profiles say now:
\* all that inference finds and what it taints downstream, as surely as it is known; and
\* only labels a person confirmed are marked so, whoever writes when.
StoredLabelsAreTrue ==
  /\ \A p \in Labellers : lone[p] /\ labelling[p].pc = "save" /\ labelling[p].left = {} =>
       LET seen == UNION {{<<d, k>> : k \in DOMAIN Infer(d, reading[d])} : d \in DOMAIN reading}
           ls == Propagate(LabelGraph, [k \in {x[2] : x \in seen} |-> Infer(k[1], reading[k[1]])[k]])
       IN  \A k \in DOMAIN ls : k \in LabelsFor(k[1]) /\ tags[k].confidence = ls[k].confidence
  /\ {k \in DOMAIN tags : tags[k].confirmed} = decided

NothingSensitiveIsLost == ArrivalsAreLabelled /\ StoredLabelsAreTrue

\* "Confirmation is sticky by design: re-running inference must never quietly undo a
\* decision somebody made": no label leaves the store, and a confirmed one stays confirmed.
LabelDecisionsStand ==
  /\ DOMAIN tags \subseteq DOMAIN tags'
  /\ \A k \in DOMAIN tags : tags[k].confirmed => tags'[k].confirmed

\* docs/guide/label.md: "a confirmed label always counts regardless - a human already
\* decided".  Not so: Project.enforce checks what inference finds now (Project.labels), and
\* never reads the label table.
ConfirmedLabelsCount ==
  \A p \in Labellers : lone[p] /\ labelling[p].pc = "save" =>
    \A k \in decided : k \in Forbidden(labelling[p].seeds, k[1], {k[3]})
=============================================================================
