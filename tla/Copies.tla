------------------------------- MODULE Copies -------------------------------
(***************************************************************************)
(* govern/replicas.py: copies no adapter can see, and what closes them out *)
(* after an erasure: time, an attestation, or nothing anybody here does.   *)
(***************************************************************************)
EXTENDS Integers, FiniteSets, Functions

CONSTANTS Copied,            \* datasets
          Locations,
          NoRetention,
          Declarable,        \* the copies somebody may declare
          MaxReplicas,       \* bound
          LastDay            \* bound on the clock

BeyondControl == {"export", "third_party"}
FollowsSource == {"replica", "cache"}
CopyKinds     == BeyondControl \cup FollowsSource \cup {"snapshot", "archive", "stream"}

ASSUME CopiesAssumption ==
  /\ Declarable \subseteq [dataset : Copied, kind : CopyKinds, location : Locations, retention : Nat \cup {NoRetention}]
  /\ LastDay \in Nat /\ MaxReplicas \in Nat

VARIABLES replicas,          \* [dataset, kind, location, retention]
          attestations,      \* location -> the day of the latest one
          erasedOn,          \* the day the source was erased; -1 before
          today,
          wasDischarged      \* history: discharged was true of the copies declared then
copiesVars == <<replicas, attestations, erasedOn, today, wasDischarged>>

HasLapsedIn(r, day) == r.retention # NoRetention /\ day >= r.retention         \* mutant
HasLapsed(r, day)  == r.retention # NoRetention /\ day - erasedOn >= r.retention

\* Beyond control first: an attestation about somebody else's system closes nothing.
DispositionOf(r, attested, day) ==
  IF r.kind \in BeyondControl THEN "unreachable"
  ELSE IF r.kind \in FollowsSource THEN "follows_source"
  ELSE IF HasLapsed(r, day) THEN "expired"
  ELSE IF r.location \in attested THEN "attested"
  ELSE "outstanding"

ForDataset(d)      == {r \in replicas : r.dataset = d}
ReplicaReport(d)   == [r \in ForDataset(d) |-> DispositionOf(r, DOMAIN attestations, today)]
IsDischarged(rep)  == Range(rep) \cap {"outstanding", "unreachable"} = {}
Discharged(rs)     == \A r \in rs : DispositionOf(r, DOMAIN attestations, today)
                                      \in {"follows_source", "expired", "attested"}

\* The work list is read without the attestations.
ObligationsFor(rs) == {r \in rs : DispositionOf(r, {}, today) \in {"outstanding", "unreachable"}}
Outstanding(rs)    == {r \in rs : DispositionOf(r, {}, today) = "outstanding"}
Attested(rs)       == {r \in rs : DispositionOf(r, DOMAIN attestations, today) = "attested"}
ExpiredBy(rs)      == {r \in rs : DispositionOf(r, {}, today) = "expired"}
Unreachable(rs)    == {r \in rs : r.kind \in BeyondControl}
ProofEntries(rs)   == {[replica |-> r, disposition |-> DispositionOf(r, DOMAIN attestations, today),
                        attestedAt |-> IF r.location \in DOMAIN attestations
                                       THEN attestations[r.location] ELSE -1] : r \in rs}
UndeclaredDatasets(ds) == {d \in ds : ForDataset(d) = {}}

CopiesInit ==
  /\ replicas = {} /\ attestations = << >> /\ erasedOn = -1 /\ today = 0 /\ wasDischarged = {}

Seen == IF erasedOn' = -1 THEN {} ELSE {r \in replicas' : Discharged({r})'}

DeclareCopy(r) ==
  /\ r \notin replicas /\ Cardinality(replicas) < MaxReplicas
  /\ replicas' = replicas \cup {r}
  /\ UNCHANGED <<attestations, erasedOn, today>>
  /\ wasDischarged' = wasDischarged \cup Seen
Attest(l) ==
  /\ attestations' = [x \in DOMAIN attestations \cup {l} |-> IF x = l THEN today ELSE attestations[x]]
  /\ UNCHANGED <<replicas, erasedOn, today>>
  /\ wasDischarged' = wasDischarged \cup Seen
EraseSource ==
  /\ erasedOn = -1
  /\ erasedOn' = today
  /\ UNCHANGED <<replicas, attestations, today>>
  /\ wasDischarged' = Seen
NextDay ==
  /\ today < LastDay
  /\ today' = today + 1
  /\ UNCHANGED <<replicas, attestations, erasedOn>>
  /\ wasDischarged' = wasDischarged \cup Seen

CopiesNext ==
  \/ \E r \in Declarable : DeclareCopy(r)
  \/ \E l \in Locations : Attest(l)
  \/ EraseSource \/ NextDay

-----------------------------------------------------------------------------
\* Once a copy is closed out it stays closed out, whatever is declared, attested or
\* passes later; the report, the proof and the total agree on it; a copy is never closed
\* by its retention before that has elapsed since the erasure, nor by an attestation when
\* somebody else holds it.  What is left is on the work list, which may also hold copies
\* attested since.  (The day of an attestation is not looked at: one made before the
\* erasure, or about another copy at the same location, closes a copy too.)
ClosedCopiesStayClosed ==
  erasedOn # -1 =>
    /\ \A r \in wasDischarged : Discharged({r})
    /\ \A d \in Copied :
         /\ IsDischarged(ReplicaReport(d)) <=> Discharged(ForDataset(d))
         /\ \A e \in ProofEntries(ForDataset(d)) : e.disposition = ReplicaReport(d)[e.replica]
         /\ Discharged(ForDataset(d)) => Unreachable(ForDataset(d)) = {}
    /\ \A r \in replicas :
         /\ ~Discharged({r}) => r \in ObligationsFor(replicas)
         /\ Discharged({r}) /\ r.kind \notin FollowsSource =>
              \/ r.retention # NoRetention /\ \E day \in erasedOn .. today : day - erasedOn = r.retention
              \/ r \in Attested(replicas) /\ attestations[r.location] <= today
         /\ r \in ExpiredBy(replicas) => r \notin Outstanding(replicas) \cup Attested(replicas)
=============================================================================
