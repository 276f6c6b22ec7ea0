----------------------------- MODULE Decisions ------------------------------
(***************************************************************************)
(* Decisions about changes, and the record of what was done:               *)
(* govern/approvals.py, govern/access/audit.py.                            *)
(***************************************************************************)
EXTENDS Naturals, Sequences, FiniteSets, SequencesExt

(***************************************************************************)
(* govern/approvals.py: who has to agree before a change takes effect.     *)
(***************************************************************************)

CONSTANTS People, Teams, NoTeam,
          Proposals,          \* [kind, proposer, consumers, contracted]
          MaxVotes            \* bound

ASSUME ApprovalsAssumption ==
  /\ MaxVotes \in Nat
  /\ Proposals \subseteq [kind : STRING, proposer : People, consumers : SUBSET Teams, contracted : BOOLEAN]

VARIABLES submission          \* [proposal: [kind, proposer, consumers, contracted], votes]
approvalVars == <<submission>>

Routine == 0   Significant == 1   Breaking == 2   Governed == 3    \* RiskClass.rank
BaseRisk(kind) ==
  CASE kind \in {"add_dataset", "add_policy"} -> Routine
    [] kind \in {"narrow_mapping", "add_edge", "confirm_label"} -> Significant
    [] kind \in {"remove_dataset", "remove_edge", "change_spec", "widen_mapping"} -> Breaking
    [] OTHER -> Governed

Classify(p) ==
  IF (p.contracted \/ p.consumers # {}) /\ BaseRisk(p.kind) >= Breaking THEN Governed ELSE BaseRisk(p.kind)

RequiredApprovals(p) ==
  LET risk == Classify(p)
  IN  [approvals |-> CASE risk = Routine -> 0 [] risk = Governed -> 2 [] OTHER -> 1,
       roles |-> IF risk >= Breaking THEN {"data-owner"} ELSE {},
       consumer |-> risk = Governed]

Granted(s)  == {i \in DOMAIN s.votes : ~s.votes[i].rejected}      \* votes, not voters
Rejected(s) == {i \in DOMAIN s.votes : s.votes[i].rejected}

Enough(granted, rule)   == Cardinality(granted) >= rule.approvals

Decide(s) ==
  LET rule == RequiredApprovals(s.proposal)  granted == Granted(s)
  IN  /\ Rejected(s) = {}
      /\ Enough(granted, rule)
      /\ rule.roles # {} => \E i \in granted : s.votes[i].roles \cap rule.roles # {}
      /\ rule.consumer /\ s.proposal.consumers # {} =>
           \E i \in granted : s.votes[i].team \in s.proposal.consumers

OutstandingOf(ss) == {s \in ss : ~Decide(s)}

\* Approving one's own proposal raises; rejecting it does not.
Approve(who, roles, team) ==
  /\ Len(submission.votes) < MaxVotes
  /\ who # submission.proposal.proposer
  /\ submission' = [submission EXCEPT !.votes =
       Append(@, [approver |-> who, roles |-> roles, team |-> team, rejected |-> FALSE])]
Reject(who) ==
  /\ Len(submission.votes) < MaxVotes
  /\ submission' = [submission EXCEPT !.votes =
       Append(@, [approver |-> who, roles |-> {}, team |-> NoTeam, rejected |-> TRUE])]

ApprovalsInit == submission \in [proposal : Proposals, votes : {<< >>}]
ApprovalsNext ==
  \E who \in People :
    \/ \E roles \in SUBSET {"data-owner"}, team \in Teams \cup {NoTeam} : Approve(who, roles, team)
    \/ Reject(who)

-----------------------------------------------------------------------------
\* What takes effect was agreed to: with a team depending on it, a change that may break
\* something has the consent of one of those teams and of a data owner, never of its
\* proposer alone, and two people's, unless one person voted twice (votes are counted,
\* not voters).
ApprovedMeansAgreed ==
  LET p == submission.proposal
      voters == {submission.votes[i].approver : i \in DOMAIN submission.votes}
  IN  Decide(submission) =>
        /\ \A i \in DOMAIN submission.votes : ~submission.votes[i].rejected
        /\ p.proposer \notin voters
        /\ p.kind \notin {"add_dataset", "add_policy"} => voters # {}
        /\ BaseRisk(p.kind) >= Breaking =>
             \E i \in DOMAIN submission.votes : "data-owner" \in submission.votes[i].roles
        /\ BaseRisk(p.kind) >= Breaking /\ p.consumers # {} =>
             /\ \E i \in DOMAIN submission.votes : submission.votes[i].team \in p.consumers
             /\ Cardinality(voters) >= 2
                  \/ \E i, j \in DOMAIN submission.votes :
                       i # j /\ submission.votes[i].approver = submission.votes[j].approver

\* A rejection is final, and nothing else takes an approval back.
VerdictStands ==
  /\ Rejected(submission) # {} => ~Decide(submission')
  /\ Decide(submission) /\ Rejected(submission') = {} => Decide(submission')

-----------------------------------------------------------------------------
(***************************************************************************)
(* govern/access/audit.py: a log whose entries carry the digest of their   *)
(* own content and of the entry before.  The log is written to storage and *)
(* replayed; storage may lose, move or alter entries.  A digest is the     *)
(* content it was computed from (sha256 without collisions); no digest is  *)
(* the empty one.                                                          *)
(***************************************************************************)

CONSTANTS Actors, Events,      \* Events: [action, target, outcome]
          GENESIS,
          MaxEntries, MaxFaults    \* bounds

ASSUME AuditAssumption == MaxEntries \in Nat /\ MaxFaults \in Nat

VARIABLES log,        \* the entries in memory
          sealedLog,  \* history: every entry ever sealed
          faults      \* how often storage has failed
auditVars == <<log, sealedLog, faults>>

Unsealed         == << >>
Body(e)          == <<e.sequence, e.actor, e.event, e.previous>>
ComputeDigest(e) == Body(e)
HeadOf(entries)  == IF entries = << >> THEN GENESIS ELSE Last(entries).digest

Sealed(entries, actor, event) ==
  LET entry == [sequence |-> Len(entries), actor |-> actor, event |-> event, previous |-> HeadOf(entries)]
  IN  [sequence |-> entry.sequence, actor |-> actor, event |-> event,
       previous |-> entry.previous, digest |-> ComputeDigest(entry)]

AppendEntry(actor, event) ==
  /\ Len(log) < MaxEntries
  /\ LET e == Sealed(log, actor, event)
     IN  log' = Append(log, e) /\ sealedLog' = sealedLog \cup {e}
  /\ UNCHANGED faults

\* What storage may do between a write and the replay that loads it again.
Lose(i) == log' = SubSeq(log, 1, i - 1) \o SubSeq(log, i + 1, Len(log))
Swap(i) == i < Len(log) /\ log' = [log EXCEPT ![i] = log[i + 1], ![i + 1] = log[i]]
Alter(i, a) == log[i].actor # a /\ log' = [log EXCEPT ![i].actor = a]
Unseal(i)   == log[i].digest # Unsealed /\ log' = [log EXCEPT ![i].digest = Unsealed]
Replay ==
  /\ faults < MaxFaults
  /\ faults' = faults + 1
  /\ \E i \in DOMAIN log : Lose(i) \/ Swap(i) \/ (\E a \in Actors : Alter(i, a)) \/ Unseal(i)
  /\ UNCHANGED sealedLog

LinkFromGenesis(entries, i) == GENESIS                           \* mutant: expected_previous never moves
ExpectedPrevious(entries, i) == IF i = 1 THEN GENESIS ELSE entries[i - 1].digest

Verify(entries) ==
  UNION {(IF entries[i].digest = Unsealed THEN {<<i, "unsealed">>}
          ELSE IF ComputeDigest(entries[i]) # entries[i].digest THEN {<<i, "altered">>} ELSE {})
         \cup (IF entries[i].previous # ExpectedPrevious(entries, i) THEN {<<i, "unlinked">>} ELSE {})
         \cup (IF entries[i].sequence # i - 1 THEN {<<i, "gap">>} ELSE {}) : i \in DOMAIN entries}

EntriesFor(actor)  == SelectSeq(log, LAMBDA e : e.actor = actor)
WhoTouched(target) == {log[i].actor : i \in {j \in DOMAIN log : log[j].event.target = target}}
Summarize ==
  [entries |-> Len(log), head |-> HeadOf(log), intact |-> Verify(log) = {},
   denied |-> Cardinality({i \in DOMAIN log : log[i].event.outcome = "denied"})]

AuditInit == log = << >> /\ sealedLog = {} /\ faults = 0
AuditNext == Replay \/ \E a \in Actors, e \in Events : AppendEntry(a, e)

-----------------------------------------------------------------------------
\* A log that verifies is one that really was written: every entry was sealed with this
\* content, and right after the content that stands before it; and a log storage never
\* failed verifies.  (Entries lost from the end leave no break: the log is then an
\* earlier one, and can be appended to.)
CleanLogsWereWritten ==
  /\ Verify(log) = {} =>
       \A i \in DOMAIN log :
         log[i] \in sealedLog /\ log[i].previous = IF i = 1 THEN GENESIS ELSE Body(log[i - 1])
  /\ faults = 0 => Verify(log) = {}

\* A break, once there, is never papered over by appending.
BreaksStay ==
  faults' = faults => Verify(log) \subseteq Verify(log')
=============================================================================
