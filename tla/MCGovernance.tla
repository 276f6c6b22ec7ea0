---------------------------- MODULE MCGovernance ----------------------------
(***************************************************************************)
(* Erasure and the registries of govern/: they share no state, and each is *)
(* checked in the behaviours in which it alone acts.                       *)
(***************************************************************************)
EXTENDS MCErasure, Copies, Decisions, Labels, Access, Monitor

CONSTANT never

VARIABLE desk
governanceVars == <<desk, vars, keysVars, copiesVars, approvalVars, auditVars, labelVars, tagVars, tenancyVars, rbacVars,
                    monitorVars>>

MCEvents == {[action |-> "erase", target |-> "users", outcome |-> "denied"],
             [action |-> "plan", target |-> "users", outcome |-> "success"]}
MCProposals ==
  {[kind |-> "add_dataset", proposer |-> "ann", consumers |-> {"ml"}, contracted |-> FALSE],
   [kind |-> "add_edge", proposer |-> "ann", consumers |-> {"ml"}, contracted |-> FALSE],
   [kind |-> "change_spec", proposer |-> "ann", consumers |-> {}, contracted |-> FALSE],
   [kind |-> "change_spec", proposer |-> "ann", consumers |-> {"ml"}, contracted |-> FALSE],
   [kind |-> "remove_edge", proposer |-> "ann", consumers |-> {}, contracted |-> TRUE],
   [kind |-> "relax_policy", proposer |-> "ann", consumers |-> {"ml"}, contracted |-> TRUE]}
MCDeclarable ==
  [dataset : {"orders"}, kind : {"archive"}, location : {"vault"}, retention : {1, 2, never}]
    \cup [dataset : {"orders"}, kind : {"replica", "stream", "third_party"}, location : {"vendor"},
           retention : {2, never}]

Arrow(s, d, columns) == [src |-> s, dst |-> d, columns |-> columns]
MCFlowGraphs ==
  {<<Arrow(3, 4, {<<"a", "b">>}), Arrow(2, 3, {<<"b", "a">>, <<"a", "a">>}), Arrow(1, 2, {<<"a", "b">>})>>,
   <<Arrow(1, 2, {}), Arrow(2, 3, {<<"a", "a">>}), Arrow(1, 3, {<<"a", "b">>}), Arrow(3, 1, {})>>,
   <<Arrow(2, 4, {<<"b", "b">>}), Arrow(1, 2, {<<"a", "b">>}), Arrow(1, 3, {<<"a", "b">>}),
     Arrow(3, 2, {<<"b", "b">>}), Arrow(3, 4, {})>>}
Tag(n, c) == [confidence |-> n, confirmed |-> c]
MCSeedSets ==
  {[k \in S |-> Tag(n, FALSE)] : S \in (SUBSET {<<1, "a", "pii">>, <<2, "b", "pii">>, <<2, "a", "email">>}) \ {{}},
                                 n \in {1, 3}}
  \cup {[k \in {<<1, "a", "pii">>, <<3, "a", "pii">>, <<3, "b", "pii">>} |->
           IF k[1] = 1 THEN Tag(3, FALSE) ELSE Tag(0, TRUE)]}

Detector(n, c, support) == [name |-> n, confidence |-> c, support |-> support]
MCLabelGraph == <<Arrow(1, 2, {<<"a", "b">>})>>
MCReadings ==       \* price_cents holds integers or fractions; customer_id is known by its name alone
  <<{[a |-> {Detector("minor_units", 1, "corroborated")}], [a |-> {Detector("minor_units", 1, "refuted")}]},
    {[b |-> {Detector("user_identifier", 1, "silent")}]}>>

MCDependencies == {<<1, 2>>, <<2, 1>>}
MCDeclared == {<<1, 2>>}

Rule(actions, things, deny, cap, columns) ==
  [actions |-> actions, selector |-> things, deny |-> deny, cap |-> cap, columns |-> columns]
MCRoleShapes ==
  [grants : {{Rule({"read:profile", "erase"}, {"t", "u"}, FALSE, NoCap, {})},
             {Rule({"read:profile"}, {"t"}, FALSE, 1, {"id"})},
             {Rule({"erase"}, {"t"}, TRUE, NoCap, {}), Rule({"read:profile"}, {"u"}, FALSE, NoCap, {"mail"})}, {}},
   inherits : {{}, {"team"}, {"lead", "base"}}]
MCHolders == {{"lead"}, {"team", "base"}}

Col(t, nulls, low, high, distinct) == [dtype |-> t, nulls |-> nulls, low |-> low, high |-> high, distinct |-> distinct]
Profile(rows, columns) == [rows |-> rows, columns |-> columns]
MCProfileShapes ==
  {Profile(10, [a |-> Col("int", 0, 0, 9, 10), b |-> Col("str", Unknown, Unknown, Unknown, Unknown)]),
   Profile(10, [a |-> Col("int", 0, 0, 9, 10)]),
   Profile(20, [a |-> Col("int", 20, 2, 8, 15), b |-> Col("int", 0, 1, 3, 19), c |-> Col("str", 0, Unknown, Unknown, 19)]),
   Profile(0, [a |-> Col("int", Unknown, Unknown, Unknown, Unknown),
               b |-> Col("str", Unknown, Unknown, Unknown, Unknown)])}
MCKindsOf   == [a |-> {"date_of_birth"}, b |-> {}, c |-> {"postal_address"}]
MCContract  == [columns |-> {"a", "b"}, consumers |-> {"ml"}, staleness |-> Unknown, suite |-> {}]

OneRequest == CHOOSE r \in MCRequests : r.transactional
OneProposal == [kind |-> "add_dataset", proposer |-> "ann", consumers |-> {}, contracted |-> FALSE]

GovernanceInit ==
  /\ desk \in {"erasure", "keys", "copies", "approvals", "audit", "labels", "labelling", "tenancy", "rbac", "profiles",
              "seasons"}
  /\ KeysInit /\ CopiesInit /\ AuditInit /\ TenancyInit /\ TagsInit
  /\ IF desk = "erasure" THEN Init
     ELSE /\ request = OneRequest /\ holds = {} /\ others = Cells
          /\ entries = << >> /\ dry = TRUE /\ pc = "idle" /\ certified = FALSE
  /\ IF desk = "approvals" THEN ApprovalsInit ELSE submission = [proposal |-> OneProposal, votes |-> << >>]
  /\ IF desk = "labels" THEN LabelsInit
     ELSE flow = << >> /\ labels = << >> /\ pending = << >> /\ round = 1 /\ changed = FALSE /\ seeds = << >>
  /\ IF desk \in {"profiles", "seasons"} THEN MonitorInit
     ELSE shape = << >> /\ saved = << >> /\ clean = << >> /\ work = << >> /\ unmet = {} /\ dated = << >>
  /\ IF desk = "rbac" THEN RbacInit ELSE roles = << >> /\ holder = {} /\ level = << >>

GovernanceNext ==
  /\ UNCHANGED desk
  /\ \/ desk = "erasure" /\ Next
     \/ desk = "keys" /\ KeysNext
     \/ desk = "copies" /\ CopiesNext
     \/ desk = "approvals" /\ ApprovalsNext
     \/ desk = "audit" /\ AuditNext
     \/ desk = "labels" /\ LabelsNext
     \/ desk = "labelling" /\ TagsNext
     \/ desk = "tenancy" /\ TenancyNext
     \/ desk = "rbac" /\ RbacNext
     \/ desk = "profiles" /\ MonitorNext
     \/ desk = "seasons" /\ SeasonsNext
  /\ desk # "erasure" => UNCHANGED vars
  /\ desk # "keys" => UNCHANGED keysVars
  /\ desk # "copies" => UNCHANGED copiesVars
  /\ desk # "approvals" => UNCHANGED approvalVars
  /\ desk # "audit" => UNCHANGED auditVars
  /\ desk # "labels" => UNCHANGED labelVars
  /\ desk # "labelling" => UNCHANGED tagVars
  /\ desk # "tenancy" => UNCHANGED tenancyVars
  /\ desk # "rbac" => UNCHANGED rbacVars
  /\ desk \notin {"profiles", "seasons"} => UNCHANGED monitorVars

GovernanceSpec == GovernanceInit /\ [][GovernanceNext]_governanceVars

-----------------------------------------------------------------------------
\* What was attested stays true: an entry of an erasure proof, a complete shred, an
\* attestation that a copy is gone; and a shred destroys only its subject's keys.
EvidenceStaysTrue ==
  /\ desk = "erasure" => EntriesAreTrue
  /\ desk = "keys" => CompleteShredsStayTrue /\ OnlyTheirOwnIsShredded
  /\ desk = "copies" => ClosedCopiesStayClosed

\* govern/approvals.py, govern/access/audit.py: what is approved was agreed to by whom it
\* takes, and a log that verifies was written so.
DecisionsAreOnRecord ==
  /\ desk = "approvals" => ApprovedMeansAgreed
  /\ desk = "audit" => CleanLogsWereWritten

\* govern/access/tenancy.py, rbac.py: the two views of a boundary agree, and what a role
\* inherits decides as if it were its own, a denial first.
AccessIsBounded ==
  /\ desk = "tenancy" => BoundariesAgree
  /\ desk = "rbac" => InheritedDenialsDecide

\* observe/profile.py, quality.py, schema.py, seasonal.py, govern/contracts.py: the ways of asking whether
\* a change breaks something agree, the baseline keeps its promise through every check that
\* passed, and a season is judged by its own observations.
ProfilesJudgeAlike ==
  /\ desk = "profiles" => JudgesAgree /\ AcceptedShapesNeverBreak
  /\ desk = "seasons" => SeasonsAreJudgedByTheirOwn

\* What a registry decided stands: verdicts, the findings of a verified log, labels a person
\* confirmed, grants that end with a change of owner, and what tightening a role may never open.
WhatWasDecidedStands ==
  [][/\ desk = "approvals" => VerdictStands
     /\ desk = "audit" => BreaksStay
     /\ desk = "labelling" => LabelDecisionsStand
     /\ desk = "tenancy" => NobodySeesMoreUnnamed
     /\ desk = "rbac" => TighteningCloses]_governanceVars
=============================================================================
