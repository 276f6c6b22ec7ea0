------------------------------- MODULE Access -------------------------------
(***************************************************************************)
(* Who may see and do what, govern/access/tenancy.py and rbac.py, and what *)
(* destroying keys erases, keys.py.                                        *)
(***************************************************************************)
EXTENDS Integers, FiniteSets, SequencesExt

(***************************************************************************)
(* govern/access/tenancy.py: datasets owned by tenants, and dependencies   *)
(* that cross between them.  A grant is kept under the tenant that owned   *)
(* the dataset when it was made.                                           *)
(***************************************************************************)

CONSTANTS Tenants, NoTenant, Assets, Dependencies, DeclaredDependencies,
          MaxGrants      \* bound

ASSUME TenancyAssumption ==
  /\ MaxGrants \in Nat
  /\ Dependencies \subseteq Assets \X Assets

VARIABLES ownership,     \* dataset -> tenant, a partial function
          sharing        \* <<owner, dataset, reader>>
tenancyVars == <<ownership, sharing>>

OwnerOf(d)    == IF d \in DOMAIN ownership THEN ownership[d] ELSE NoTenant
DatasetsOf(t) == {d \in DOMAIN ownership : ownership[d] = t}
Unowned       == {d \in Assets : OwnerOf(d) = NoTenant}
SharedWith(d) == {g[3] : g \in {x \in sharing : x[1] = OwnerOf(d) /\ x[2] = d}}
IsSharedWith(d, t) == t \in SharedWith(d)

Own(d, t) ==
  /\ ownership' = [x \in DOMAIN ownership \cup {d} |-> IF x = d THEN t ELSE ownership[x]]
  /\ UNCHANGED sharing
Share(d, readers) ==        \* refused when nobody owns the dataset
  /\ OwnerOf(d) # NoTenant /\ Cardinality(sharing) < MaxGrants
  /\ sharing' = sharing \cup {<<OwnerOf(d), d, t>> : t \in readers}
  /\ UNCHANGED ownership

Crossings ==
  {[edge |-> e, kind |-> IF IsSharedWith(e[1], OwnerOf(e[2])) THEN "shared" ELSE "violation"] :
     e \in {x \in Dependencies : NoTenant \notin {OwnerOf(x[1]), OwnerOf(x[2])}
                                   /\ OwnerOf(x[1]) # OwnerOf(x[2])}}
ClassifyCrossings ==
  {IF c.kind = "violation" /\ c.edge \in DeclaredDependencies THEN [c EXCEPT !.kind = "undeclared"] ELSE c :
     c \in Crossings}
Leaks == {c \in Crossings : c.kind = "violation"}
ScopeGraph(t) == {d \in Assets : OwnerOf(d) = t \/ IsSharedWith(d, t)}
TenantSummary ==
  [unowned |-> Unowned, violations |-> {c \in ClassifyCrossings : c.kind = "violation"},
   undeclared |-> {c \in ClassifyCrossings : c.kind = "undeclared"},
   shared |-> {c \in ClassifyCrossings : c.kind = "shared"}]
IsolationOk == TenantSummary.violations = {}

TenancyInit == ownership = << >> /\ sharing = {}
TenancyNext ==
  \E d \in Assets : (\E t \in Tenants : Own(d, t)) \/ (\E r \in Tenants : Share(d, {r}))

-----------------------------------------------------------------------------
\* The views of the boundary agree: a tenant's job reads outside its view of the graph
\* exactly when the crossing is a leak, a summary splits the crossings without losing
\* one, and clean boundaries leave only reads that were granted or declared.
BoundariesAgree ==
  /\ \A e \in Dependencies : NoTenant \notin {OwnerOf(e[1]), OwnerOf(e[2])} =>
       (e[1] \notin ScopeGraph(OwnerOf(e[2])) <=> e \in {c.edge : c \in Leaks})
  /\ {c.edge : c \in Crossings} =
       {c.edge : c \in TenantSummary.violations \cup TenantSummary.undeclared \cup TenantSummary.shared}
  /\ TenantSummary.violations \subseteq Leaks
  /\ IsolationOk => {c.edge : c \in Leaks} \subseteq DeclaredDependencies

\* Handing a dataset over ends the grants of the tenant that had it: who sees it then was
\* granted it by the new one.  No other step lets a tenant see more unless the step says so.
NobodySeesMoreUnnamed ==
  \A d \in Assets, t \in Tenants :
    d \in ScopeGraph(t)' /\ (d \notin ScopeGraph(t) \/ OwnerOf(d)' # OwnerOf(d)) =>
      \/ OwnerOf(d)' = t
      \/ <<OwnerOf(d)', d, t>> \in sharing' /\ (OwnerOf(d)' = OwnerOf(d) => <<OwnerOf(d), d, t>> \notin sharing)

-----------------------------------------------------------------------------
(***************************************************************************)
(* govern/access/rbac.py: roles that grant and deny, inherited; a decision *)
(* reads every grant the principal's roles reach.                          *)
(***************************************************************************)

CONSTANTS RoleNames,
          Things,              \* datasets
          NoCap,               \* max_sensitivity is None
          DefaultLevel,        \* default_sensitivity, a rank
          Levels4,             \* the ranks
          Fields,              \* column names
          Holders,             \* the role sets a principal may have
          RoleShapes           \* roles somebody may define: [grants, inherits]

Grants == [actions : SUBSET STRING, selector : SUBSET Things, deny : BOOLEAN, cap : Nat \cup {NoCap},
           columns : SUBSET Fields]

ASSUME RbacAssumption ==
  /\ IsFiniteSet(RoleNames) /\ Holders \subseteq SUBSET RoleNames
  /\ \A shape \in RoleShapes : shape.grants \subseteq Grants /\ shape.inherits \subseteq RoleNames
  /\ DefaultLevel \in Nat /\ Levels4 \subseteq Nat /\ NoCap \notin Nat /\ Fields # {}

VARIABLES roles,               \* role -> [grants, inherits], a partial function
          holder,              \* the roles of the principal
          level                \* classified datasets -> rank, a partial function
rbacVars == <<roles, holder, level>>

\* The walk through the parents: a role met twice, or never defined, adds nothing.
WalkOwn(seen) == seen                                                     \* mutant
WalkParents(seen) ==
  seen \cup UNION {roles[r].inherits : r \in seen \cap DOMAIN roles}
RolesReached ==
  LET walk == [seen \in SUBSET RoleNames |-> WalkParents(seen)]
      reach[n \in 0 .. Cardinality(RoleNames)] == IF n = 0 THEN holder ELSE walk[reach[n - 1]]
  IN  reach[Cardinality(RoleNames)] \cap DOMAIN roles
GrantsFor == UNION {roles[r].grants : r \in RolesReached}

Matching(action, d) == {g \in GrantsFor : action \in g.actions /\ d \in g.selector}
SensitivityOf(d)    == IF d \in DOMAIN level THEN level[d] ELSE DefaultLevel

ExplainAllowFirst(action, d) ==                                           \* mutant
  LET matching == Matching(action, d) IN
  IF \E g \in matching : ~g.deny /\ (g.cap = NoCap \/ SensitivityOf(d) <= g.cap) THEN "allow" ELSE "deny"
\* A denial wins; then the lowest cap of any grant that matches; then any grant allows.
Explain(action, d) ==
  LET matching == Matching(action, d) IN
  IF \E g \in matching : g.deny THEN "deny"
  ELSE IF \E g \in matching : g.cap # NoCap /\ SensitivityOf(d) > g.cap THEN "sensitivity"
  ELSE IF matching # {} THEN "allow" ELSE "default"
Can(action, d) == Explain(action, d) = "allow"

\* Columns are read from the allowing grants alone.
ColumnsVisibleTo(d) ==
  LET matching == {g \in Matching("read:profile", d) : ~g.deny}
  IN  IF \E g \in matching : g.columns = {} THEN (IF matching = {} THEN {} ELSE Fields)
      ELSE Fields \cap UNION {g.columns : g \in matching}
MaskProfile(d, profile) == SelectSeq(profile, LAMBDA c : c \in ColumnsVisibleTo(d))

AddRole(r, shape) ==
  /\ roles' = [x \in DOMAIN roles \cup {r} |->
                 IF x = r THEN shape ELSE roles[x]]
  /\ UNCHANGED <<holder, level>>
ClassifyThing(d, rank) ==
  /\ level' = [x \in DOMAIN level \cup {d} |-> IF x = d THEN rank ELSE level[x]]
  /\ UNCHANGED <<roles, holder>>

RbacInit == roles = << >> /\ holder \in Holders /\ level = << >>
RbacNext ==
  \/ \E r \in RoleNames \ DOMAIN roles, shape \in RoleShapes : AddRole(r, shape)
  \/ \E d \in Things, rank \in Levels4 : ClassifyThing(d, rank)

-----------------------------------------------------------------------------
\* Reference: the roles that no set with the principal's own roles and every role its
\* members inherit can leave out.
HasItsParents(S) == \A r \in S : roles[r].inherits \cap DOMAIN roles \subseteq S
Inherited ==
  {r \in DOMAIN roles :
     \A S \in SUBSET DOMAIN roles : holder \cap DOMAIN roles \subseteq S /\ HasItsParents(S) => r \in S}

\* A denial or a cap on any role up the inheritance, cyclic or not, is decisive: whoever
\* is allowed is allowed by some inherited grant and refused by none.  A profile is
\* masked to what some allowing grant shows; the mask alone does not stop a principal
\* who is denied, so it is only meaningful after the decision.
InheritedDenialsDecide ==
  \A d \in Things, a \in {"read:profile", "erase"} :
    LET met == UNION {{g \in roles[r].grants : a \in g.actions /\ d \in g.selector} : r \in Inherited}
    IN  /\ Can(a, d) <=> met # {} /\ \A g \in met : ~g.deny /\ (g.cap = NoCap \/ SensitivityOf(d) <= g.cap)
        /\ a = "read:profile" /\ Can(a, d) => ColumnsVisibleTo(d) # {}

\* Raising a dataset's sensitivity never opens anything.  A role that is added counts only if
\* the principal reaches it, and then with the roles that only it leads to: what one of them
\* denies is closed, what they grant nothing but denials for is not opened, and what they
\* close is denied or capped by one of them.  (A role that denies one thing may open another
\* through a role it inherits.)
TighteningCloses ==
  \A d \in Things, a \in {"read:profile", "erase"} :
    /\ roles' = roles /\ SensitivityOf(d)' >= SensitivityOf(d) /\ Can(a, d)' => Can(a, d)
    /\ \A r \in DOMAIN roles' \ DOMAIN roles :
         LET brought == IF r \in Inherited' THEN {r} \cup (Inherited' \ Inherited) ELSE {}
             terms   == UNION {{g \in roles'[x].grants : a \in g.actions /\ d \in g.selector} : x \in brought}
         IN  /\ (\E g \in terms : g.deny) => ~Can(a, d)'
             /\ (\A g \in terms : g.deny) /\ Can(a, d)' => Can(a, d)
             /\ Can(a, d) /\ ~Can(a, d)' =>
                  \E g \in terms : g.deny \/ (g.cap # NoCap /\ SensitivityOf(d) > g.cap)

-----------------------------------------------------------------------------
(***************************************************************************)
(* govern/access/keys.py: erasure by destroying keys.  Keys are            *)
(* registered, rotated and destroyed; a shred proof says that no surviving *)
(* key decrypts a subject's data.                                          *)
(***************************************************************************)

CONSTANTS KeyNames, Subjects,
          MaxProofs              \* bound

ASSUME KeysAssumption == MaxProofs \in Nat /\ IsFiniteSet(Subjects)

VARIABLES keys,       \* identifier -> [state, subjects]: KeyRegistry.keys
          shreds,     \* the shred proofs issued
          sealed,     \* history: <<key, subject>>: the key was in use for the subject
          leftOut,    \* history: pairs whose key was registered again without the subject
          byHand      \* history: keys destroyed by name, not for a subject
keysVars == <<keys, shreds, sealed, leftOut, byHand>>

KeyStates == {"active", "rotated", "destroyed"}
Known     == DOMAIN keys
CanDecrypt(k)     == keys[k].state # "destroyed"
IsShared(k)       == Cardinality(keys[k].subjects) > 1
KeysForSubject(s) == {k \in Known : s \in keys[k].subjects}
CoveredBy(s)      == {k \in KeysForSubject(s) : CanDecrypt(k)}
VerifyDestroyed(s) == CoveredBy(s) = {}

\* register refuses an identifier whose key was destroyed; any other it overwrites.
Registered(reg, k, subjects) ==
  [x \in DOMAIN reg \cup {k} |-> IF x = k THEN [state |-> "active", subjects |-> subjects] ELSE reg[x]]
MayRegister(reg, k)  == k \in DOMAIN reg => reg[k].state # "destroyed"

Used(reg) == {p \in (DOMAIN reg) \X Subjects : p[2] \in reg[p[1]].subjects /\ reg[p[1]].state = "active"}

Register(k, subjects) ==
  /\ MayRegister(keys, k)
  /\ keys' = Registered(keys, k, subjects)
  /\ sealed' = sealed \cup Used(keys')
  /\ leftOut' = leftOut \cup {p \in sealed : p[1] = k /\ p[2] \notin subjects}
  /\ UNCHANGED <<shreds, byHand>>

\* The old key is marked before the successor is registered, which may be refused: the
\* mark stays.  A key may be its own successor.
Rotate(k, successor) ==
  /\ k \in Known /\ keys[k].state # "destroyed"
  /\ LET marked == [keys EXCEPT ![k].state = "rotated"]
     IN  keys' = IF MayRegister(marked, successor)
                 THEN Registered(marked, successor, keys[k].subjects) ELSE marked
  /\ sealed' = sealed \cup Used(keys')
  /\ leftOut' = leftOut \cup {p \in sealed : p[1] = successor /\ keys'[successor].state = "active"
                                               /\ p[2] \notin keys'[successor].subjects}
  /\ UNCHANGED <<shreds, byHand>>

Destroyed(reg, S) == [k \in DOMAIN reg |-> IF k \in S THEN [reg[k] EXCEPT !.state = "destroyed"] ELSE reg[k]]

DestroyKey(k) ==
  /\ k \in Known /\ CanDecrypt(k)
  /\ keys' = Destroyed(keys, {k})
  /\ byHand' = byHand \cup {k}
  /\ UNCHANGED <<shreds, sealed, leftOut>>

\* Refused when a surviving key also covers somebody else.
DestroyForSubject(s) ==
  /\ CoveredBy(s) # {} /\ \A k \in CoveredBy(s) : ~IsShared(k)
  /\ keys' = Destroyed(keys, CoveredBy(s))
  /\ UNCHANGED <<shreds, sealed, leftOut, byHand>>

ProveShred(s) ==
  /\ Cardinality(shreds) < MaxProofs
  /\ shreds' = shreds \cup
       {[subject |-> s, complete |-> VerifyDestroyed(s),
         states |-> [k \in KeysForSubject(s) |-> keys[k].state]]}
  /\ UNCHANGED <<keys, sealed, leftOut, byHand>>

KeysInit == keys = << >> /\ shreds = {} /\ sealed = {} /\ leftOut = {} /\ byHand = {}

KeysNext ==
  \/ \E k \in KeyNames, S \in SUBSET Subjects : Register(k, S)
  \/ \E k, l \in KeyNames : Rotate(k, l)
  \/ \E k \in KeyNames : DestroyKey(k)
  \/ \E s \in Subjects : DestroyForSubject(s) \/ ProveShred(s)


-----------------------------------------------------------------------------
KeysTypeOK ==
  /\ DOMAIN keys \subseteq KeyNames
  /\ \A k \in DOMAIN keys : keys[k] \in [state : KeyStates, subjects : SUBSET Subjects]
  /\ sealed \subseteq KeyNames \X Subjects /\ leftOut \subseteq sealed /\ byHand \subseteq KeyNames

\* The keys a complete proof names are destroyed and stay so, through every later
\* registration and rotation: nothing written under them is readable again.
CompleteShredsStayTrue ==
  \A p \in shreds : p.complete =>
    \A k \in DOMAIN p.states : k \in Known /\ keys[k].state = "destroyed"

\* A key that was used for a subject is destroyed, by the request of another subject, only
\* if the registry had been told the subject no longer uses it; and a subject with no
\* surviving key in the registry has every key it ever used destroyed, with the same
\* exception.  Rotation loses track of nobody, even where its second half is refused.
OnlyTheirOwnIsShredded ==
  /\ \A p \in sealed \ leftOut : p[1] \in Known /\ p[2] \in keys[p[1]].subjects
  /\ \A s \in Subjects : VerifyDestroyed(s) => \A p \in sealed \ leftOut : p[2] = s => ~CanDecrypt(p[1])
  /\ \A p \in sealed \ leftOut :
       (~CanDecrypt(p[1]) /\ p[1] \notin byHand) => keys[p[1]].subjects = {p[2]}
=============================================================================
