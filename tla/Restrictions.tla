---------------------------- MODULE Restrictions ----------------------------
(***************************************************************************)
(* What lineage restricts: govern/consent.py and govern/licenses.py.       *)
(***************************************************************************)
EXTENDS Lineage

(***************************************************************************)
(* govern/consent.py: what each dataset may be used for, until when, and   *)
(* where it may be stored, read along lineage.  Scopes are declared and    *)
(* run out; the questions are asked again after every change.              *)
(***************************************************************************)

CONSTANTS Estates,          \* the graphs, one per estate
          Purposes, Training,
          Scopes,           \* [purposes, expires]: expires is a time, or Never
          Never,            \* no collection date or no retention recorded
          Residencies,      \* [regions, strict]
          RegionOf,         \* the region a dataset's namespace names, or NoRegion
          NoRegion,
          LastHour          \* bound on the clock

ASSUME ConsentAssumption ==
  /\ Training \in Purposes /\ LastHour \in Nat
  /\ \A g \in Estates : IsLineage(g)
  /\ \A s \in Scopes : s.purposes \subseteq Purposes /\ (s.expires = Never \/ s.expires \in Int)

VARIABLES estate, declared, pinned, hour
consentVars == <<estate, declared, pinned, hour>>

\* `moment` is the time a caller asks for (`now` in the code, which takes the clock, `hour`,
\* when there is none).
IsExpired(scope, moment) == scope.expires # Never /\ scope.expires < moment
Allows(scope, p, moment) == ~IsExpired(scope, moment) /\ p \in scope.purposes
InForce(scope, moment)   == IF IsExpired(scope, moment) THEN {} ELSE scope.purposes

\* A residency with no regions restricts nothing; a region nobody knows is not accused.
Permits(pin, region) == pin.regions = {} \/ region \in pin.regions
Forbids(pin, d)      == pin.strict /\ RegionOf[d] # NoRegion /\ ~Permits(pin, RegionOf[d])

\* One pass downstream, intersecting at joins.
PropagatePurposes(moment) ==
  FoldDownstream(estate, [d \in DOMAIN declared |-> InForce(declared[d], moment)],
                 LAMBDA a, b : a \cap b, {})

\* One dataset, from its closure: only declared scopes count.
ScopesAbove(d)       == Closure(estate, d) \cap DOMAIN declared
PermittedAny(d, moment) == UNION {InForce(declared[x], moment) : x \in ScopesAbove(d)}    \* mutant
PermittedPurposes(d, moment) ==
  {p \in Purposes : ScopesAbove(d) # {} /\ \A x \in ScopesAbove(d) : p \in InForce(declared[x], moment)}
PurposeAllowed(d, p, moment) == p \in PermittedPurposes(d, moment)
BlockingSources(d, p) == {x \in ScopesAbove(d) : p \notin declared[x].purposes}

\* These two take no time to ask for.
UnconsentedUses(intended) ==
  {[dataset |-> d, blockers |-> BlockingSources(d, intended[d])] :
     d \in {x \in DOMAIN intended : ~PurposeAllowed(x, intended[x], hour)}}
TrainingPermittedDatasets == {d \in estate.nodes : PurposeAllowed(d, Training, hour)}

Expired(moment) == {d \in DOMAIN declared : IsExpired(declared[d], moment)}
RetentionViolations(moment) ==
  Expired(moment) \cup {d \in estate.nodes : Ancestors(estate, d) \cap Expired(moment) # {}}

ResidencyViolations ==
  {w \in (DOMAIN pinned) \X estate.nodes :
     w[1] \in Closure(estate, w[2]) /\ Forbids(pinned[w[1]], w[2])}
TransferPaths ==
  {ShortestPath(estate, v[1], v[2]) :
     v \in {w \in (DOMAIN pinned) \X estate.nodes :
              Forbids(pinned[w[1]], w[2]) /\ ShortestPath(estate, w[1], w[2]) # << >>}}

\* The time asked for decides what has expired; what is permitted goes by the clock.
Report(d, intended, moment) ==
  LET upstream == Ancestors(estate, d) \cup {d}
  IN  [permitted |-> PermittedPurposes(d, hour),
       denied    |-> {[purpose |-> p, blockers |-> BlockingSources(d, p)] :
                        p \in intended \ PermittedPurposes(d, hour)},
       expired   |-> Expired(moment) \cap upstream,
       residency |-> {x \in upstream \cap DOMAIN pinned : Forbids(pinned[x], d)}]
IsClear(r) == r.denied = {} /\ r.expired = {} /\ r.residency = {}

-----------------------------------------------------------------------------
\* Declarations are config, edited at any time; the clock passes retention dates.
ConsentInit ==
  /\ estate \in Estates
  /\ declared = << >> /\ pinned = << >> /\ hour = 0

DeclareScope(d, scope) ==
  /\ declared' = [x \in DOMAIN declared \cup {d} |-> IF x = d THEN scope ELSE declared[x]]
  /\ UNCHANGED <<estate, pinned, hour>>
Pin(d, residency) ==
  /\ d \notin DOMAIN pinned
  /\ pinned' = [x \in DOMAIN pinned \cup {d} |-> IF x = d THEN residency ELSE pinned[x]]
  /\ UNCHANGED <<estate, declared, hour>>
Pass ==
  /\ hour < LastHour
  /\ hour' = hour + 1
  /\ UNCHANGED <<estate, declared, pinned>>

\* Scopes and residencies do not meet in any answer: the runs let them change apart.
RetentionNext == Pass \/ \E d \in estate.nodes, s \in Scopes : DeclareScope(d, s)
ResidencyNext == \E d \in estate.nodes, r \in Residencies : Pin(d, r)

-----------------------------------------------------------------------------
\* Sources: what is made of nothing, or of nothing but itself.
Origins(g) == {d \in g.nodes : Parents(g, d) \subseteq {d}}

\* The pass that labels a whole estate and the answer for one dataset are two
\* algorithms.  Off the cycles the pass never permits what the answer refuses, and
\* they agree wherever every source the data comes from was declared.  (Both
\* are asked for the same time.  The answer counts declared scopes only, so a source nobody
\* declared does not empty it; on and below a cycle the pass has seen some inputs only, and
\* may permit more.)
PropagationAgrees ==
  \A moment \in 0 .. LastHour :
    LET flow == PropagatePurposes(moment) IN
    \A d \in estate.nodes : ~Twisted(estate, d) =>
      /\ flow[d] \subseteq PermittedPurposes(d, moment)
      /\ Closure(estate, d) \cap Origins(estate) \subseteq DOMAIN declared => flow[d] = PermittedPurposes(d, moment)

\* Nothing is permitted below data whose scope excludes it or whose retention has run out by
\* the time that is asked for, and the report of a dataset is not clear of either.  The
\* report's permissions go by the clock, so one asked for another time can disagree with
\* itself: what it denies is explained (by a source that forbids the purpose, by one it lists
\* as expired, or by nothing being declared upstream) unless it is asked for the past, and
\* what it lists as expired leaves no permission unless it is asked for the future.
RefusalsReachDownAndAreExplained ==
  \A d \in estate.nodes, p \in Purposes, moment \in 0 .. LastHour :
    LET r == Report(d, {p}, moment)  above == Closure(estate, d) \cap DOMAIN declared IN
      /\ \A x \in above : ~Allows(declared[x], p, moment) =>
           /\ ~PurposeAllowed(d, p, moment) /\ ~IsClear(r)
           /\ moment <= hour \/ p \notin declared[x].purposes => UnconsentedUses([y \in {d} |-> p]) # {}
      /\ moment >= hour => \A n \in r.denied : n.blockers # {} \/ r.expired # {} \/ above = {}
      /\ r.expired # {} \/ d \in RetentionViolations(moment) =>
           PermittedPurposes(d, moment) = {} /\ (moment <= hour => d \notin TrainingPermittedDatasets /\ r.permitted = {})

\* What govern/consent.py:162 says of permissions, "retention running out is a withdrawal of
\* permission, not a note for a separate report", of a report asked for any time.
ReportsWithdrawPermission ==
  \A d \in estate.nodes, moment \in 0 .. LastHour :
    LET r == Report(d, {}, moment) IN r.expired # {} => r.permitted = {}

\* A route by which data leaves its region is a real route, and exactly the datasets at
\* the end of one are reported, in the list and in each dataset's own report.
RoutesAndPinsAgree ==
  /\ {<<Head(w), Last(w)>> : w \in TransferPaths} = ResidencyViolations
  /\ \A d \in estate.nodes : Report(d, {}, hour).residency = {w[1] : w \in {v \in ResidencyViolations : v[2] = d}}
  /\ \A w \in TransferPaths : \A i \in 1 .. Len(w) - 1 : w[i + 1] \in Children(estate, w[i])

-----------------------------------------------------------------------------
(***************************************************************************)
(* govern/licenses.py: the terms data comes under, combined along lineage. *)
(* A term is "no", "unknown" or "yes" (False, None and True).              *)
(***************************************************************************)

CONSTANTS Corpora,          \* the graphs, one per estate
          Licences          \* what parse_license may return, "unknown" among them

Permissions  == {"no", "unknown", "yes"}
LicenseInfos == [commercial : Permissions, derivatives : Permissions, shareAlike : BOOLEAN,
                 attribution : BOOLEAN, mining : Permissions]

ASSUME LicenceAssumption == Licences \subseteq LicenseInfos /\ \A g \in Corpora : IsLineage(g)

VARIABLES corpus, licensed
licenseVars == <<corpus, licensed>>

UnknownLicense == [commercial |-> "unknown", derivatives |-> "unknown", shareAlike |-> FALSE,
                   attribution |-> FALSE, mining |-> "unknown"]
LicenseIsUnknown(l) == l.commercial = "unknown" \/ l.derivatives = "unknown"

Strictest(terms) ==
  IF "no" \in terms THEN "no" ELSE IF "unknown" \in terms THEN "unknown" ELSE "yes"

CombineLicenses(ls) ==
  IF ls = {} THEN UnknownLicense
  ELSE [commercial  |-> Strictest({l.commercial : l \in ls}),
        derivatives |-> Strictest({l.derivatives : l \in ls}),
        shareAlike  |-> \E l \in ls : l.shareAlike,
        attribution |-> \E l \in ls : l.attribution,
        mining      |-> Strictest({l.mining : l \in ls})]

\* An unrecorded term of the target is not permission.
IsCompatible(source, target) ==
  /\ source.derivatives # "no"
  /\ source.commercial = "no" => target.commercial = "no"
  /\ source.shareAlike => target.shareAlike

PropagateLicenses == FoldDownstream(corpus, licensed, LAMBDA a, b : CombineLicenses({a, b}), UnknownLicense)

LicensedAbove(d)        == Closure(corpus, d) \cap DOMAIN licensed
EffectiveLicense(d)     == CombineLicenses({licensed[x] : x \in LicensedAbove(d)})
CommercialUseAllowed(d) == EffectiveLicense(d).commercial
TrainingPermitted(d)    == EffectiveLicense(d).mining
AttributionRequired(d)  == EffectiveLicense(d).attribution
AttributionManifest(d)  == {x \in LicensedAbove(d) : licensed[x].attribution}
Unlicensed == {d \in corpus.nodes : LicensedAbove(d) = {}}
RestrictiveSources(d) ==
  {x \in Ancestors(corpus, d) \cap DOMAIN licensed :
     licensed[x].commercial # "yes" \/ licensed[x].derivatives # "yes" \/ licensed[x].shareAlike}

\* The sources of a report are ancestors: the dataset's own licence is not one of them.
LicenseReport(d, commercially, alike) ==
  LET l == EffectiveLicense(d)  sources == Ancestors(corpus, d) \cap DOMAIN licensed
  IN  [blockers |-> (IF commercially /\ l.commercial = "no" THEN {"commercial"} ELSE {})
                      \cup (IF l.derivatives = "no" THEN {"derivatives"} ELSE {})
                      \cup (IF l.shareAlike /\ ~alike THEN {"share_alike"} ELSE {}),
       requiresReview |-> LicenseIsUnknown(l) \/ \E x \in sources : LicenseIsUnknown(licensed[x])]
LicenseIsClear(r)      == r.blockers = {} /\ ~r.requiresReview
LicenseViolations(used) == {d \in used : LicenseReport(d, TRUE, FALSE).blockers # {}}

LicenseInit == corpus \in Corpora /\ licensed = << >>
License(d, l) ==
  /\ licensed' = [x \in DOMAIN licensed \cup {d} |-> IF x = d THEN l ELSE licensed[x]]
  /\ UNCHANGED corpus
LicenseNext == \E d \in corpus.nodes, l \in Licences : License(d, l)

-----------------------------------------------------------------------------
AsStrict(a, b) == Strictest({a, b}) = a

\* A dataset reported clear can go into a work under its intended terms from every
\* licensed source above it, and no unknown, non-commercial or share-alike term was lost
\* on the way; neither a use nor training is permitted below where it was refused, and who
\* violates a licence passes the violation on; off the cycles the one-pass propagation is
\* never more permissive than the answer for one dataset, and is the same where every source
\* was licensed.
NoTermIsLost ==
  LET flow == PropagateLicenses IN
  \A d \in corpus.nodes :
    LET l == EffectiveLicense(d)
        target == [UnknownLicense EXCEPT !.commercial = "yes", !.derivatives = "yes"]
    IN  /\ LicenseIsClear(LicenseReport(d, TRUE, FALSE)) =>
             /\ \A x \in LicensedAbove(d) :
                  IsCompatible(licensed[x], target) /\ ~LicenseIsUnknown(licensed[x])
             /\ RestrictiveSources(d) = {} /\ d \notin Unlicensed
        /\ \A x \in LicensedAbove(d) : AsStrict(l.mining, licensed[x].mining)
        /\ \A a \in Ancestors(corpus, d) \ Unlicensed :
             /\ AsStrict(CommercialUseAllowed(d), CommercialUseAllowed(a))
             /\ AsStrict(TrainingPermitted(d), TrainingPermitted(a))
             /\ a \in LicenseViolations(corpus.nodes) => d \in LicenseViolations(corpus.nodes)
        /\ AttributionRequired(d) <=> AttributionManifest(d) # {}
        /\ ~Twisted(corpus, d) =>
             /\ AsStrict(flow[d].commercial, l.commercial) /\ AsStrict(flow[d].mining, l.mining)
             /\ Closure(corpus, d) \cap Origins(corpus) \subseteq DOMAIN licensed => flow[d] = l

\* What govern/licenses.py:65 says of a source nobody licensed: it "taints everything
\* downstream with a review requirement".
UnlicensedSourcesTaint ==
  \A d \in corpus.nodes : Closure(corpus, d) \cap Unlicensed # {} => LicenseReport(d, TRUE, FALSE).requiresReview
=============================================================================
