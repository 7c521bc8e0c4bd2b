---- MODULE AccessProfile ----
(***************************************************************************)
(* The access profiles: their rules, whom they govern, and what they let   *)
(* through. The dispatcher asks them about every ssi_rest request; a       *)
(* custom endpoint asks those on its own list once more, with its own path *)
(* and its own model. The actions are what administrators save, one write  *)
(* at a time; the decisions are functions of what is stored.               *)
(***************************************************************************)
EXTENDS Integers, Sequences, FiniteSets, SequencesExt

CONSTANTS
    Profile,    \* the profiles that may be created
    User, Group,
    Rule,       \* the rules administrators write
    Described,  \* the requests as the dispatcher describes them
    Endpoint,   \* a custom endpoint's call as the endpoint describes it
    MaxRules,   \* bound: rules of all profiles together
    Every,      \* an empty pattern or list of methods
    None

\* A pattern stands for the set of paths or models that it matches.
ASSUME ConstantsAssumption ==
    /\ \A rule \in Rule :
        /\ rule.sequence \in Int
        /\ rule.effect \in {"allow", "deny"}
        /\ rule.invert \in BOOLEAN
    /\ MaxRules \in Nat /\ IsFiniteSet(Profile)
    /\ User \cap Group = {} /\ None \notin Profile

VARIABLES
    profile,    \* the stored profiles; rules in the order of their creation
    groups,     \* groups[u]: u's groups, implied ones included
    listed,     \* the endpoint's profile_ids
    keyed       \* the profile of an API key, None while there is no key

vars == <<profile, groups, listed, keyed>>

Absent == [exists |-> FALSE, active |-> FALSE, default |-> "deny", rules |-> <<>>,
           granted |-> {}]

Init ==
    /\ profile = [p \in Profile |-> Absent]
    /\ groups = [u \in User |-> {}]
    /\ listed = {}
    /\ keyed = None

Stored == {p \in Profile : profile[p].exists}

----------------------------------------------------------------------------
(* Decisions *)

\* _matches_request: every criterion that is filled in must match, and invert
\* turns the path's alone, an empty path's too.
Matches(rule, q) ==
    /\ (rule.paths = Every \/ q.path \in rule.paths) # rule.invert
    /\ rule.methods = Every \/ q.method \in rule.methods
    /\ rule.models = Every \/ q.model \in rule.models
    /\ rule.operation \in {"any", q.operation}

Matching(k, q) == {i \in DOMAIN k.rules : Matches(k.rules[i], q)}

\* Faulty: the first rule in the order of creation.
EvaluateUnsorted(k, q) ==
    IF Matching(k, q) = {}
    THEN {k.default = "allow"}
    ELSE {k.rules[CHOOSE i \in Matching(k, q) :
                      \A j \in Matching(k, q) : i <= j].effect = "allow"}

\* _evaluate_request, as the set of its possible results: the first match by
\* sequence decides. The database orders rules of one sequence as it likes.
Evaluate(k, q) ==
    IF Matching(k, q) = {}
    THEN {k.default = "allow"}
    ELSE {k.rules[i].effect = "allow" :
            i \in {i \in Matching(k, q) : \A j \in Matching(k, q) :
                       k.rules[i].sequence <= k.rules[j].sequence}}

\* Faulty: profiles of every group.
ApplicableThroughAnyGroup(u) ==
    {p \in Stored : profile[p].active /\ profile[p].granted \cap ({u} \cup Group) # {}}

\* _get_applicable_profiles: active, and granted to u or to one of u's groups.
Applicable(u) ==
    {p \in Stored : profile[p].active /\ profile[p].granted \cap ({u} \cup groups[u]) # {}}

\* any() over the profiles, as the set of its possible results.
AnyOf(ps, q) ==
    {b \in BOOLEAN :
        IF b THEN \E p \in ps : TRUE \in Evaluate(profile[p], q)
             ELSE \A p \in ps : FALSE \in Evaluate(profile[p], q)}

\* Faulty: all of them must allow.
CheckRequestAccessOfAll(u, q) ==
    IF Applicable(u) = {} THEN {TRUE}
    ELSE {b \in BOOLEAN :
            IF b THEN \A p \in Applicable(u) : TRUE \in Evaluate(profile[p], q)
                 ELSE \E p \in Applicable(u) : FALSE \in Evaluate(profile[p], q)}

\* _check_request_access: no profile at all is no restriction.
CheckRequestAccess(u, q) ==
    IF Applicable(u) = {} THEN {TRUE} ELSE AnyOf(Applicable(u), q)

\* The endpoint's profile_ids as its record reads them: archived ones are hidden.
Listed == {p \in listed : profile[p].active}

\* _check_rest_access: an empty list is no restriction, otherwise one that is
\* listed and applies to u must allow the call, by the endpoint's own path.
CheckRestAccess(u) ==
    IF Listed = {} THEN {TRUE} ELSE AnyOf(Listed \cap Applicable(u), Endpoint)

----------------------------------------------------------------------------
(* Administration *)

Create(p) ==
    /\ ~profile[p].exists
    /\ \E effect \in {"allow", "deny"} :
        profile' = [profile EXCEPT ![p] = [Absent EXCEPT !.exists = TRUE, !.active = TRUE,
                                                         !.default = effect]]
    /\ UNCHANGED <<groups, listed, keyed>>

AddRule(p, rule) ==
    /\ profile[p].exists
    /\ Cardinality({at \in Profile \X (1 .. MaxRules) : at[2] \in DOMAIN profile[at[1]].rules})
           < MaxRules
    /\ ~Contains(profile[p].rules, rule)
    /\ profile' = [profile EXCEPT ![p].rules = Append(@, rule)]
    /\ UNCHANGED <<groups, listed, keyed>>

RemoveRule(p) ==
    /\ \E i \in DOMAIN profile[p].rules :
        profile' = [profile EXCEPT ![p].rules = RemoveAt(@, i)]
    /\ UNCHANGED <<groups, listed, keyed>>

\* Another sequence, effect or criterion for a rule; its creation order stays.
EditRule(p, rule) ==
    /\ ~Contains(profile[p].rules, rule)
    /\ \E i \in DOMAIN profile[p].rules : profile' = [profile EXCEPT ![p].rules[i] = rule]
    /\ UNCHANGED <<groups, listed, keyed>>

\* default_effect is changed.
FlipDefault(p) ==
    /\ profile[p].exists
    /\ profile' = [profile EXCEPT ![p].default = IF @ = "allow" THEN "deny" ELSE "allow"]
    /\ UNCHANGED <<groups, listed, keyed>>

\* Archived or restored.
Toggle(p) ==
    /\ profile[p].exists
    /\ profile' = [profile EXCEPT ![p].active = ~@]
    /\ UNCHANGED <<groups, listed, keyed>>

\* user_ids and group_ids.
Grant(p, who) ==
    /\ profile[p].exists
    /\ profile' = [profile EXCEPT ![p].granted =
                       IF who \in @ THEN @ \ {who} ELSE @ \cup {who}]
    /\ UNCHANGED <<groups, listed, keyed>>

\* Faulty: the key's reference is left dangling.
DeleteRegardless(p) ==
    /\ profile[p].exists
    /\ profile' = [profile EXCEPT ![p] = Absent]
    /\ listed' = listed \ {p}
    /\ UNCHANGED <<groups, keyed>>

\* Its rules and its place on lists go with it; a key's profile is restricted.
Delete(p) ==
    /\ profile[p].exists /\ keyed # p
    /\ profile' = [profile EXCEPT ![p] = Absent]
    /\ listed' = listed \ {p}
    /\ UNCHANGED <<groups, keyed>>

Join(u, g) ==
    /\ groups' = [groups EXCEPT ![u] = IF g \in @ THEN @ \ {g} ELSE @ \cup {g}]
    /\ UNCHANGED <<profile, listed, keyed>>

List(p) ==
    /\ profile[p].exists
    /\ listed' = IF p \in listed THEN listed \ {p} ELSE listed \cup {p}
    /\ UNCHANGED <<profile, groups, keyed>>

\* A key is created with p, or saved with it; profile_id is required.
Scope(p) ==
    /\ profile[p].exists /\ keyed # p
    /\ keyed' = p
    /\ UNCHANGED <<profile, groups, listed>>

\* The key is deleted.
Unscope ==
    /\ keyed # None
    /\ keyed' = None
    /\ UNCHANGED <<profile, groups, listed>>

Next ==
    \/ \E p \in Profile :
        \/ Create(p) \/ RemoveRule(p) \/ FlipDefault(p) \/ Toggle(p) \/ Delete(p)
        \/ List(p) \/ Scope(p)
        \/ \E rule \in Rule : AddRule(p, rule) \/ EditRule(p, rule)
        \/ \E who \in User \cup Group : Grant(p, who)
    \/ \E u \in User, g \in Group : Join(u, g)
    \/ Unscope

Spec == Init /\ [][Next]_vars

----------------------------------------------------------------------------
(* Properties *)

TypeOK ==
    /\ profile \in [Profile -> [exists : BOOLEAN, active : BOOLEAN,
                                default : {"allow", "deny"},
                                rules : BoundedSeq(Rule, MaxRules),
                                granted : SUBSET (User \cup Group)]]
    /\ groups \in [User -> SUBSET Group]
    /\ listed \subseteq Stored
    /\ keyed \in Stored \cup {None}

\* A rule takes its place by its sequence whenever it is written: it decides what
\* no earlier rule of the profile matches, and nothing that one of them does.
AddedRuleTakesItsPlace ==
    [][\A p \in Profile, rule \in Rule, q \in Described :
        profile'[p].rules = Append(profile[p].rules, rule) =>
            LET before == {profile[p].rules[i].sequence : i \in Matching(profile[p], q)}
            IN  /\ Matches(rule, q) /\ (\A s \in before : rule.sequence < s) =>
                       Evaluate(profile'[p], q) = {rule.effect = "allow"}
                /\ (\E s \in before : s < rule.sequence) =>
                       Evaluate(profile'[p], q) = Evaluate(profile[p], q)]_vars

Governs(p, u) == p \in Applicable(u)

\* Whatever is done to one profile changes nothing for a user whom it governs
\* neither before nor after: no ssi_rest request, and no call of the endpoint
\* unless the endpoint's list opens or closes with it.
OnlyThoseItGoverns ==
    [][\A p \in Profile, u \in User :
        /\ profile'[p] # profile[p]
        /\ ~(profile[p].granted \cap ({u} \cup groups[u]) # {} /\ profile[p].active)
        /\ ~(profile'[p].granted \cap ({u} \cup groups[u]) # {} /\ profile'[p].active)
        => /\ \A q \in Described : CheckRequestAccess(u, q)' = CheckRequestAccess(u, q)
           /\ (Listed = {}) = (Listed = {})' =>
                  CheckRestAccess(u)' = CheckRestAccess(u)]_vars

\* A user whom some profile governs loses nothing by being governed by more, and
\* gains nothing by being governed by fewer as long as one is left.
MoreProfilesNeverNarrow ==
    [][\A u \in User, q \in Described :
        /\ \A p \in Profile : profile'[p].rules = profile[p].rules
                           /\ profile'[p].default = profile[p].default
        /\ Applicable(u) # {} /\ Applicable(u) \subseteq Applicable(u)'
        => (TRUE \in CheckRequestAccess(u, q) => TRUE \in CheckRequestAccess(u, q)')]_vars

\* The help of the key's profile_id: "A request authenticated with this key only
\* ever carries this single profile -- never the union of every profile user_id
\* might otherwise qualify for".
KeyCarriesItsProfile ==
    \A u \in User, q \in Described :
        keyed # None /\ CheckRequestAccess(u, q) = {TRUE} =>
            TRUE \in Evaluate(profile[keyed], q)

====
