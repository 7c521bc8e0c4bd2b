---- MODULE AccessProfileProofs ----
(***************************************************************************)
(* Proofs about AccessProfile, for any profiles, users, groups, rules and  *)
(* requests: a rule takes its place by its sequence, a profile's changes   *)
(* reach only those it governs, and further profiles take nothing away.    *)
(***************************************************************************)
EXTENDS AccessProfile, FiniteSetTheorems, SequenceTheorems, TLAPS

\* What a profile is.
ProfileType == [exists : BOOLEAN, active : BOOLEAN, default : {"allow", "deny"},
                rules : BoundedSeq(Rule, MaxRules), granted : SUBSET (User \cup Group)]

----------------------------------------------------------------------------
(* Sequences of rules *)

\* Bounded sequences are the sequences of a bounded length.
LEMMA BoundedSequences ==
    BoundedSeq(Rule, MaxRules) = {s \in Seq(Rule) : Len(s) <= MaxRules}
<1>1. ASSUME NEW s \in BoundedSeq(Rule, MaxRules)
      PROVE  s \in Seq(Rule) /\ Len(s) <= MaxRules
    <2>1. PICK n \in 0 .. MaxRules : s \in [1 .. n -> Rule]
        BY DEF BoundedSeq, SeqOf
    <2>2. s \in Seq(Rule) /\ Len(s) = n
        BY <2>1, ConstantsAssumption, IsASeq, LenProperties
    <2> QED
        BY <2>1, <2>2, ConstantsAssumption
<1>2. ASSUME NEW s \in Seq(Rule), Len(s) <= MaxRules
      PROVE  s \in BoundedSeq(Rule, MaxRules)
    <2>1. Len(s) \in 0 .. MaxRules /\ s \in [1 .. Len(s) -> Rule]
        BY <1>2, ConstantsAssumption, LenProperties
    <2> QED
        BY <2>1 DEF BoundedSeq, SeqOf
<1> QED
    BY <1>1, <1>2

\* A sequence that is one rule shorter is a sequence of rules.
LEMMA Removed ==
    ASSUME NEW s \in BoundedSeq(Rule, MaxRules), NEW i \in DOMAIN s
    PROVE  RemoveAt(s, i) \in BoundedSeq(Rule, MaxRules)
<1>1. s \in Seq(Rule) /\ Len(s) <= MaxRules /\ Len(s) \in Nat /\ i \in 1 .. Len(s)
    BY BoundedSequences, LenProperties
<1>2. SubSeq(s, 1, i - 1) \in Seq(Rule) /\ Len(SubSeq(s, 1, i - 1)) = i - 1
    BY <1>1, SMT
<1>3. SubSeq(s, i + 1, Len(s)) \in Seq(Rule) /\ Len(SubSeq(s, i + 1, Len(s))) = Len(s) - i
    BY <1>1, SMT
<1>4. RemoveAt(s, i) \in Seq(Rule) /\ Len(RemoveAt(s, i)) = (i - 1) + (Len(s) - i)
    BY <1>2, <1>3, ConcatProperties DEF RemoveAt
<1> QED
    BY <1>1, <1>4, BoundedSequences, ConstantsAssumption

\* Where all profiles together have fewer rules than the bound, each has.
LEMMA ThereIsRoom ==
    ASSUME NEW p \in Profile, TypeOK,
           Cardinality({at \in Profile \X (1 .. MaxRules) :
                            at[2] \in DOMAIN profile[at[1]].rules}) < MaxRules
    PROVE  Len(profile[p].rules) < MaxRules
<1> DEFINE All == {at \in Profile \X (1 .. MaxRules) : at[2] \in DOMAIN profile[at[1]].rules}
           n == Len(profile[p].rules)
           f == [i \in 1 .. n |-> <<p, i>>]
<1>1. profile[p].rules \in Seq(Rule) /\ n \in Nat /\ n <= MaxRules
      /\ DOMAIN profile[p].rules = 1 .. n
    BY BoundedSequences, LenProperties DEF TypeOK
<1>2. IsFiniteSet(Profile \X (1 .. MaxRules))
    <2>1. 1 \in Int /\ MaxRules \in Int /\ IsFiniteSet(Profile)
        BY ConstantsAssumption
    <2>2. IsFiniteSet(1 .. MaxRules)
        BY <2>1, FS_Interval
    <2> QED
        BY <2>1, <2>2, FS_Product
<1>3. All \in SUBSET (Profile \X (1 .. MaxRules))
    OBVIOUS
<1>4. IsFiniteSet(All)
    BY <1>2, <1>3, FS_Subset
<1>5. f \in Injection(1 .. n, All)
    <2>1. \A i \in 1 .. n : <<p, i>> \in All
        BY <1>1, ConstantsAssumption
    <2> QED
        BY <2>1 DEF Injection, IsInjective
<1>6. Cardinality(1 .. n) <= Cardinality(All)
    BY <1>4, <1>5, FS_Injection
<1>7. Cardinality(1 .. n) = n
    <2>1. 1 \in Int /\ n \in Int /\ n \in Nat
        BY <1>1
    <2>2. Cardinality(1 .. n) = IF 1 > n THEN 0 ELSE n - 1 + 1
        BY <2>1, FS_Interval
    <2> QED
        BY <2>1, <2>2
<1>8. Cardinality(All) \in Nat
    BY <1>4, FS_CardinalityType
<1> QED
    BY <1>1, <1>6, <1>7, <1>8, ConstantsAssumption

----------------------------------------------------------------------------
(* Types *)

\* The type invariant's part about profiles, by the names used here.
LEMMA ProfilesTyped == TypeOK => profile \in [Profile -> ProfileType]
    BY DEF TypeOK, ProfileType

\* A step that leaves every profile one, and lists and keys only those that exist.
LEMMA Typed ==
    ASSUME profile' \in [Profile -> ProfileType],
           groups' \in [User -> SUBSET Group],
           listed' \subseteq {p \in Profile : profile'[p].exists},
           keyed' \in {p \in Profile : profile'[p].exists} \cup {None}
    PROVE  TypeOK'
    BY DEF TypeOK, Stored, ProfileType

\* One profile is changed and exists before and after: nothing else needs a look.
LEMMA TypedByOne ==
    ASSUME TypeOK, NEW p \in Profile, NEW k \in ProfileType,
           profile' = [profile EXCEPT ![p] = k],
           profile[p].exists => k.exists,
           UNCHANGED <<groups, listed, keyed>>
    PROVE  TypeOK'
<1>1. profile' \in [Profile -> ProfileType]
    BY ProfilesTyped
<1>2. \A o \in Profile : profile[o].exists => profile'[o].exists
    BY ProfilesTyped
<1> QED
    BY <1>1, <1>2, Typed DEF TypeOK, Stored

\* Administrators can only store what has its type.
LEMMA TypeNext == TypeOK /\ [Next]_vars => TypeOK'
<1> SUFFICES ASSUME TypeOK, [Next]_vars PROVE TypeOK'
    OBVIOUS
<1>1. \A p \in Profile : profile[p] \in ProfileType
    BY ProfilesTyped
<1>2. <<>> \in BoundedSeq(Rule, MaxRules)
    BY BoundedSequences, ConstantsAssumption, EmptySeq
<1>3. ASSUME NEW p \in Profile, Create(p) PROVE TypeOK'
    <2>1. PICK effect \in {"allow", "deny"} :
              profile' = [profile EXCEPT ![p] = [Absent EXCEPT !.exists = TRUE,
                                                 !.active = TRUE, !.default = effect]]
        BY <1>3 DEF Create
    <2>2. [Absent EXCEPT !.exists = TRUE, !.active = TRUE, !.default = effect]
              \in ProfileType
        BY <1>2 DEF Absent, ProfileType
    <2>3. [Absent EXCEPT !.exists = TRUE, !.active = TRUE, !.default = effect].exists
        BY DEF Absent
    <2> QED
        BY <1>3, <2>1, <2>2, <2>3, TypedByOne DEF Create
<1>4. ASSUME NEW p \in Profile, NEW rule \in Rule, AddRule(p, rule) PROVE TypeOK'
    <2>1. Len(profile[p].rules) < MaxRules
        BY <1>4, ThereIsRoom DEF AddRule
    <2>2. Append(profile[p].rules, rule) \in BoundedSeq(Rule, MaxRules)
        <3>1. profile[p].rules \in Seq(Rule)
            BY <1>1, BoundedSequences DEF ProfileType
        <3>2. /\ Append(profile[p].rules, rule) \in Seq(Rule)
              /\ Len(Append(profile[p].rules, rule)) = Len(profile[p].rules) + 1
              /\ Len(profile[p].rules) \in Nat
            BY <3>1, AppendProperties, LenProperties
        <3> QED
            BY <2>1, <3>2, BoundedSequences, ConstantsAssumption
    <2> DEFINE k == [profile[p] EXCEPT !.rules = Append(@, rule)]
    <2>3. k \in ProfileType /\ k.exists = profile[p].exists
        BY <1>1, <2>2 DEF ProfileType
    <2>4. profile' = [profile EXCEPT ![p] = k]
        BY <1>4 DEF AddRule
    <2> HIDE DEF k
    <2> QED
        BY <1>4, <2>3, <2>4, TypedByOne DEF AddRule
<1>5. ASSUME NEW p \in Profile, RemoveRule(p) PROVE TypeOK'
    <2>1. PICK i \in DOMAIN profile[p].rules :
              profile' = [profile EXCEPT ![p].rules = RemoveAt(@, i)]
        BY <1>5 DEF RemoveRule
    <2>2. RemoveAt(profile[p].rules, i) \in BoundedSeq(Rule, MaxRules)
        BY <1>1, Removed DEF ProfileType
    <2> DEFINE k == [profile[p] EXCEPT !.rules = RemoveAt(@, i)]
    <2>3. k \in ProfileType /\ k.exists = profile[p].exists
        BY <1>1, <2>2 DEF ProfileType
    <2>4. profile' = [profile EXCEPT ![p] = k]
        BY <2>1
    <2> HIDE DEF k
    <2> QED
        BY <1>5, <2>3, <2>4, TypedByOne DEF RemoveRule
<1>6. ASSUME NEW p \in Profile, NEW rule \in Rule, EditRule(p, rule) PROVE TypeOK'
    <2>1. PICK i \in DOMAIN profile[p].rules :
              profile' = [profile EXCEPT ![p].rules[i] = rule]
        BY <1>6 DEF EditRule
    <2>2. [profile[p].rules EXCEPT ![i] = rule] \in BoundedSeq(Rule, MaxRules)
        <3>1. profile[p].rules \in Seq(Rule) /\ Len(profile[p].rules) <= MaxRules
            BY <1>1, BoundedSequences DEF ProfileType
        <3>2. /\ [profile[p].rules EXCEPT ![i] = rule] \in Seq(Rule)
              /\ Len([profile[p].rules EXCEPT ![i] = rule]) = Len(profile[p].rules)
            BY <3>1, ExceptSeq, LenProperties
        <3> QED
            BY <3>1, <3>2, BoundedSequences
    <2> DEFINE k == [profile[p] EXCEPT !.rules[i] = rule]
    <2>3. k \in ProfileType /\ k.exists = profile[p].exists
        BY <1>1, <2>2 DEF ProfileType
    <2>4. profile' = [profile EXCEPT ![p] = k]
        BY <2>1
    <2> HIDE DEF k
    <2> QED
        BY <1>6, <2>3, <2>4, TypedByOne DEF EditRule
<1>7. ASSUME NEW p \in Profile, FlipDefault(p) PROVE TypeOK'
    <2> DEFINE k == [profile[p] EXCEPT !.default = IF @ = "allow" THEN "deny" ELSE "allow"]
    <2>1. k \in ProfileType /\ k.exists = profile[p].exists
        BY <1>1 DEF ProfileType
    <2>2. profile' = [profile EXCEPT ![p] = k]
        BY <1>7 DEF FlipDefault
    <2> HIDE DEF k
    <2> QED
        BY <1>7, <2>1, <2>2, TypedByOne DEF FlipDefault
<1>8. ASSUME NEW p \in Profile, Toggle(p) PROVE TypeOK'
    <2> DEFINE k == [profile[p] EXCEPT !.active = ~@]
    <2>1. k \in ProfileType /\ k.exists = profile[p].exists
        BY <1>1 DEF ProfileType
    <2>2. profile' = [profile EXCEPT ![p] = k]
        BY <1>8 DEF Toggle
    <2> HIDE DEF k
    <2> QED
        BY <1>8, <2>1, <2>2, TypedByOne DEF Toggle
<1>9. ASSUME NEW p \in Profile, NEW who \in User \cup Group, Grant(p, who) PROVE TypeOK'
    <2> DEFINE k == [profile[p] EXCEPT !.granted =
                         IF who \in @ THEN @ \ {who} ELSE @ \cup {who}]
    <2>1. k \in ProfileType /\ k.exists = profile[p].exists
        BY <1>1 DEF ProfileType
    <2>2. profile' = [profile EXCEPT ![p] = k]
        BY <1>9 DEF Grant
    <2> HIDE DEF k
    <2> QED
        BY <1>9, <2>1, <2>2, TypedByOne DEF Grant
<1>10. ASSUME NEW p \in Profile, Delete(p) PROVE TypeOK'
    <2>1. Absent \in ProfileType
        BY <1>2 DEF Absent, ProfileType
    <2>2. profile' \in [Profile -> ProfileType]
        BY <1>10, <2>1, ProfilesTyped DEF Delete
    <2>3. \A o \in Profile \ {p} : profile'[o] = profile[o]
        BY <1>10, ProfilesTyped DEF Delete
    <2>4. listed' = listed \ {p} /\ keyed' = keyed /\ keyed # p /\ groups' = groups
        BY <1>10 DEF Delete
    <2> QED
        BY <2>2, <2>3, <2>4, Typed DEF TypeOK, Stored
<1>11. ASSUME NEW u \in User, NEW g \in Group, Join(u, g) PROVE TypeOK'
    BY <1>11, Typed, ProfilesTyped DEF Join, TypeOK, Stored
<1>12. ASSUME NEW p \in Profile, List(p) \/ Scope(p) PROVE TypeOK'
    BY <1>12, Typed, ProfilesTyped DEF List, Scope, TypeOK, Stored
<1>13. CASE UNCHANGED vars
    BY <1>13 DEF vars, TypeOK, Stored
<1>14. CASE Unscope
    BY <1>14, Typed, ProfilesTyped DEF Unscope, TypeOK, Stored
<1> QED
    BY <1>3, <1>4, <1>5, <1>6, <1>7, <1>8, <1>9, <1>10, <1>11, <1>12, <1>13, <1>14
    DEF Next

\* Every state is typed: an endpoint's list and a key refer to profiles that exist,
\* since a deletion takes the one with it and is refused by the other.
THEOREM TypeCorrect == Spec => []TypeOK
<1>1. Init => TypeOK
    <2>1. <<>> \in BoundedSeq(Rule, MaxRules)
        BY BoundedSequences, ConstantsAssumption, EmptySeq
    <2> QED
        BY <2>1 DEF Init, TypeOK, Absent, Stored
<1> QED
    BY <1>1, TypeNext, PTL DEF Spec

----------------------------------------------------------------------------
(* A rule takes its place *)

\* Of a profile k and of what it becomes by a rule more: which rules match q.
OneMore(k, m, rule, q) ==
    /\ \A i \in Matching(k, q) : m.rules[i] = k.rules[i] /\ k.rules[i] \in Rule
    /\ Matches(rule, q) =>
           /\ Matching(m, q) = Matching(k, q) \cup {Len(k.rules) + 1}
           /\ m.rules[Len(k.rules) + 1] = rule
           /\ Len(k.rules) + 1 \notin Matching(k, q)
    /\ ~Matches(rule, q) => Matching(m, q) = Matching(k, q)

\* Appending a rule leaves the matching ones in their places and may add itself.
LEMMA AppendedRule ==
    ASSUME NEW k, NEW m, NEW rule \in Rule, NEW q,
           k.rules \in Seq(Rule), m.rules = Append(k.rules, rule)
    PROVE  OneMore(k, m, rule, q)
<1> DEFINE n == Len(k.rules)
<1>1. n \in Nat /\ DOMAIN k.rules = 1 .. n /\ \A i \in 1 .. n : k.rules[i] \in Rule
    BY LenProperties, ElementOfSeq
<1>2. /\ DOMAIN m.rules = 1 .. n + 1 /\ m.rules[n + 1] = rule
      /\ \A i \in 1 .. n : m.rules[i] = k.rules[i]
    <2>1. m.rules \in Seq(Rule) /\ Len(m.rules) = n + 1
        BY AppendProperties
    <2>2. m.rules[n + 1] = rule /\ \A i \in 1 .. n : m.rules[i] = k.rules[i]
        BY AppendProperties
    <2>3. DOMAIN m.rules = 1 .. Len(m.rules)
        BY <2>1, LenProperties
    <2> QED
        BY <2>1, <2>2, <2>3
<1>3. DOMAIN m.rules = DOMAIN k.rules \cup {n + 1} /\ n + 1 \notin DOMAIN k.rules
    BY <1>1, <1>2
<1>4. PICK new : new = n + 1
    OBVIOUS
<1>5. \A i \in DOMAIN k.rules : m.rules[i] = k.rules[i]
    BY <1>1, <1>2
<1>6. \A i \in Matching(k, q) : m.rules[i] = k.rules[i] /\ k.rules[i] \in Rule
    BY <1>1, <1>5 DEF Matching
<1>7. Matches(rule, q) =>
          /\ Matching(m, q) = Matching(k, q) \cup {new}
          /\ m.rules[new] = rule /\ new \notin Matching(k, q)
    BY <1>2, <1>3, <1>4, <1>5 DEF Matching
<1>8. ~Matches(rule, q) => Matching(m, q) = Matching(k, q)
    BY <1>2, <1>3, <1>4, <1>5 DEF Matching
<1> QED
    BY <1>4, <1>6, <1>7, <1>8 DEF OneMore

\* Rules are ordered by their sequences, which are numbers.
LEMMA SequencesAreNumbers == \A rule \in Rule : rule.sequence \in Int
    BY ConstantsAssumption

\* Those of a sequence's places that are first by the sequences of their rules.
First(r, them) == {i \in them : \A j \in them : r[i].sequence <= r[j].sequence}

\* A place that is later than one of the others is never first among them.
LEMMA LaterIsNotFirst ==
    ASSUME NEW r, NEW them, NEW f \in them, NEW n, n \notin them,
           \A i \in them \cup {n} : r[i].sequence \in Int, r[f].sequence < r[n].sequence
    PROVE  First(r, them \cup {n}) = First(r, them)
<1>1. \A i \in First(r, them \cup {n}) : i \in First(r, them)
    BY DEF First
<1>2. \A i \in First(r, them) : i \in First(r, them \cup {n})
    BY DEF First
<1> QED
    BY <1>1, <1>2

\* One that is earlier than all others is the only first.
LEMMA EarliestIsFirst ==
    ASSUME NEW r, NEW them, NEW n, n \notin them,
           \A i \in them \cup {n} : r[i].sequence \in Int,
           \A i \in them : r[n].sequence < r[i].sequence
    PROVE  First(r, them \cup {n}) = {n}
    BY DEF First

\* What the rules in some places say, what an effect means and what one rule says.
Verdicts(r, them) == {r[i].effect = "allow" : i \in them}

Meaning(effect) == {effect = "allow"}

Verdict(rule) == Meaning(rule.effect)

\* The same rules give the same verdicts.
LEMMA SameVerdicts ==
    ASSUME NEW r, NEW s, NEW them, \A i \in them : r[i] = s[i]
    PROVE  Verdicts(r, them) = Verdicts(s, them)
<1> DEFINE there == Verdicts(s, them)
           here == Verdicts(r, them)
<1>1. ASSUME NEW i \in them PROVE (r[i].effect = "allow") \in there
    <2>1. (s[i].effect = "allow") \in there
        BY Zenon DEF Verdicts
    <2> HIDE DEF there
    <2> QED
        BY <2>1, Zenon
<1>2. ASSUME NEW i \in them PROVE (s[i].effect = "allow") \in here
    <2>1. (r[i].effect = "allow") \in here
        BY Zenon DEF Verdicts
    <2> HIDE DEF here
    <2> QED
        BY <2>1, Zenon
<1>3. here \subseteq there
    <2> HIDE DEF there
    <2> QED
        BY <1>1, Zenon DEF Verdicts
<1>4. there \subseteq here
    <2> HIDE DEF here
    <2> QED
        BY <1>2, Zenon DEF Verdicts
<1> QED
    BY <1>3, <1>4, Zenon

\* One rule gives one verdict.
LEMMA OneVerdict ==
    ASSUME NEW r, NEW n, NEW e, r[n] = e
    PROVE  Verdicts(r, {n}) = Verdict(e)
    BY Zenon DEF Verdicts, Verdict, Meaning

\* Where some rule matches, those that are first among the matching ones decide, and
\* elsewhere the default does.
LEMMA FirstOnesDecide ==
    ASSUME NEW k, NEW q
    PROVE  /\ Matching(k, q) # {} =>
                Evaluate(k, q) = Verdicts(k.rules, First(k.rules, Matching(k, q)))
           /\ Matching(k, q) = {} => Evaluate(k, q) = Meaning(k.default)
<1>1. CASE Matching(k, q) # {}
    BY <1>1 DEF Evaluate, First, Verdicts
<1>2. CASE Matching(k, q) = {}
    BY <1>2, Zenon DEF Evaluate, Meaning
<1> QED
    BY <1>1, <1>2, Zenon

\* The appended rule decides whatever no earlier one matches.
LEMMA FirstDecides ==
    ASSUME NEW k, NEW m, NEW rule \in Rule, NEW q,
           k.rules \in Seq(Rule), m.rules = Append(k.rules, rule),
           Matches(rule, q),
           \A i \in Matching(k, q) : rule.sequence < k.rules[i].sequence
    PROVE  Evaluate(m, q) = Verdict(rule)
<1> DEFINE before == Matching(k, q)
           new == Len(k.rules) + 1
           r == m.rules
<1>1. OneMore(k, m, rule, q)
    BY AppendedRule
<1>2. /\ Matching(m, q) = before \cup {new} /\ r[new] = rule /\ new \notin before
      /\ \A i \in before : r[i] = k.rules[i] /\ k.rules[i] \in Rule
    BY <1>1 DEF OneMore
<1>3. \A i \in before : r[new].sequence < r[i].sequence
    BY <1>2
<1>4. \A i \in before \cup {new} : r[i].sequence \in Int
    BY <1>2, SequencesAreNumbers
<1>5. Matching(m, q) # {}
    BY <1>2
<1>6. Evaluate(m, q) = Verdicts(r, First(r, Matching(m, q)))
    BY <1>5, FirstOnesDecide, Zenon
<1> HIDE DEF before, new, r
<1>7. First(r, before \cup {new}) = {new}
    <2>1. new \notin before
        BY <1>2
    <2> QED
        BY <1>3, <1>4, <2>1, EarliestIsFirst
<1>8. First(r, Matching(m, q)) = {new}
    BY <1>2, <1>7
<1>9. Evaluate(m, q) = Verdicts(r, {new})
    BY <1>8, <1>6, Zenon
<1> QED
    BY <1>2, <1>9, OneVerdict, Zenon

\* It decides nothing that an earlier rule matches.
LEMMA LaterDoesNot ==
    ASSUME NEW k, NEW m, NEW rule \in Rule, NEW q,
           k.rules \in Seq(Rule), m.rules = Append(k.rules, rule),
           NEW f \in Matching(k, q), k.rules[f].sequence < rule.sequence
    PROVE  Evaluate(m, q) = Evaluate(k, q)
<1> DEFINE before == Matching(k, q)
           new == Len(k.rules) + 1
           r == m.rules
           s == k.rules
<1>1. OneMore(k, m, rule, q)
    BY AppendedRule
<1>2. /\ \A i \in before : r[i] = s[i] /\ s[i] \in Rule
      /\ Matches(rule, q) =>
             Matching(m, q) = before \cup {new} /\ r[new] = rule /\ new \notin before
      /\ ~Matches(rule, q) => Matching(m, q) = before
    BY <1>1 DEF OneMore
<1>3. f \in before /\ s[f].sequence < rule.sequence
    OBVIOUS
<1>4. Matching(m, q) # {} /\ before # {}
    BY <1>2, <1>3
<1>5. /\ Evaluate(m, q) = Verdicts(r, First(r, Matching(m, q)))
      /\ Evaluate(k, q) = Verdicts(s, First(s, before))
    BY <1>4, FirstOnesDecide, Zenon
<1> HIDE DEF before, new, r, s
<1>6. First(r, Matching(m, q)) = First(r, before)
    <2>1. CASE Matches(rule, q)
        <3>1. \A i \in before \cup {new} : r[i].sequence \in Int
            BY <1>2, <2>1, SequencesAreNumbers
        <3>2. f \in before /\ new \notin before /\ r[f].sequence < r[new].sequence
            BY <1>2, <1>3, <2>1
        <3>3. First(r, before \cup {new}) = First(r, before)
            BY <3>1, <3>2, LaterIsNotFirst
        <3> QED
            BY <1>2, <2>1, <3>3
    <2>2. CASE ~Matches(rule, q)
        BY <1>2, <2>2
    <2> QED
        BY <2>1, <2>2
<1>7. First(r, before) = First(s, before) /\ \A i \in First(s, before) : r[i] = s[i]
    BY <1>2 DEF First
<1>8. Evaluate(m, q) = Verdicts(r, First(s, before))
    BY <1>5, <1>6, <1>7, Zenon
<1>9. Verdicts(r, First(s, before)) = Verdicts(s, First(s, before))
    BY <1>7, SameVerdicts
<1> QED
    BY <1>5, <1>8, <1>9, Zenon

\* Whatever the rules, whenever they are written and whichever the profile: a new rule
\* decides by its sequence, not by when it was written.
THEOREM RuleTakesItsPlace == Spec => AddedRuleTakesItsPlace
<1> DEFINE Before(p, q) == {profile[p].rules[i].sequence : i \in Matching(profile[p], q)}
<1>1. ASSUME TypeOK, NEW p \in Profile, NEW rule \in Rule, NEW q \in Described,
             profile'[p].rules = Append(profile[p].rules, rule)
      PROVE  /\ Matches(rule, q) /\ (\A s \in Before(p, q) : rule.sequence < s) =>
                    Evaluate(profile'[p], q) = Verdict(rule)
             /\ (\E s \in Before(p, q) : s < rule.sequence) =>
                    Evaluate(profile'[p], q) = Evaluate(profile[p], q)
    <2>1. profile[p].rules \in Seq(Rule)
        BY <1>1, ProfilesTyped, BoundedSequences DEF ProfileType
    <2>2. ASSUME Matches(rule, q), \A s \in Before(p, q) : rule.sequence < s
          PROVE  Evaluate(profile'[p], q) = Verdict(rule)
        <3>1. \A i \in Matching(profile[p], q) : rule.sequence < profile[p].rules[i].sequence
            BY <2>2
        <3> DEFINE k == profile[p]
                   m == profile'[p]
        <3>2. /\ k.rules \in Seq(Rule) /\ m.rules = Append(k.rules, rule)
              /\ \A i \in Matching(k, q) : rule.sequence < k.rules[i].sequence
              /\ Matches(rule, q)
            BY <1>1, <2>1, <2>2, <3>1, Zenon
        <3> HIDE DEF k, m
        <3>3. Evaluate(m, q) = Verdict(rule)
            BY <3>2, FirstDecides
        <3> QED
            BY <3>3, Zenon DEF k, m
    <2>3. ASSUME NEW s \in Before(p, q), s < rule.sequence
          PROVE  Evaluate(profile'[p], q) = Evaluate(profile[p], q)
        <3>1. PICK f \in Matching(profile[p], q) : s = profile[p].rules[f].sequence
            BY <2>3
        <3>2. profile[p].rules[f].sequence < rule.sequence
            BY <2>3, <3>1
        <3> DEFINE k == profile[p]
                   m == profile'[p]
        <3>3. /\ k.rules \in Seq(Rule) /\ m.rules = Append(k.rules, rule)
              /\ f \in Matching(k, q) /\ k.rules[f].sequence < rule.sequence
            BY <1>1, <2>1, <3>1, <3>2, Zenon
        <3> HIDE DEF k, m
        <3>4. Evaluate(m, q) = Evaluate(k, q)
            BY <3>3, LaterDoesNot
        <3> QED
            BY <3>4, Zenon DEF k, m
    <2> QED
        BY <2>2, <2>3
<1>2. TypeOK =>
        [\A p \in Profile, rule \in Rule, q \in Described :
            profile'[p].rules = Append(profile[p].rules, rule) =>
                LET before == {profile[p].rules[i].sequence : i \in Matching(profile[p], q)}
                IN  /\ Matches(rule, q) /\ (\A s \in before : rule.sequence < s) =>
                           Evaluate(profile'[p], q) = {rule.effect = "allow"}
                    /\ (\E s \in before : s < rule.sequence) =>
                           Evaluate(profile'[p], q) = Evaluate(profile[p], q)]_vars
    BY <1>1 DEF Verdict, Meaning
<1> QED
    BY <1>2, TypeCorrect, PTL DEF AddedRuleTakesItsPlace

----------------------------------------------------------------------------
(* Whom a change reaches *)

\* A step that changes a profile changes nothing else, but for a deleted profile's
\* place on the endpoint's list.
LEMMA OneProfileChanges ==
    ASSUME TypeOK, [Next]_vars, NEW p \in Profile, profile'[p] # profile[p]
    PROVE  /\ \A o \in Profile \ {p} : profile'[o] = profile[o]
           /\ groups' = groups
           /\ listed' \ {p} = listed \ {p}
<1>1. profile \in [Profile -> ProfileType]
    BY ProfilesTyped
<1>2. profile' # profile
    OBVIOUS
<1>3. PICK o \in Profile :
          \/ Create(o) \/ RemoveRule(o) \/ FlipDefault(o) \/ Toggle(o) \/ Delete(o)
          \/ \E rule \in Rule : AddRule(o, rule) \/ EditRule(o, rule)
          \/ \E who \in User \cup Group : Grant(o, who)
    BY <1>2 DEF Next, vars, List, Scope, Unscope, Join
<1>4. /\ \A k \in Profile \ {o} : profile'[k] = profile[k]
      /\ groups' = groups
      /\ listed' = listed \/ listed' = listed \ {o}
    <2>1. CASE Create(o) \/ RemoveRule(o) \/ FlipDefault(o)
        BY <1>1, <2>1 DEF Create, RemoveRule, FlipDefault
    <2>2. CASE Toggle(o) \/ Delete(o)
        BY <1>1, <2>2 DEF Toggle, Delete
    <2>3. CASE \E rule \in Rule : AddRule(o, rule) \/ EditRule(o, rule)
        BY <1>1, <2>3 DEF AddRule, EditRule
    <2>4. CASE \E who \in User \cup Group : Grant(o, who)
        BY <1>1, <2>4 DEF Grant
    <2> QED
        BY <1>3, <2>1, <2>2, <2>3, <2>4
<1>5. o = p
    BY <1>4
<1> QED
    BY <1>4, <1>5

\* The decision of some profiles depends on these profiles alone.
LEMMA SameProfilesDecide ==
    ASSUME NEW ps \in SUBSET Profile, NEW q, \A o \in ps : profile'[o] = profile[o]
    PROVE  {b \in BOOLEAN : IF b THEN \E o \in ps : TRUE \in Evaluate(profile'[o], q)
                                 ELSE \A o \in ps : FALSE \in Evaluate(profile'[o], q)}
           = AnyOf(ps, q)
    BY DEF AnyOf

\* However a profile is edited, archived or deleted: a user whom it governs neither
\* before nor after gets the same answers, from the dispatcher and, as long as the
\* endpoint's list stays open or closed, from the endpoint.
THEOREM OnlyTheGoverned == Spec => OnlyThoseItGoverns
<1>1. ASSUME TypeOK, [Next]_vars, NEW p \in Profile, NEW u \in User,
             profile'[p] # profile[p],
             ~(profile[p].granted \cap ({u} \cup groups[u]) # {} /\ profile[p].active),
             ~(profile'[p].granted \cap ({u} \cup groups[u]) # {} /\ profile'[p].active)
      PROVE  /\ \A q \in Described : CheckRequestAccess(u, q)' = CheckRequestAccess(u, q)
             /\ (Listed = {}) = (Listed = {})' => CheckRestAccess(u)' = CheckRestAccess(u)
    <2>1. /\ \A o \in Profile \ {p} : profile'[o] = profile[o]
          /\ groups' = groups /\ listed' \ {p} = listed \ {p}
        BY <1>1, OneProfileChanges
    <2>2. p \notin Applicable(u) /\ p \notin Applicable(u)'
        BY <1>1, <2>1 DEF Applicable
    <2>3. Applicable(u)' = Applicable(u)
        <3>1. \A o \in Profile \ {p} : o \in Applicable(u)' <=> o \in Applicable(u)
            BY <2>1 DEF Applicable, Stored
        <3>2. Applicable(u) \subseteq Profile /\ Applicable(u)' \subseteq Profile
            BY DEF Applicable, Stored
        <3> QED
            BY <2>2, <3>1, <3>2
    <2>4. \A ps \in SUBSET Applicable(u) : \A q : AnyOf(ps, q)' = AnyOf(ps, q)
        <3>1. ASSUME NEW ps \in SUBSET Applicable(u), NEW q
              PROVE  AnyOf(ps, q)' = AnyOf(ps, q)
            <4>1. ps \in SUBSET Profile /\ \A o \in ps : profile'[o] = profile[o]
                BY <2>1, <2>2 DEF Applicable, Stored
            <4> QED
                BY <4>1, SameProfilesDecide DEF AnyOf
        <3> QED
            BY <3>1
    <2>5. \A q \in Described : CheckRequestAccess(u, q)' = CheckRequestAccess(u, q)
        BY <2>3, <2>4 DEF CheckRequestAccess
    <2>6. ASSUME (Listed = {}) = (Listed = {})'
          PROVE  CheckRestAccess(u)' = CheckRestAccess(u)
        <3>1. Listed' \cap Applicable(u)' = Listed \cap Applicable(u)
            <4>1. \A o \in Profile \ {p} : o \in Listed' <=> o \in Listed
                BY <2>1 DEF Listed
            <4>2. Applicable(u) \subseteq Profile \ {p}
                BY <2>2 DEF Applicable, Stored
            <4> QED
                BY <2>3, <4>1, <4>2
        <3> QED
            BY <2>4, <2>6, <3>1 DEF CheckRestAccess
    <2> QED
        BY <2>5, <2>6
<1>2. TypeOK /\ [Next]_vars =>
        [\A p \in Profile, u \in User :
            /\ profile'[p] # profile[p]
            /\ ~(profile[p].granted \cap ({u} \cup groups[u]) # {} /\ profile[p].active)
            /\ ~(profile'[p].granted \cap ({u} \cup groups[u]) # {} /\ profile'[p].active)
            => /\ \A q \in Described : CheckRequestAccess(u, q)' = CheckRequestAccess(u, q)
               /\ (Listed = {}) = (Listed = {})' =>
                      CheckRestAccess(u)' = CheckRestAccess(u)]_vars
    BY <1>1
<1> QED
    BY <1>2, TypeCorrect, PTL DEF Spec, OnlyThoseItGoverns

\* The rules and the default of a profile are all that its decisions depend on.
LEMMA SameRulesDecide ==
    ASSUME NEW k, NEW m, NEW q, m.rules = k.rules, m.default = k.default
    PROVE  Evaluate(m, q) = Evaluate(k, q)
<1>1. Matching(m, q) = Matching(k, q)
    BY DEF Matching
<1>2. CASE Matching(k, q) = {}
    <2>1. Evaluate(k, q) = Meaning(k.default)
        BY <1>2, FirstOnesDecide, Zenon
    <2>2. Evaluate(m, q) = Meaning(m.default)
        BY <1>1, <1>2, FirstOnesDecide, Zenon
    <2> QED
        BY <2>1, <2>2
<1>3. CASE Matching(k, q) # {}
    <2>1. Evaluate(k, q) = Verdicts(k.rules, First(k.rules, Matching(k, q)))
        BY <1>3, FirstOnesDecide, Zenon
    <2>2. Evaluate(m, q) = Verdicts(m.rules, First(m.rules, Matching(m, q)))
        BY <1>1, <1>3, FirstOnesDecide, Zenon
    <2> QED
        BY <1>1, <2>1, <2>2
<1> QED
    BY <1>2, <1>3, Zenon

\* Further profiles take nothing away from a user whom one governs, and fewer give
\* nothing as long as one is left: the dispatcher asks whether any of them allows.
THEOREM MoreNeverNarrow == Spec => MoreProfilesNeverNarrow
<1>1. ASSUME NEW u \in User, NEW q \in Described,
             \A p \in Profile : /\ profile'[p].rules = profile[p].rules
                                /\ profile'[p].default = profile[p].default,
             Applicable(u) # {}, Applicable(u) \subseteq Applicable(u)',
             TRUE \in CheckRequestAccess(u, q)
      PROVE  TRUE \in CheckRequestAccess(u, q)'
    <2>1. PICK p \in Applicable(u) : TRUE \in Evaluate(profile[p], q)
        BY <1>1 DEF CheckRequestAccess, AnyOf
    <2>2. p \in Profile /\ p \in Applicable(u)'
        BY <1>1 DEF Applicable, Stored
    <2>3. Evaluate(profile'[p], q) = Evaluate(profile[p], q)
        BY <1>1, <2>2, SameRulesDecide
    <2> QED
        BY <2>1, <2>2, <2>3 DEF CheckRequestAccess, AnyOf
<1>2. [\A u \in User, q \in Described :
        /\ \A p \in Profile : profile'[p].rules = profile[p].rules
                           /\ profile'[p].default = profile[p].default
        /\ Applicable(u) # {} /\ Applicable(u) \subseteq Applicable(u)'
        => (TRUE \in CheckRequestAccess(u, q) => TRUE \in CheckRequestAccess(u, q)')]_vars
    BY <1>1
<1> QED
    BY <1>2, PTL DEF MoreProfilesNeverNarrow

====
