---- MODULE AuthenticationProofs ----
(***************************************************************************)
(* Proofs about Authentication, for any installed schemes, restrictions of *)
(* routes and users: who a request is taken for, and why it is refused, is *)
(* decided by the set of the credentials it carries. And about             *)
(* SchemeCache, where its schemes come from, for any number of threads and *)
(* schemes: the list a request is given is current, unless it was read     *)
(* beside a change made in the same process or from a replica that lags.   *)
(***************************************************************************)
EXTENDS Authentication, SchemeCache, FilteringFacts, FiniteSetTheorems

----------------------------------------------------------------------------
(* The inductive invariant *)

\* The candidates that were asked so far.
Asked == {Candidates[i] : i \in 1 .. asked}

\* What is extracted are the credentials of those that were asked, each once.
ExtractedOfAsked ==
    /\ ToSet(extracted) = {c \in Asked : Extract(c, headers) = "credential"}
    /\ Distinct(extracted)

NobodyIsVouchedFor == verified = {} /\ user = session

\* No candidate asked so far ended the request.
NoErrorSoFar == \A c \in Asked : Extract(c, headers) \notin ExtractError

\* One candidate ended the request when it was asked.
EndedByAsked ==
    /\ answer \in ExtractError /\ NobodyIsVouchedFor
    /\ \E c \in Asked : Extract(c, headers) = answer

\* All were asked, and the one that found a credential, if it was one, verified it.
EndedByAll ==
    /\ asked = Len(Candidates) /\ NoErrorSoFar
    /\ \/ answer = "multiple_credentials" /\ Len(extracted) > 1 /\ NobodyIsVouchedFor
       \/ answer = "authentication_required" /\ extracted = <<>> /\ NobodyIsVouchedFor
       \/ /\ Len(extracted) = 1 /\ verified = {extracted[1]}
          /\ \/ answer = "authenticated"
             \/ answer \in {"invalid_credential", "internal_error"} /\ user = session

AuthInv ==
    /\ AuthTypeOK
    /\ Distinct(schemes)
    /\ ExtractedOfAsked
    /\ \/ answer = "none" /\ NobodyIsVouchedFor /\ NoErrorSoFar
       \/ EndedByAsked
       \/ EndedByAll

----------------------------------------------------------------------------
(* The providers and the candidates *)

\* Only the Basic scheme ends a request while it extracts.
LEMMA ExtractTyped ==
    ASSUME NEW c \in Provider, NEW h \in Headers
    PROVE  /\ Extract(c, h) \in {"none", "credential"} \cup ExtractError
           /\ Extract(c, h) \in ExtractError => c = "basic"
BY DEF Provider, Headers, Authorization, ApiKeyHeader, Extract, ExtractBasic, ExtractBearer,
       ExtractApiKey, ExtractJwt, ExtractOauth2, ExtractError, BearerToken

\* There are five providers, and no more schemes.
LEMMA CodeIsFinite == IsFiniteSet(Code)
<1>1. /\ IsFiniteSet({"basic"}) /\ IsFiniteSet({"bearer"}) /\ IsFiniteSet({"apikey"})
      /\ IsFiniteSet({"jwt"}) /\ IsFiniteSet({"oauth2"})
    BY FS_Singleton
<1>2. IsFiniteSet({"basic"} \cup {"bearer"})
    BY <1>1, FS_Union
<1>3. IsFiniteSet({"basic"} \cup {"bearer"} \cup {"apikey"})
    BY <1>1, <1>2, FS_Union
<1>4. IsFiniteSet({"basic"} \cup {"bearer"} \cup {"apikey"} \cup {"jwt"})
    BY <1>1, <1>3, FS_Union
<1>5. IsFiniteSet({"basic"} \cup {"bearer"} \cup {"apikey"} \cup {"jwt"} \cup {"oauth2"})
    BY <1>1, <1>4, FS_Union
<1>6. Provider = {"basic"} \cup {"bearer"} \cup {"apikey"} \cup {"jwt"} \cup {"oauth2"}
    BY DEF Provider
<1>7. Code \subseteq Provider
    BY AuthAssumption
<1>8. IsFiniteSet(Provider)
    BY <1>5, <1>6, Zenon
<1> QED
    BY <1>7, <1>8, FS_Subset

\* The candidates are the active schemes the route accepts, each once.
LEMMA CandidatesProperties ==
    ASSUME schemes \in Seq(Code), Distinct(schemes)
    PROVE  /\ Candidates \in Seq(Code)
           /\ Len(Candidates) \in Nat /\ DOMAIN Candidates = 1 .. Len(Candidates)
           /\ ToSet(Candidates) = {c \in ToSet(schemes) : allowed = {} \/ c \in allowed}
           /\ Distinct(Candidates)
<1>1. CASE allowed = {}
    <2>1. Candidates = schemes
        BY <1>1 DEF Candidates
    <2> QED
        BY <1>1, <2>1, LenProperties
<1>2. CASE allowed # {}
    <2>1. Candidates = Kept(schemes, allowed)
        BY <1>2 DEF Candidates
    <2>2. /\ Candidates \in Seq(Code)
          /\ ToSet(Candidates) = ToSet(schemes) \cap allowed
          /\ Distinct(Candidates)
        BY <2>1, KeptProperties
    <2> QED
        BY <1>2, <2>2, LenProperties
<1> QED
    BY <1>1, <1>2

\* A scheme that is asked is not one that was.
LEMMA AskedAnew ==
    ASSUME schemes \in Seq(Code), Distinct(schemes), asked \in Nat, asked < Len(Candidates)
    PROVE  /\ Candidates[asked + 1] \in Code
           /\ Candidates[asked + 1] \notin Asked
           /\ {Candidates[i] : i \in 1 .. asked + 1} = Asked \cup {Candidates[asked + 1]}
<1>1. Candidates \in Seq(Code) /\ Len(Candidates) \in Nat /\ Distinct(Candidates)
    BY CandidatesProperties
<1>2. asked + 1 \in 1 .. Len(Candidates)
    BY <1>1
<1>3. Candidates[asked + 1] \in Code
    BY <1>1, <1>2, ElementOfSeq
<1>4. \A i \in 1 .. asked : i \in 1 .. Len(Candidates) /\ i # asked + 1
    BY <1>1
<1>5. Candidates[asked + 1] \notin Asked
    BY <1>1, <1>2, <1>4 DEF Asked, Distinct
<1>6. \A i \in 1 .. asked + 1 : i = asked + 1 \/ i \in 1 .. asked
    BY BelowNext
<1>7. asked + 1 \in 1 .. asked + 1 /\ \A i \in 1 .. asked : i \in 1 .. asked + 1
    OBVIOUS
<1>8. {Candidates[i] : i \in 1 .. asked + 1} = Asked \cup {Candidates[asked + 1]}
    BY <1>6, <1>7 DEF Asked
<1> QED
    BY <1>3, <1>5, <1>8

\* Once all were asked, what was extracted is what the request carries.
LEMMA AllAsked ==
    ASSUME AuthInv, asked = Len(Candidates)
    PROVE  Asked = ToSet(Candidates) /\ ToSet(extracted) = Carried
<1>1. schemes \in Seq(Code) /\ Distinct(schemes)
    BY DEF AuthInv, AuthTypeOK
<1>2. /\ DOMAIN Candidates = 1 .. Len(Candidates)
      /\ ToSet(Candidates) = {c \in ToSet(schemes) : allowed = {} \/ c \in allowed}
    BY <1>1, CandidatesProperties
<1>3. Asked = ToSet(Candidates)
    BY <1>2 DEF Asked, ToSet
<1> QED
    BY <1>2, <1>3 DEF AuthInv, ExtractedOfAsked, Carried

----------------------------------------------------------------------------
(* The invariant holds at first, and every step keeps it *)

\* Before anybody was asked.
LEMMA AuthInvInit == AuthInit => AuthInv
<1> SUFFICES ASSUME AuthInit PROVE AuthInv
    OBVIOUS
<1>1. PICK codes \in SUBSET Code : schemes \in SetToSeqs(codes)
    BY DEF AuthInit
<1>2. Cardinality(codes) \in Nat
    <2>1. IsFiniteSet(codes)
        BY CodeIsFinite, FS_Subset
    <2> QED
        BY <2>1, FS_CardinalityType
<1>3. /\ schemes \in [1 .. Cardinality(codes) -> codes]
      /\ \A i, j \in 1 .. Cardinality(codes) : i # j => schemes[i] # schemes[j]
    BY <1>1 DEF SetToSeqs
<1>4. schemes \in Seq(Code) /\ Len(schemes) = Cardinality(codes)
    BY <1>2, <1>3
<1>5. Distinct(schemes)
    BY <1>3, <1>4 DEF Distinct
<1>6. Len(Candidates) \in Nat
    BY <1>4, <1>5, CandidatesProperties
<1>7. AuthTypeOK
    BY <1>4, <1>6, AuthAssumption DEF AuthInit, AuthTypeOK
<1>8. Asked = {} /\ extracted = <<>>
    BY DEF Asked, AuthInit
<1>9. ExtractedOfAsked
    <2>1. ToSet(<<>>) = {} /\ Distinct(<<>>)
        BY DEF ToSet, Distinct
    <2> QED
        BY <1>8, <2>1, Zenon DEF ExtractedOfAsked
<1>10. answer = "none" /\ NobodyIsVouchedFor /\ NoErrorSoFar
    BY <1>8 DEF AuthInit, NobodyIsVouchedFor, NoErrorSoFar
<1> QED
    BY <1>5, <1>7, <1>9, <1>10 DEF AuthInv

\* A step that changes neither the schemes nor the route leaves the candidates.
LEMMA CandidatesStay ==
    ASSUME UNCHANGED <<schemes, allowed>>
    PROVE  Candidates' = Candidates
BY DEF Candidates

\* The next candidate is asked: its credential, its error or nothing is recorded.
LEMMA ExtractNextKeeps ==
    ASSUME AuthInv, ExtractNext
    PROVE  AuthInv'
<1> DEFINE c == Candidates[asked + 1]
<1>1. /\ schemes \in Seq(Code) /\ Distinct(schemes) /\ headers \in Headers
      /\ extracted \in Seq(Code) /\ verified \subseteq Code /\ {user, session} \subseteq User \cup {Public}
      /\ allowed \subseteq Provider
    BY DEF AuthInv, AuthTypeOK
<1>2. /\ answer = "none" /\ asked < Len(Candidates) /\ asked' = asked + 1
      /\ UNCHANGED <<schemes, allowed, headers, session, verified, user>>
    BY DEF ExtractNext, Fail
<1>3. \/ /\ Extract(c, headers) \in ExtractError
         /\ answer' = Extract(c, headers) /\ extracted' = extracted
      \/ /\ Extract(c, headers) = "credential"
         /\ extracted' = Append(extracted, c) /\ answer' = answer
      \/ Extract(c, headers) = "none" /\ UNCHANGED <<extracted, answer>>
    BY <1>2 DEF ExtractNext, Fail
<1>4. Candidates' = Candidates
    BY <1>2, CandidatesStay
<1>5. Len(Candidates) \in Nat /\ asked \in Nat
    BY <1>1, CandidatesProperties DEF AuthInv, AuthTypeOK
<1>6. c \in Code /\ c \notin Asked /\ Asked' = Asked \cup {c}
    BY <1>1, <1>2, <1>4, <1>5, AskedAnew DEF Asked
<1>7. NobodyIsVouchedFor /\ NoErrorSoFar /\ ExtractedOfAsked
    BY <1>2 DEF AuthInv, EndedByAsked, EndedByAll, ExtractError
<1> HIDE DEF c
<1>8. NobodyIsVouchedFor'
    BY <1>2, <1>7 DEF NobodyIsVouchedFor
<1>9. Distinct(schemes)'
    BY <1>1, <1>2
<1>10. AuthTypeOK'
    <2>1. extracted' \in Seq(Code)
        BY <1>1, <1>3, <1>6, AppendProperties
    <2>2. answer' \in {"none", "malformed_credential", "internal_error"}
        BY <1>2, <1>3 DEF ExtractError
    <2>3. asked' \in 0 .. Len(Candidates')
        BY <1>2, <1>4, <1>5
    <2> QED
        BY <1>1, <1>2, <2>1, <2>2, <2>3 DEF AuthTypeOK
<1>11. CASE Extract(c, headers) = "credential"
    <2>1. extracted' = Append(extracted, c) /\ answer' = "none"
        BY <1>2, <1>3, <1>11 DEF ExtractError
    <2>2. ToSet(extracted') = ToSet(extracted) \cup {c} /\ Distinct(extracted')
        BY <1>1, <1>6, <1>7, <2>1, AppendedAnew DEF ExtractedOfAsked
    <2>3. ExtractedOfAsked'
        BY <1>2, <1>6, <1>7, <1>11, <2>2 DEF ExtractedOfAsked
    <2>4. NoErrorSoFar'
        BY <1>2, <1>6, <1>7, <1>11 DEF NoErrorSoFar, ExtractError
    <2> QED
        BY <1>8, <1>9, <1>10, <2>1, <2>3, <2>4 DEF AuthInv
<1>12. CASE Extract(c, headers) # "credential"
    <2>1. extracted' = extracted
        BY <1>3, <1>12
    <2>2. ExtractedOfAsked'
        BY <1>2, <1>6, <1>7, <1>12, <2>1 DEF ExtractedOfAsked
    <2>3. CASE Extract(c, headers) \in ExtractError
        <3>1. EndedByAsked'
            BY <1>2, <1>3, <1>6, <1>8, <2>3 DEF EndedByAsked, ExtractError
        <3> QED
            BY <1>9, <1>10, <2>2, <3>1 DEF AuthInv
    <2>4. CASE Extract(c, headers) = "none"
        <3>1. answer' = "none"
            BY <1>2, <1>3, <2>4 DEF ExtractError
        <3>2. NoErrorSoFar'
            BY <1>2, <1>6, <1>7, <2>4 DEF NoErrorSoFar, ExtractError
        <3> QED
            BY <1>8, <1>9, <1>10, <2>2, <3>1, <3>2 DEF AuthInv
    <2> QED
        BY <1>3, <1>12, <2>3, <2>4
<1> QED
    BY <1>11, <1>12

\* Nothing or too much was found: nobody is vouched for.
LEMMA RefuseKeeps ==
    ASSUME AuthInv, Refuse
    PROVE  AuthInv'
<1>1. /\ answer = "none" /\ asked = Len(Candidates)
      /\ UNCHANGED <<schemes, allowed, headers, session, asked, extracted, verified, user>>
      /\ \/ Len(extracted) > 1 /\ answer' = "multiple_credentials"
         \/ extracted = <<>> /\ answer' = "authentication_required"
    BY DEF Refuse, Fail
<1>2. Candidates' = Candidates /\ Asked' = Asked
    BY <1>1, CandidatesStay DEF Asked
<1>3. NobodyIsVouchedFor /\ NoErrorSoFar /\ ExtractedOfAsked
    BY <1>1 DEF AuthInv, EndedByAsked, EndedByAll, ExtractError
<1>4. EndedByAll'
    BY <1>1, <1>2, <1>3 DEF EndedByAll, NobodyIsVouchedFor, NoErrorSoFar
<1>5. AuthTypeOK'
    BY <1>1, <1>2 DEF AuthInv, AuthTypeOK
<1>6. Distinct(schemes)' /\ ExtractedOfAsked'
    BY <1>1, <1>2, <1>3 DEF AuthInv, ExtractedOfAsked
<1> QED
    BY <1>4, <1>5, <1>6 DEF AuthInv

\* The one provider that found a credential answers for it.
LEMMA VerifyKeeps ==
    ASSUME AuthInv, Verify
    PROVE  AuthInv'
<1>1. /\ answer = "none" /\ asked = Len(Candidates) /\ Len(extracted) = 1
      /\ UNCHANGED <<schemes, allowed, headers, session, asked, extracted>>
      /\ verified' = verified \cup {extracted[1]}
      /\ \/ answer' = "authenticated" /\ user' \in User \cup {Public}
         \/ answer' \in {"invalid_credential", "internal_error"} /\ user' = user
    BY DEF Verify
<1>2. Candidates' = Candidates /\ Asked' = Asked
    BY <1>1, CandidatesStay DEF Asked
<1>3. NobodyIsVouchedFor /\ NoErrorSoFar /\ ExtractedOfAsked
    BY <1>1 DEF AuthInv, EndedByAsked, EndedByAll, ExtractError
<1>4. EndedByAll'
    <2>1. verified' = {extracted'[1]} /\ user = session
        BY <1>1, <1>3 DEF NobodyIsVouchedFor
    <2>2. (asked = Len(Candidates))' /\ NoErrorSoFar' /\ Len(extracted') = 1
        BY <1>1, <1>2, <1>3 DEF NoErrorSoFar
    <2>3. \/ answer' = "authenticated"
          \/ answer' \in {"invalid_credential", "internal_error"} /\ user' = session'
        BY <1>1, <2>1
    <2> QED
        BY <2>1, <2>2, <2>3 DEF EndedByAll
<1>5. extracted \in Seq(Code) /\ extracted[1] \in Code
    <2>1. extracted \in Seq(Code)
        BY DEF AuthInv, AuthTypeOK
    <2>2. 1 \in 1 .. Len(extracted)
        BY <1>1
    <2> QED
        BY <2>1, <2>2, ElementOfSeq
<1>6. Distinct(schemes)' /\ ExtractedOfAsked'
    BY <1>1, <1>2, <1>3 DEF AuthInv, ExtractedOfAsked
<1>7. AuthTypeOK'
    <2>1. verified' \subseteq Code /\ user' \in User \cup {Public}
        BY <1>1, <1>5 DEF AuthInv, AuthTypeOK
    <2>2. answer' \in {"authenticated", "invalid_credential", "internal_error"}
        BY <1>1
    <2> QED
        BY <1>1, <1>2, <2>1, <2>2 DEF AuthInv, AuthTypeOK
<1> QED
    BY <1>4, <1>6, <1>7 DEF AuthInv

\* Every step keeps the invariant.
LEMMA AuthInvNext == AuthInv /\ [AuthNext]_authVars => AuthInv'
<1> SUFFICES ASSUME AuthInv, [AuthNext]_authVars PROVE AuthInv'
    OBVIOUS
<1>1. CASE ExtractNext
    BY <1>1, ExtractNextKeeps
<1>2. CASE Refuse
    BY <1>2, RefuseKeeps
<1>3. CASE Verify
    BY <1>3, VerifyKeeps
<1>4. CASE UNCHANGED authVars
    <2>1. UNCHANGED <<schemes, allowed, headers, session, asked, extracted, verified, user, answer>>
        BY <1>4 DEF authVars
    <2>2. Candidates' = Candidates /\ Asked' = Asked
        BY <2>1, CandidatesStay DEF Asked
    <2> QED
        BY <2>1, <2>2 DEF AuthInv, AuthTypeOK, ExtractedOfAsked, NobodyIsVouchedFor,
           NoErrorSoFar, EndedByAsked, EndedByAll
<1> QED
    BY <1>1, <1>2, <1>3, <1>4 DEF AuthNext, Resolved

----------------------------------------------------------------------------
(* What the invariant implies *)

\* The invariant holds of every reachable state.
LEMMA AuthInvHolds == AuthSpec => []AuthInv
BY AuthInvInit, AuthInvNext, PTL DEF AuthSpec

\* What a request carries is finite, and found by some scheme that is installed.
LEMMA CarriedProperties ==
    ASSUME AuthInv
    PROVE  /\ Carried \subseteq Code /\ IsFiniteSet(Carried) /\ Cardinality(Carried) \in Nat
           /\ Carried \subseteq ToSet(Candidates) /\ ToSet(Candidates) \subseteq Code
<1>1. schemes \in Seq(Code) /\ Distinct(schemes)
    BY DEF AuthInv, AuthTypeOK
<1>2. \A i \in DOMAIN schemes : schemes[i] \in Code
    BY <1>1, LenProperties, ElementOfSeq
<1>3. ToSet(schemes) \subseteq Code
    BY <1>2 DEF ToSet
<1>4. ToSet(Candidates) = {c \in ToSet(schemes) : allowed = {} \/ c \in allowed}
    BY <1>1, CandidatesProperties
<1>5. Carried \subseteq ToSet(Candidates) /\ ToSet(Candidates) \subseteq Code
    BY <1>3, <1>4 DEF Carried
<1>6. IsFiniteSet(Carried)
    BY <1>5, CodeIsFinite, FS_Subset
<1> QED
    BY <1>5, <1>6, FS_CardinalityType

\* When all were asked, the number of credentials found is the number carried.
LEMMA CarriedCounted ==
    ASSUME AuthInv, asked = Len(Candidates)
    PROVE  /\ extracted = <<>> => Carried = {}
           /\ Len(extracted) = 1 => Carried = {extracted[1]} /\ Cardinality(Carried) = 1
           /\ Len(extracted) > 1 => Cardinality(Carried) > 1
<1>1. ToSet(extracted) = Carried /\ Distinct(extracted) /\ extracted \in Seq(Code)
    BY AllAsked DEF AuthInv, ExtractedOfAsked, AuthTypeOK
<1>2. Len(extracted) \in Nat /\ DOMAIN extracted = 1 .. Len(extracted)
    BY <1>1, LenProperties
<1>3. ASSUME extracted = <<>> PROVE Carried = {}
    <2>1. DOMAIN extracted = {}
        BY <1>2, <1>3
    <2> QED
        BY <1>1, <2>1 DEF ToSet
<1>4. ASSUME Len(extracted) = 1 PROVE Carried = {extracted[1]} /\ Cardinality(Carried) = 1
    <2>1. DOMAIN extracted = {1}
        BY <1>2, <1>4
    <2>2. Carried = {extracted[1]}
        BY <1>1, <2>1 DEF ToSet
    <2> QED
        BY <2>2, FS_Singleton
<1>5. ASSUME Len(extracted) > 1 PROVE Cardinality(Carried) > 1
    <2>1. 1 \in 1 .. Len(extracted) /\ 2 \in 1 .. Len(extracted)
        BY <1>2, <1>5
    <2>2. /\ extracted[1] \in Carried /\ extracted[2] \in Carried
          /\ extracted[1] # extracted[2]
        BY <1>1, <1>2, <2>1 DEF ToSet, Distinct
    <2>3. Cardinality(Carried) # 0 /\ Cardinality(Carried) # 1
        BY <2>2, CarriedProperties, FS_EmptySet, FS_Singleton
    <2> QED
        BY <2>3, CarriedProperties
<1> QED
    BY <1>3, <1>4, <1>5

\* Every state is typed: the loop asks no more candidates than there are.
THEOREM AuthTypeCorrect == AuthSpec => []AuthTypeOK
<1>1. AuthInv => AuthTypeOK
    BY DEF AuthInv
<1> QED
    BY <1>1, AuthInvHolds, PTL

\* Whoever a request is taken for, it carries one credential of an active scheme the
\* route accepts, and the provider of that scheme, and no other, verified it.
THEOREM IdentityVouchedFor == AuthSpec => []IdentityIsVouchedFor
<1>1. AuthInv => IdentityIsVouchedFor
    <2> SUFFICES ASSUME AuthInv PROVE IdentityIsVouchedFor
        OBVIOUS
    <2>1. Cardinality({}) = 0 /\ \A c : Cardinality({c}) = 1
        BY FS_EmptySet, FS_Singleton
    <2>2. CASE NobodyIsVouchedFor /\ answer # "authenticated"
        BY <2>1, <2>2 DEF NobodyIsVouchedFor, IdentityIsVouchedFor
    <2>3. CASE /\ asked = Len(Candidates) /\ Len(extracted) = 1 /\ verified = {extracted[1]}
               /\ answer # "authenticated" => user = session
        <3>1. Carried = {extracted[1]} /\ Cardinality(Carried) = 1
            BY <2>3, CarriedCounted
        <3> QED
            BY <2>1, <2>3, <3>1 DEF IdentityIsVouchedFor
    <2> QED
        BY <2>2, <2>3 DEF AuthInv, EndedByAsked, EndedByAll, ExtractError
<1> QED
    BY <1>1, AuthInvHolds, PTL

\* Why a request is refused, and whether a provider is asked to verify at all, is
\* decided by which schemes are active and not by their sequence.
THEOREM OrderIsIrrelevant == AuthSpec => []OrderDoesNotMatter
<1>1. AuthInv => OrderDoesNotMatter
    <2> SUFFICES ASSUME AuthInv PROVE OrderDoesNotMatter
        OBVIOUS
    <2> DEFINE error == IF "basic" \in ToSet(Candidates) THEN Extract("basic", headers)
                        ELSE "none"
    <2>1. headers \in Headers /\ Asked \subseteq ToSet(Candidates) /\ ToSet(Candidates) \subseteq Provider
        <3>1. schemes \in Seq(Code) /\ Distinct(schemes) /\ asked \in 0 .. Len(Candidates)
            BY DEF AuthInv, AuthTypeOK
        <3>2. DOMAIN Candidates = 1 .. Len(Candidates) /\ Len(Candidates) \in Nat
            BY <3>1, CandidatesProperties
        <3>3. \A i \in 1 .. asked : i \in DOMAIN Candidates
            BY <3>1, <3>2
        <3>4. Asked \subseteq ToSet(Candidates)
            BY <3>3 DEF Asked, ToSet
        <3> QED
            BY <3>4, CarriedProperties, AuthAssumption DEF AuthInv, AuthTypeOK
    <2>2. CASE answer = "none"
        <3>1. verified = {}
            BY <2>2 DEF AuthInv, EndedByAsked, EndedByAll, ExtractError, NobodyIsVouchedFor
        <3> QED
            BY <2>2, <3>1 DEF OrderDoesNotMatter
    <2>3. CASE EndedByAsked
        <3>1. PICK c \in Asked : Extract(c, headers) = answer
            BY <2>3 DEF EndedByAsked
        <3>2. c = "basic" /\ c \in ToSet(Candidates)
            BY <2>1, <2>3, <3>1, ExtractTyped DEF EndedByAsked
        <3>3. error = answer /\ answer \in ExtractError /\ verified = {}
            BY <2>3, <3>1, <3>2 DEF EndedByAsked, NobodyIsVouchedFor
        <3> QED
            BY <3>3 DEF OrderDoesNotMatter, ExtractError
    <2>4. CASE EndedByAll
        <3>1. Asked = ToSet(Candidates) /\ asked = Len(Candidates)
            BY <2>4, AllAsked DEF EndedByAll
        <3>2. error \notin ExtractError
            BY <2>4, <3>1 DEF EndedByAll, NoErrorSoFar, ExtractError
        <3>3. answer # "malformed_credential" /\ answer # "none"
            BY <2>4 DEF EndedByAll
        <3>4. CASE answer = "multiple_credentials"
            <4>1. verified = {} /\ Cardinality(Carried) > 1
                BY <2>4, <3>1, <3>4, CarriedCounted DEF EndedByAll, NobodyIsVouchedFor
            <4> QED
                BY <3>2, <3>4, <4>1 DEF OrderDoesNotMatter
        <3>5. CASE answer = "authentication_required"
            <4>1. verified = {} /\ Carried = {}
                BY <2>4, <3>1, <3>5, CarriedCounted DEF EndedByAll, NobodyIsVouchedFor
            <4> QED
                BY <3>2, <3>5, <4>1 DEF OrderDoesNotMatter
        <3>6. CASE answer \notin {"multiple_credentials", "authentication_required"}
            <4>1. Cardinality(Carried) = 1
                BY <2>4, <3>1, <3>6, CarriedCounted DEF EndedByAll
            <4> QED
                BY <3>2, <3>3, <3>6, <4>1 DEF OrderDoesNotMatter
        <3> QED
            BY <3>4, <3>5, <3>6
    <2> QED
        BY <2>2, <2>3, <2>4 DEF AuthInv
<1> QED
    BY <1>1, AuthInvHolds, PTL

\* An opaque token is never ambiguous unless an API key is there beside it, and no
\* token is claimed twice unless the scheme that takes any is one of the candidates.
THEOREM TokensToldApart == AuthSpec => []TokensAreToldApart
<1>1. AuthInv => TokensAreToldApart
    <2> SUFFICES ASSUME AuthInv, answer = "multiple_credentials"
                 PROVE  /\ headers.authorization = "bearer_opaque" => headers.api_key = "key"
                        /\ headers.api_key # "key" => "bearer" \in ToSet(Candidates)
        BY DEF TokensAreToldApart
    <2>1. EndedByAll /\ asked = Len(Candidates) /\ Len(extracted) > 1
        BY DEF AuthInv, EndedByAsked, EndedByAll, ExtractError
    <2>2. Cardinality(Carried) > 1
        BY <2>1, CarriedCounted
    <2>3. PICK c \in Carried, d \in Carried : c # d
        <3>1. Carried # {}
            BY <2>2, FS_EmptySet
        <3>2. PICK c \in Carried : TRUE
            BY <3>1
        <3>3. Carried # {c}
            BY <2>2, FS_Singleton
        <3> QED
            BY <3>2, <3>3
    <2>4. /\ c \in Provider /\ c \in ToSet(Candidates) /\ Extract(c, headers) = "credential"
          /\ d \in Provider /\ d \in ToSet(Candidates) /\ Extract(d, headers) = "credential"
        BY CarriedProperties, AuthAssumption DEF Carried
    <2>5. headers \in Headers
        BY DEF AuthInv, AuthTypeOK
    <2>6. ASSUME headers.api_key # "key" PROVE c = "bearer" \/ d = "bearer"
        BY <2>3, <2>4, <2>5, <2>6 DEF Provider, Headers, Authorization, ApiKeyHeader, Extract,
           ExtractBasic, ExtractBearer, ExtractApiKey, ExtractJwt, ExtractOauth2, BearerToken
    <2>7. ASSUME headers.authorization = "bearer_opaque" PROVE headers.api_key = "key"
        BY <2>3, <2>4, <2>5, <2>7 DEF Provider, Headers, Authorization, ApiKeyHeader, Extract,
           ExtractBasic, ExtractBearer, ExtractApiKey, ExtractJwt, ExtractOauth2, BearerToken
    <2> QED
        BY <2>4, <2>6, <2>7
<1> QED
    BY <1>1, AuthInvHolds, PTL

----------------------------------------------------------------------------
(* The cached list of schemes: the inductive invariant *)

\* A change made here is committed and not signalled yet.
CommittedHere == writer.at = "committed" /\ writer.here

\* What a cache may hold, or is about to be given: the active schemes, or what
\* they were before a change that this process will hear of when the next
\* request arrives.
Current(list) ==
    \/ list = active
    \/ /\ ~CommittedHere
       /\ seen # signalled \/ (writer.at = "committed" /\ list = writer.from)

Cached == cache # NoList /\ ~cache.beside

WrittenFromActive == writer.at = "written" => writer.from = active

CacheIsCurrent == Cached => ~ChangingHere /\ Current(cache.list)

ReadingIsCurrent ==
    \A t \in Reader : Reading(t) /\ ~reader[t].beside => Current(reader[t].snap)

\* Whatever a request that heard all signals may still be given was committed since
\* it arrived.
CurrentIsKnown ==
    \A t \in Reader : Serving(t) /\ ~reader[t].late =>
        /\ active \in reader[t].known
        /\ Cached => cache.list \in reader[t].known
        /\ \A s \in Reader : Reading(s) /\ ~reader[s].beside =>
             reader[s].snap \in reader[t].known

SchemeInv ==
    /\ SchemeTypeOK
    /\ WrittenFromActive
    /\ CacheIsCurrent
    /\ ReadingIsCurrent
    /\ CurrentIsKnown
    /\ SchemesAreCurrent

----------------------------------------------------------------------------
(* Types *)

\* What a thread's record may be; SchemeTypeOK in parts.
ReaderType == [at : {"idle", "begin", "lookup", "fill", "told"}, snap : SUBSET Scheme,
               list : SUBSET Scheme, beside : BOOLEAN, known : SUBSET SUBSET Scheme,
               late : BOOLEAN]

StateType == [list : SUBSET Scheme, signalled : 0 .. signalled]

\* The type of each thread.
LEMMA ReaderTyped ==
    ASSUME SchemeTypeOK
    PROVE  /\ reader \in [Reader -> ReaderType]
           /\ \A t \in Reader : reader[t] \in ReaderType
           /\ active \in SUBSET Scheme
           /\ cache # NoList => cache.list \in SUBSET Scheme /\ cache.beside \in BOOLEAN
    BY DEF SchemeTypeOK, ReaderType

\* What the primary and the replica show; the replica has yet to apply one more.
LEMMA StatesTyped ==
    ASSUME SchemeTypeOK
    PROVE  /\ behind \in Seq(StateType)
           /\ Replica.list \in SUBSET Scheme /\ Replica.signalled \in 0 .. signalled
           /\ Append(behind, Primary) \in Seq(StateType)
<1>1. behind \in Seq(StateType) /\ Primary \in StateType
    BY DEF SchemeTypeOK, StateType, Primary
<1>2. Append(behind, Primary) \in Seq(StateType)
    BY <1>1
<1>3. behind # <<>> => Head(behind) \in StateType
    BY <1>1
<1>4. Replica \in StateType
    BY <1>1, <1>3, Zenon DEF Replica
<1> QED
    BY <1>1, <1>2, <1>4 DEF StateType

\* One thread's record changes to another of its type, and no idle one is left
\* other than at rest.
LEMMA OneReaderTyped ==
    ASSUME SchemeTypeOK, NEW t \in Reader, NEW q \in ReaderType,
           reader' = [reader EXCEPT ![t] = q], q.at = "idle" => q = Resting
    PROVE  /\ reader' \in [Reader -> ReaderType]
           /\ \A s \in Reader : reader'[s].at = "idle" => reader'[s] = Resting
<1>1. reader \in [Reader -> ReaderType]
    BY ReaderTyped
<1>2. \A s \in Reader : reader'[s] = IF s = t THEN q ELSE reader[s]
    BY <1>1
<1> QED
    BY <1>1, <1>2 DEF SchemeTypeOK

\* Noticing a change beside the reading threads keeps the type of each of them.
LEMMA BesideType ==
    ASSUME NEW them \in [Reader -> ReaderType]
    PROVE  /\ Beside(them) \in [Reader -> ReaderType]
           /\ \A t \in Reader :
                /\ Beside(them)[t].at = them[t].at
                /\ Beside(them)[t].snap = them[t].snap
                /\ Beside(them)[t].list = them[t].list
                /\ Beside(them)[t].known = them[t].known
                /\ Beside(them)[t].late = them[t].late
                /\ Reading(t) => Beside(them)[t].beside
                /\ ~Reading(t) => Beside(them)[t] = them[t]
<1>1. \A t \in Reader : them[t] \in ReaderType
    BY Zenon
<1>2. \A t \in Reader : Beside(them)[t] =
            IF Reading(t) THEN [them[t] EXCEPT !.beside = TRUE] ELSE them[t]
    BY Zenon DEF Beside
<1>3. ASSUME NEW q \in ReaderType
      PROVE  LET noticed == [q EXCEPT !.beside = TRUE] IN
             /\ noticed \in ReaderType /\ noticed.beside
             /\ noticed.at = q.at /\ noticed.snap = q.snap
             /\ noticed.list = q.list /\ noticed.known = q.known /\ noticed.late = q.late
    BY DEF ReaderType
<1>4. ASSUME NEW t \in Reader
      PROVE  /\ Beside(them)[t] \in ReaderType
             /\ Beside(them)[t].at = them[t].at
             /\ Beside(them)[t].snap = them[t].snap
             /\ Beside(them)[t].list = them[t].list
             /\ Beside(them)[t].known = them[t].known
             /\ Beside(them)[t].late = them[t].late
             /\ Reading(t) => Beside(them)[t].beside
             /\ ~Reading(t) => Beside(them)[t] = them[t]
    <2>1. CASE Reading(t)
        <3>1. Beside(them)[t] = [them[t] EXCEPT !.beside = TRUE]
            BY <1>2, <2>1, Zenon
        <3> QED
            BY <1>1, <1>3, <2>1, <3>1, Zenon
    <2>2. CASE ~Reading(t)
        BY <1>1, <1>2, <2>2, Zenon
    <2> QED
        BY <2>1, <2>2, Zenon
<1>5. Beside(them) \in [Reader -> ReaderType]
    <2>1. Beside(them) = [t \in Reader |-> Beside(them)[t]]
        BY DEF Beside
    <2> QED
        BY <1>4, <2>1, Zenon
<1> QED
    BY <1>4, <1>5, Zenon

\* The first state satisfies the invariant: nothing is cached and nobody reads.
LEMMA SchemeInvInit == SchemeInit => SchemeInv
<1>1. SUFFICES ASSUME SchemeInit PROVE SchemeInv
    OBVIOUS
<1>2. \A t \in Reader : reader[t] = Resting
    BY <1>1 DEF SchemeInit
<1>3. SchemeTypeOK
    <2>1. Resting \in ReaderType
        BY DEF Resting, ReaderType
    <2>2. reader \in [Reader -> ReaderType]
        BY <1>1, <2>1 DEF SchemeInit
    <2>3. writer \in [at : {"none", "written", "committed"}, here : BOOLEAN,
                      to : SUBSET Scheme, from : SUBSET Scheme]
        BY <1>1 DEF SchemeInit, NoWriter
    <2>4. writes \in 0 .. MaxWrites
        BY <1>1, SchemeAssumption DEF SchemeInit
    <2> QED
        BY <1>1, <1>2, <2>2, <2>3, <2>4 DEF SchemeInit, SchemeTypeOK, ReaderType
<1>4. WrittenFromActive
    BY <1>1 DEF SchemeInit, NoWriter, WrittenFromActive
<1>5. ~Cached
    BY <1>1 DEF SchemeInit, Cached
<1>6. \A t \in Reader : reader[t].at = "idle"
    BY <1>2 DEF Resting
<1> QED
    BY <1>3, <1>4, <1>5, <1>6 DEF SchemeInv, CacheIsCurrent, ReadingIsCurrent, CurrentIsKnown,
       SchemesAreCurrent, Reading, Serving

----------------------------------------------------------------------------
(* The steps of a request *)

\* A step that leaves alone what administrators do, the signals this process
\* has seen, and does not add to what is cached, keeps the invariant if each
\* thread's new state is good in itself.
LEMMA BeginReadingKeeps ==
    ASSUME SchemeInv, NEW t \in Reader, BeginReading(t)
    PROVE  SchemeInv'
<1> USE DEF SchemeInv
<1>0. PICK list \in {active, Replica.list} :
        reader' = [reader EXCEPT ![t].at = "lookup", ![t].snap = list,
                                 ![t].beside = list # active]
    BY DEF BeginReading
<1> DEFINE q == [reader[t] EXCEPT !.at = "lookup", !.snap = list, !.beside = list # active]
<1>a. reader[t] \in ReaderType /\ list \in SUBSET Scheme /\ (list # active) \in BOOLEAN
    BY ReaderTyped, StatesTyped
<1>b. q \in ReaderType /\ q.at = "lookup"
    BY <1>a DEF ReaderType
<1>c. reader' = [reader EXCEPT ![t] = q]
    BY <1>0, ReaderTyped
<1>1. SchemeTypeOK'
    BY <1>b, <1>c, OneReaderTyped DEF BeginReading, SchemeTypeOK, KeepOutside, ReaderType
<1>2. WrittenFromActive' /\ CacheIsCurrent'
    BY DEF BeginReading, KeepOutside, WrittenFromActive, CacheIsCurrent, Cached, Current,
       CommittedHere, ChangingHere
<1>3. ReadingIsCurrent'
    BY <1>c, ReaderTyped DEF BeginReading, KeepOutside, ReadingIsCurrent, Current,
       CommittedHere, Reading, ReaderType
<1>4. CurrentIsKnown'
    BY <1>c, ReaderTyped DEF BeginReading, KeepOutside, CurrentIsKnown, Cached, Reading,
       Serving, ReaderType
<1>5. SchemesAreCurrent'
    BY <1>c, ReaderTyped DEF SchemesAreCurrent, ReaderType
<1> QED
    BY <1>1, <1>2, <1>3, <1>4, <1>5

\* A lookup hands out what is cached, which is current, or finds nothing.
LEMMA LookupKeeps ==
    ASSUME SchemeInv, NEW t \in Reader, Lookup(t)
    PROVE  SchemeInv'
<1> USE DEF SchemeInv
<1> DEFINE q == IF cache = NoList THEN [reader[t] EXCEPT !.at = "fill"]
                ELSE [reader[t] EXCEPT !.at = "told", !.list = cache.list,
                                       !.beside = cache.beside]
<1>a. reader[t] \in ReaderType
      /\ (cache # NoList => cache.list \in SUBSET Scheme /\ cache.beside \in BOOLEAN)
    BY ReaderTyped
<1>b. q \in ReaderType /\ q.at # "idle"
    BY <1>a DEF ReaderType
<1>c. reader' = [reader EXCEPT ![t] = q]
    BY ReaderTyped DEF Lookup
<1>1. SchemeTypeOK'
    <2>1. /\ reader' \in [Reader -> ReaderType]
          /\ \A s \in Reader : reader'[s].at = "idle" => reader'[s] = Resting
        BY <1>b, <1>c, OneReaderTyped, Zenon
    <2> QED
        BY <2>1 DEF Lookup, SchemeTypeOK, KeepOutside, ReaderType
<1>2. WrittenFromActive' /\ CacheIsCurrent'
    BY DEF Lookup, KeepOutside, WrittenFromActive, CacheIsCurrent, Cached, Current,
       CommittedHere, ChangingHere
<1>3. ReadingIsCurrent'
    BY DEF Lookup, KeepOutside, ReadingIsCurrent, Current, CommittedHere, Reading,
       SchemeTypeOK
<1>4. CurrentIsKnown'
    BY DEF Lookup, KeepOutside, CurrentIsKnown, Cached, Reading, Serving, SchemeTypeOK
<1>5. SchemesAreCurrent'
    BY DEF Lookup, SchemesAreCurrent, SchemeTypeOK, CurrentIsKnown, Cached, Serving
<1> QED
    BY <1>1, <1>2, <1>3, <1>4, <1>5

\* What is put in the cache was read by a thread that heard every signal before.
LEMMA FillKeeps ==
    ASSUME SchemeInv, NEW t \in Reader, Fill(t)
    PROVE  SchemeInv'
<1> USE DEF SchemeInv
<1> DEFINE beside == reader[t].beside \/ ChangingHere
           q == [reader[t] EXCEPT !.at = "told", !.list = reader[t].snap, !.beside = beside]
<1>a. reader[t] \in ReaderType
    BY ReaderTyped
<1>b. beside \in BOOLEAN
    BY <1>a DEF ReaderType, ChangingHere, SchemeTypeOK
<1>c. q \in ReaderType /\ q.at = "told" /\ reader[t].snap \in SUBSET Scheme
    BY <1>a, <1>b DEF ReaderType
<1>d. /\ reader' = [reader EXCEPT ![t] = q]
      /\ cache' = [list |-> reader[t].snap, beside |-> beside]
    BY ReaderTyped DEF Fill
<1>1. SchemeTypeOK'
    BY <1>b, <1>c, <1>d, OneReaderTyped DEF Fill, SchemeTypeOK, KeepOutside, ReaderType
<1>2. WrittenFromActive' /\ CacheIsCurrent'
    BY DEF Fill, KeepOutside, WrittenFromActive, CacheIsCurrent, Cached, Current,
       CommittedHere, ChangingHere, ReadingIsCurrent, Reading
<1>3. ReadingIsCurrent'
    BY DEF Fill, KeepOutside, ReadingIsCurrent, Current, CommittedHere, Reading,
       SchemeTypeOK
<1>4. CurrentIsKnown'
    BY DEF Fill, KeepOutside, CurrentIsKnown, Cached, Reading, Serving, SchemeTypeOK
<1>5. SchemesAreCurrent'
    BY DEF Fill, SchemesAreCurrent, SchemeTypeOK, CurrentIsKnown, Reading, Serving
<1> QED
    BY <1>1, <1>2, <1>3, <1>4, <1>5

\* A request that is over takes its list with it.
LEMMA LeaveKeeps ==
    ASSUME SchemeInv, NEW t \in Reader, Leave(t)
    PROVE  SchemeInv'
<1> USE DEF SchemeInv
<1>1. SchemeTypeOK'
    BY DEF Leave, SchemeTypeOK, KeepOutside, Resting
<1>2. WrittenFromActive' /\ CacheIsCurrent'
    BY DEF Leave, KeepOutside, WrittenFromActive, CacheIsCurrent, Cached, Current,
       CommittedHere, ChangingHere
<1>3. ReadingIsCurrent'
    BY DEF Leave, KeepOutside, ReadingIsCurrent, Current, CommittedHere, Reading,
       SchemeTypeOK, Resting
<1>4. CurrentIsKnown'
    BY DEF Leave, KeepOutside, CurrentIsKnown, Cached, Reading, Serving, SchemeTypeOK, Resting
<1>5. SchemesAreCurrent'
    BY DEF Leave, SchemesAreCurrent, SchemeTypeOK, Resting
<1> QED
    BY <1>1, <1>2, <1>3, <1>4, <1>5

----------------------------------------------------------------------------
(* Requests that arrive, and an administrator's transaction *)

\* A request that arrives knows of all that the cache and the reading threads
\* may still give it: if it hears of a change, neither counts any more.
LEMMA ArriveKeeps ==
    ASSUME SchemeInv, NEW t \in Reader, ArriveForSchemes(t)
    PROVE  SchemeInv'
<1> USE DEF SchemeInv
<1> DEFINE known == {active} \cup IF writer.at = "committed" THEN {writer.from} ELSE {}
<1>0. PICK heard \in {signalled, Replica.signalled} :
        CheckSignaling([reader EXCEPT ![t] =
            [Resting EXCEPT !.at = "begin", !.known = known, !.late = heard # signalled]], heard)
    BY DEF ArriveForSchemes
<1> DEFINE q == [Resting EXCEPT !.at = "begin", !.known = known, !.late = heard # signalled]
           them == [reader EXCEPT ![t] = q]
<1>1. /\ q \in ReaderType /\ q.at = "begin" /\ q.known = known
      /\ q.late = (heard # signalled) /\ heard \in 0 .. signalled
      /\ active \in known /\ (writer.at = "committed" => writer.from \in known)
    <2>1. heard \in 0 .. signalled
        BY StatesTyped DEF SchemeTypeOK
    <2>2. active \in SUBSET Scheme /\ writer.from \in SUBSET Scheme
        BY DEF SchemeTypeOK
    <2>3. known \in SUBSET SUBSET Scheme /\ (heard # signalled) \in BOOLEAN
        BY <2>2
    <2>4. /\ q \in ReaderType /\ q.at = "begin" /\ q.known = known
          /\ q.late = (heard # signalled)
        BY <2>3 DEF ReaderType, Resting
    <2> QED
        BY <2>1, <2>4
<1>2. /\ them \in [Reader -> ReaderType]
      /\ them[t] = q /\ \A s \in Reader \ {t} : them[s] = reader[s]
    BY <1>1, ReaderTyped
<1>3. CheckSignaling(them, heard) /\ KeepOutside /\ reader[t].at = "idle"
    BY <1>0 DEF ArriveForSchemes
<1> HIDE DEF known, q, them
<1>4. CASE seen = heard
    <2>1. reader' = them /\ cache' = cache /\ seen' = seen
        BY <1>3, <1>4 DEF CheckSignaling
    <2>2. SchemeTypeOK'
        BY <1>1, <1>3, <2>1, OneReaderTyped DEF SchemeTypeOK, KeepOutside, ReaderType,
           them
    <2>3. WrittenFromActive' /\ CacheIsCurrent'
        BY <1>3, <2>1 DEF KeepOutside, WrittenFromActive, CacheIsCurrent, Cached, Current,
           CommittedHere, ChangingHere
    <2>4. ReadingIsCurrent'
        BY <1>1, <1>2, <1>3, <2>1 DEF KeepOutside, ReadingIsCurrent, Current, CommittedHere,
           Reading
    <2>5. ~q.late => \A list : Current(list) => list \in known
        BY <1>1, <1>4 DEF Current
    <2>6. CurrentIsKnown'
        BY <1>1, <1>2, <1>3, <2>1, <2>5 DEF KeepOutside, CurrentIsKnown, CacheIsCurrent,
           ReadingIsCurrent, Cached, Reading, Serving
    <2>7. SchemesAreCurrent'
        BY <1>1, <1>2, <2>1 DEF SchemesAreCurrent
    <2> QED
        BY <2>2, <2>3, <2>4, <2>6, <2>7
<1>5. CASE seen # heard
    <2>1. reader' = Beside(them) /\ cache' = NoList /\ seen' = heard
        BY <1>3, <1>5 DEF CheckSignaling, ClearCache
    <2>2. \A s \in Reader : ~Reading(s) => reader'[s] = them[s]
        BY <1>2, <2>1, BesideType
    <2>3. \A s \in Reader : Reading(s)' => reader'[s].beside
        BY <1>1, <1>2, <1>3, <2>1, BesideType DEF Reading
    <2>4. /\ reader' \in [Reader -> ReaderType]
          /\ \A s \in Reader : reader'[s].at = them[s].at /\ reader'[s].known = them[s].known
                               /\ reader'[s].late = them[s].late
                               /\ reader'[s].list = them[s].list
        BY <1>2, <2>1, BesideType
    <2>5. \A s \in Reader : reader'[s].at \in {"idle", "told"} => reader'[s] = reader[s]
        BY <1>1, <1>2, <1>3, <2>2, <2>4 DEF Reading
    <2>6. SchemeTypeOK'
        <3>1. seen' \in 0 .. signalled' /\ cache' = NoList
            BY <1>1, <1>3, <2>1 DEF KeepOutside
        <3>2. \A s \in Reader : reader'[s].at = "idle" => reader'[s] = Resting
            BY <2>5 DEF SchemeTypeOK
        <3> QED
            BY <1>3, <2>4, <3>1, <3>2 DEF SchemeTypeOK, KeepOutside, ReaderType
    <2>7. WrittenFromActive' /\ CacheIsCurrent' /\ ReadingIsCurrent'
        BY <1>3, <2>1, <2>3 DEF KeepOutside, WrittenFromActive, CacheIsCurrent, Cached,
           ReadingIsCurrent
    <2>8. CurrentIsKnown'
        BY <1>1, <1>2, <1>3, <2>1, <2>3, <2>4 DEF KeepOutside, CurrentIsKnown, Cached, Serving
    <2>9. SchemesAreCurrent'
        BY <2>5 DEF SchemesAreCurrent
    <2> QED
        BY <2>6, <2>7, <2>8, <2>9
<1> QED
    BY <1>4, <1>5

\* What the clearing of a cache does to a thread: it is no longer vouched for if
\* it reads.
ForgottenBy(t, here) ==
    /\ reader'[t].at = reader[t].at /\ reader'[t].snap = reader[t].snap
    /\ reader'[t].list = reader[t].list /\ reader'[t].known = reader[t].known
    /\ reader'[t].late = reader[t].late
    /\ Reading(t) /\ here => reader'[t].beside
    /\ ~Reading(t) \/ ~here => reader'[t] = reader[t]

\* Clearing the cache forgets, of each thread, what it had read or was told.
LEMMA ForgetTyped ==
    ASSUME SchemeTypeOK, NEW here \in BOOLEAN, Forget(here)
    PROVE  /\ reader' \in [Reader -> ReaderType]
           /\ \A t \in Reader : ForgottenBy(t, here)
           /\ cache' = IF here THEN NoList ELSE cache
    BY ReaderTyped, BesideType DEF Forget, ClearCache, ForgottenBy

\* A write changes nothing that is committed; made here, it leaves nothing cached.
LEMMA WriteKeeps ==
    ASSUME SchemeInv, NEW s \in Scheme, NEW here \in BOOLEAN, WriteScheme(s, here)
    PROVE  SchemeInv'
<1> USE DEF SchemeInv
<1>1. /\ writer.at = "none" /\ writer' \in [at : {"none", "written", "committed"},
             here : BOOLEAN, to : SUBSET Scheme, from : SUBSET Scheme]
      /\ writer'.at = "written" /\ writer'.here = here /\ writer'.from = active
      /\ active' = active /\ seen' = seen /\ signalled' = signalled /\ behind' = behind
      /\ writes' \in 0 .. MaxWrites
      /\ Forget(here)
    BY SchemeAssumption DEF WriteScheme, SchemeTypeOK
<1>2. /\ reader' \in [Reader -> ReaderType]
      /\ \A t \in Reader : ForgottenBy(t, here)
    BY <1>1, ForgetTyped
<1>3. cache' = IF here THEN NoList ELSE cache
    BY <1>1, ForgetTyped
<1>4. SchemeTypeOK'
    <2>1. \A t \in Reader : reader'[t].at = "idle" => reader'[t] = Resting
        BY <1>2 DEF SchemeTypeOK, Reading, ForgottenBy
    <2>2. cache' \in [list : SUBSET Scheme, beside : BOOLEAN] \cup {NoList}
        BY <1>3 DEF SchemeTypeOK
    <2>3. behind' \in Seq([list : SUBSET Scheme, signalled : 0 .. signalled'])
        BY <1>1 DEF SchemeTypeOK
    <2>4. reader' \in [Reader -> ReaderType]
        BY <1>2
    <2> QED
        BY <1>1, <2>1, <2>2, <2>3, <2>4 DEF SchemeTypeOK, ReaderType
<1>5. WrittenFromActive' /\ CacheIsCurrent'
    BY <1>1, <1>3 DEF WrittenFromActive, CacheIsCurrent, Cached, Current, CommittedHere,
       ChangingHere
<1>6. ReadingIsCurrent'
    BY <1>1, <1>2 DEF ReadingIsCurrent, Current, CommittedHere, Reading, ForgottenBy
<1>7. CurrentIsKnown'
    BY <1>1, <1>2, <1>3 DEF CurrentIsKnown, Cached, Reading, Serving, ForgottenBy
<1>8. SchemesAreCurrent'
    BY <1>2 DEF SchemesAreCurrent, Reading, ForgottenBy
<1> QED
    BY <1>4, <1>5, <1>6, <1>7, <1>8

\* A write that is rolled back changed nothing and cleared a cache for nothing.
LEMMA RollbackKeeps ==
    ASSUME SchemeInv, RollbackScheme
    PROVE  SchemeInv'
<1> USE DEF SchemeInv
<1> DEFINE here == writer.here
<1>1. /\ writer.at = "written" /\ here \in BOOLEAN
      /\ writer' = NoWriter /\ NoWriter.at = "none"
      /\ writer' \in [at : {"none", "written", "committed"}, here : BOOLEAN,
                      to : SUBSET Scheme, from : SUBSET Scheme]
      /\ active' = active /\ seen' = seen /\ signalled' = signalled /\ writes' = writes
      /\ behind' = behind
      /\ Forget(here)
    BY DEF RollbackScheme, SchemeTypeOK, NoWriter
<1> HIDE DEF here
<1>2. /\ reader' \in [Reader -> ReaderType]
      /\ \A t \in Reader : ForgottenBy(t, here)
    BY <1>1, ForgetTyped
<1>3. cache' = IF here THEN NoList ELSE cache
    BY <1>1, ForgetTyped
<1>4. SchemeTypeOK'
    <2>1. \A t \in Reader : reader'[t].at = "idle" => reader'[t] = Resting
        BY <1>2 DEF SchemeTypeOK, Reading, ForgottenBy
    <2>2. cache' \in [list : SUBSET Scheme, beside : BOOLEAN] \cup {NoList}
        BY <1>3 DEF SchemeTypeOK
    <2>3. behind' \in Seq([list : SUBSET Scheme, signalled : 0 .. signalled'])
        BY <1>1 DEF SchemeTypeOK
    <2>4. reader' \in [Reader -> ReaderType]
        BY <1>2
    <2> QED
        BY <1>1, <2>1, <2>2, <2>3, <2>4 DEF SchemeTypeOK, ReaderType
<1>5. WrittenFromActive' /\ CacheIsCurrent'
    BY <1>1, <1>3 DEF WrittenFromActive, CacheIsCurrent, Cached, Current, CommittedHere,
       ChangingHere
<1>6. ReadingIsCurrent'
    BY <1>1, <1>2 DEF ReadingIsCurrent, Current, CommittedHere, Reading, ForgottenBy
<1>7. CurrentIsKnown'
    BY <1>1, <1>2, <1>3 DEF CurrentIsKnown, Cached, Reading, Serving, ForgottenBy
<1>8. SchemesAreCurrent'
    BY <1>2 DEF SchemesAreCurrent, Reading, ForgottenBy
<1> QED
    BY <1>4, <1>5, <1>6, <1>7, <1>8

\* A commit makes what was active before it out of date: what is cached or being
\* read here is beside the change, elsewhere it is yet to be signalled.
LEMMA CommitKeeps ==
    ASSUME SchemeInv, CommitScheme
    PROVE  SchemeInv'
<1> USE DEF SchemeInv
<1> DEFINE them == IF ChangingHere THEN Beside(reader) ELSE reader
<1>1. /\ writer.at = "written" /\ writer.from = active
      /\ writer' \in [at : {"none", "written", "committed"}, here : BOOLEAN,
                      to : SUBSET Scheme, from : SUBSET Scheme]
      /\ writer'.at = "committed" /\ writer'.here = writer.here /\ writer'.from = writer.from
      /\ active' = writer.to /\ writer.to \in SUBSET Scheme
      /\ behind' \in Seq(StateType)
      /\ UNCHANGED <<writes, signalled, seen, cache>>
    BY StatesTyped DEF CommitScheme, SchemeTypeOK, WrittenFromActive
<1>2. them \in [Reader -> ReaderType] /\ \A t \in Reader :
        /\ them[t].at = reader[t].at /\ them[t].snap = reader[t].snap
        /\ them[t].list = reader[t].list /\ them[t].known = reader[t].known
        /\ them[t].late = reader[t].late
        /\ Reading(t) /\ ChangingHere => them[t].beside
        /\ ~Reading(t) \/ ~ChangingHere => them[t] = reader[t]
    BY ReaderTyped, BesideType
<1>3. reader' = [t \in Reader |->
           IF Serving(t) THEN [them[t] EXCEPT !.known = @ \cup {writer.to}] ELSE them[t]]
    BY DEF CommitScheme
<1> HIDE DEF them
<1>4. \A t \in Reader : them[t].known \cup {writer.to} \in SUBSET SUBSET Scheme
    BY <1>1, <1>2 DEF ReaderType
<1>5. reader' \in [Reader -> ReaderType] /\ \A t \in Reader :
        /\ reader'[t].at = reader[t].at /\ reader'[t].snap = reader[t].snap
        /\ reader'[t].list = reader[t].list /\ reader'[t].beside = them[t].beside
        /\ reader'[t].late = reader[t].late
        /\ Serving(t) => reader'[t].known = reader[t].known \cup {writer.to}
        /\ ~Serving(t) => reader'[t] = reader[t]
    <2>1. ASSUME NEW t \in Reader
          PROVE  /\ reader'[t] \in ReaderType
                 /\ reader'[t].at = reader[t].at /\ reader'[t].snap = reader[t].snap
                 /\ reader'[t].list = reader[t].list /\ reader'[t].beside = them[t].beside
                 /\ reader'[t].late = reader[t].late
                 /\ Serving(t) => reader'[t].known = reader[t].known \cup {writer.to}
                 /\ ~Serving(t) => reader'[t] = reader[t]
        <3>1. them[t] \in ReaderType
            BY <1>2
        <3>2. CASE Serving(t)
            <4>1. reader'[t] = [them[t] EXCEPT !.known = @ \cup {writer.to}]
                BY <1>3, <3>2
            <4> QED
                BY <1>2, <1>4, <3>1, <3>2, <4>1 DEF ReaderType
        <3>3. CASE ~Serving(t)
            <4>1. reader'[t] = them[t] /\ them[t] = reader[t]
                BY <1>2, <1>3, <3>3 DEF Serving, Reading
            <4> QED
                BY <3>1, <3>3, <4>1
        <3> QED
            BY <3>2, <3>3
    <2>2. reader' \in [Reader -> ReaderType]
        <3>1. reader' = [t \in Reader |-> reader'[t]]
            BY <1>3
        <3> QED
            BY <2>1, <3>1, Zenon
    <2> QED
        BY <2>1, <2>2, Zenon
<1>6. SchemeTypeOK'
    BY <1>1, <1>5 DEF SchemeTypeOK, ReaderType, StateType, Serving
<1>7. WrittenFromActive' /\ CacheIsCurrent'
    BY <1>1 DEF WrittenFromActive, CacheIsCurrent, Cached, Current, CommittedHere,
       ChangingHere
<1>8. ReadingIsCurrent'
    BY <1>1, <1>2, <1>5 DEF ReadingIsCurrent, Current, CommittedHere, ChangingHere, Reading,
       SchemeTypeOK
<1>9. CurrentIsKnown'
    BY <1>1, <1>2, <1>5 DEF CurrentIsKnown, Cached, Reading, Serving
<1>10. SchemesAreCurrent'
    BY <1>2, <1>5 DEF SchemesAreCurrent, Reading, Serving
<1> QED
    BY <1>6, <1>7, <1>8, <1>9, <1>10

\* Once signalled, a change made elsewhere is heard of by the next request.
LEMMA SignalKeeps ==
    ASSUME SchemeInv, Signal
    PROVE  SchemeInv'
<1> USE DEF SchemeInv
<1>1. /\ writer.at = "committed" /\ writer.here \in BOOLEAN
      /\ writer' = NoWriter /\ NoWriter.at = "none"
      /\ writer' \in [at : {"none", "written", "committed"}, here : BOOLEAN,
                      to : SUBSET Scheme, from : SUBSET Scheme]
      /\ signalled \in Nat /\ seen \in 0 .. signalled /\ signalled' = signalled + 1
      /\ behind' = Append(behind, Primary) /\ behind' \in Seq(StateType)
      /\ seen' = IF writer.here THEN signalled' ELSE seen
      /\ UNCHANGED <<active, writes, cache, reader>>
    BY StatesTyped DEF Signal, SchemeTypeOK, NoWriter
<1>2. SchemeTypeOK'
    <2>1. \A q \in StateType : q \in [list : SUBSET Scheme, signalled : 0 .. signalled']
        BY <1>1 DEF StateType
    <2>2. behind' \in Seq([list : SUBSET Scheme, signalled : 0 .. signalled'])
        <3>1. StateType \subseteq [list : SUBSET Scheme, signalled : 0 .. signalled']
            BY <2>1
        <3>2. behind' \in Seq(StateType)
            BY <1>1, Zenon
        <3> QED
            BY <3>1, <3>2, SeqMonotonic, Zenon
    <2> QED
        BY <1>1, <2>2 DEF SchemeTypeOK
<1>3. WrittenFromActive' /\ CacheIsCurrent'
    BY <1>1 DEF WrittenFromActive, CacheIsCurrent, Cached, Current, CommittedHere,
       ChangingHere
<1>4. ReadingIsCurrent'
    BY <1>1 DEF ReadingIsCurrent, Current, CommittedHere, Reading
<1>5. CurrentIsKnown' /\ SchemesAreCurrent'
    BY <1>1 DEF CurrentIsKnown, SchemesAreCurrent, Cached, Reading, Serving
<1> QED
    BY <1>2, <1>3, <1>4, <1>5

----------------------------------------------------------------------------
(* Theorems *)

\* What the replica applies was committed and known before.
LEMMA ReplicateKeeps ==
    ASSUME SchemeInv, Replicate
    PROVE  SchemeInv'
<1> USE DEF SchemeInv
<1>1. /\ behind \in Seq(StateType) /\ behind # <<>> /\ behind' = Tail(behind)
      /\ UNCHANGED <<active, writes, writer, signalled, seen, cache, reader>>
    BY StatesTyped DEF Replicate
<1>2. behind' \in Seq(StateType)
    BY <1>1
<1> QED
    BY <1>1, <1>2 DEF SchemeTypeOK, StateType, WrittenFromActive, CacheIsCurrent, Cached,
       Current, CommittedHere, ChangingHere, ReadingIsCurrent, Reading, CurrentIsKnown, Serving,
       SchemesAreCurrent

\* Every step keeps the invariant.
LEMMA SchemeInvNext == SchemeInv /\ [SchemeNext]_schemeVars => SchemeInv'
<1> SUFFICES ASSUME SchemeInv, [SchemeNext]_schemeVars PROVE SchemeInv'
    OBVIOUS
<1>1. ASSUME NEW t \in Reader,
             \/ ArriveForSchemes(t) \/ BeginReading(t) \/ Lookup(t) \/ Fill(t) \/ Leave(t)
      PROVE  SchemeInv'
    BY <1>1, ArriveKeeps, BeginReadingKeeps, LookupKeeps, FillKeeps, LeaveKeeps
<1>2. ASSUME NEW s \in Scheme, NEW here \in BOOLEAN, WriteScheme(s, here)
      PROVE  SchemeInv'
    BY <1>2, WriteKeeps
<1>3. CASE CommitScheme
    BY <1>3, CommitKeeps
<1>4. CASE RollbackScheme
    BY <1>4, RollbackKeeps
<1>5. CASE Signal
    BY <1>5, SignalKeeps
<1>6. CASE UNCHANGED schemeVars
    BY <1>6 DEF schemeVars, SchemeInv, SchemeTypeOK, WrittenFromActive, CacheIsCurrent, Cached,
       Current, CommittedHere, ChangingHere, ReadingIsCurrent, Reading, CurrentIsKnown, Serving,
       SchemesAreCurrent
<1>7. CASE Replicate
    BY <1>7, ReplicateKeeps
<1> QED
    BY <1>1, <1>2, <1>3, <1>4, <1>5, <1>6, <1>7 DEF SchemeNext

\* Every state is typed, and a request leaves nothing for the next.
THEOREM SchemeTypeCorrect == SchemeSpec => []SchemeTypeOK
<1>1. SchemeInv => SchemeTypeOK
    BY DEF SchemeInv
<1> QED
    BY <1>1, SchemeInvInit, SchemeInvNext, PTL DEF SchemeSpec

\* In every behaviour a request that has heard every signal resolves its scheme
\* from a list that was committed since it arrived or not yet signalled then,
\* unless a thread of its process read it beside a change, or from a replica that
\* was behind.
THEOREM CurrentSchemes == SchemeSpec => []SchemesAreCurrent
<1>1. SchemeInv => SchemesAreCurrent
    BY DEF SchemeInv
<1> QED
    BY <1>1, SchemeInvInit, SchemeInvNext, PTL DEF SchemeSpec

====
