---- MODULE Authentication ----
(***************************************************************************)
(* The resolution of one request's credential: _auth_method_ssi_rest asks  *)
(* every active scheme the route allows, in sequence, whether the request  *)
(* carries a credential of its kind; only if exactly one does, that one's  *)
(* provider verifies it and the environment's user becomes whoever it      *)
(* vouches for, in place of the session's, if a cookie came along.         *)
(***************************************************************************)
EXTENDS Integers, Filtering, SequencesExt, FiniteSets

CONSTANTS
    Code,           \* the schemes installed, see Provider
    Restriction,    \* the schemes= arguments of the routes, {} for none
    User,
    Public          \* the identity of a request nobody authenticated

\* The providers of this family, by the code of their scheme.
Provider == {"basic", "bearer", "apikey", "jwt", "oauth2"}

ASSUME AuthAssumption ==
    /\ Code \subseteq Provider
    /\ Restriction \subseteq SUBSET Provider
    /\ Public \notin User

\* What the Authorization header holds: a pair, something undecodable or something
\* that is not ASCII after "Basic ", a token of some shape after "Bearer ", another
\* scheme.
Authorization == {"none", "basic", "basic_malformed", "basic_not_ascii", "bearer_blank",
                  "bearer_opaque", "bearer_jwt", "bearer_sot", "other"}

\* What the X-Api-Key header holds.
ApiKeyHeader == {"none", "blank", "key"}

Headers == [authorization : Authorization, api_key : ApiKeyHeader]

VARIABLES
    schemes,        \* the active schemes' codes, by sequence
    allowed,        \* the route's rest_schemes
    headers,        \* the request's headers
    session,        \* the user of the session its cookie names, Public without one
    asked,          \* how many candidates were asked so far
    extracted,      \* the codes that found a credential, in order
    verified,       \* the codes whose provider was called to verify
    user,           \* the environment's user
    answer          \* "none", "authenticated" or the error code

authVars == <<schemes, allowed, headers, session, asked, extracted, verified, user, answer>>

\* The schemes the route restricts itself to, if it does, in sequence.
Candidates == IF allowed = {} THEN schemes ELSE Kept(schemes, allowed)

BearerToken == {"bearer_opaque", "bearer_jwt", "bearer_sot"}

----------------------------------------------------------------------------
(* _rest_auth_extract of each provider: "none", "credential", or the error it *)
(* ends the request with                                                      *)

\* Faulty: a token of any shape is taken for a JWT.
ExtractJwtOfAnyShape(h) ==
    IF h.authorization \in BearerToken THEN "credential" ELSE "none"

ExtractBasic(h) ==
    CASE h.authorization = "basic" -> "credential"
      [] h.authorization = "basic_malformed" -> "malformed_credential"
      [] h.authorization = "basic_not_ascii" -> "internal_error"
      [] OTHER -> "none"

\* The errors of an extraction; b64decode raises an uncaught ValueError on text
\* that is not ASCII.
ExtractError == {"malformed_credential", "internal_error"}

\* Any token after "Bearer ", whatever its shape.
ExtractBearer(h) ==
    IF h.authorization \in BearerToken THEN "credential" ELSE "none"

ExtractApiKey(h) ==
    IF h.api_key = "key" THEN "credential" ELSE "none"

\* _looks_like_jwt: three segments, the first of which decodes to a header.
ExtractJwt(h) ==
    IF h.authorization = "bearer_jwt" THEN "credential" ELSE "none"

\* TOKEN_PREFIX, which no JWT starts with.
ExtractOauth2(h) ==
    IF h.authorization = "bearer_sot" THEN "credential" ELSE "none"

Extract(c, h) ==
    CASE c = "basic" -> ExtractBasic(h)
      [] c = "bearer" -> ExtractBearer(h)
      [] c = "apikey" -> ExtractApiKey(h)
      [] c = "jwt" -> ExtractJwt(h)
      [] c = "oauth2" -> ExtractOauth2(h)

----------------------------------------------------------------------------
(* _auth_method_ssi_rest *)

AuthInit ==
    /\ \E active \in SUBSET Code : schemes \in SetToSeqs(active)
    /\ allowed \in Restriction
    /\ headers \in Headers
    /\ session \in User \cup {Public}
    /\ asked = 0 /\ extracted = <<>> /\ verified = {}
    /\ user = session /\ answer = "none"

\* A RestAuthError or an InternalServerError leaves the loop at once.
Fail(error) ==
    /\ answer' = error
    /\ UNCHANGED <<extracted, verified, user>>

\* Faulty: nobody is asked after a credential was found.
ExtractUntilFound ==
    /\ answer = "none" /\ asked < Len(Candidates)
    /\ LET c == Candidates[asked + 1] IN
       \/ /\ Extract(c, headers) \in ExtractError /\ Fail(Extract(c, headers))
          /\ asked' = asked + 1
       \/ /\ Extract(c, headers) = "credential"
          /\ extracted' = Append(extracted, c)
          /\ asked' = Len(Candidates)
          /\ UNCHANGED <<verified, user, answer>>
       \/ /\ Extract(c, headers) = "none"
          /\ asked' = asked + 1
          /\ UNCHANGED <<extracted, verified, user, answer>>
    /\ UNCHANGED <<schemes, allowed, headers, session>>

\* The next candidate is asked.
ExtractNext ==
    /\ answer = "none" /\ asked < Len(Candidates)
    /\ asked' = asked + 1
    /\ LET c == Candidates[asked'] IN
       \/ Extract(c, headers) \in ExtractError /\ Fail(Extract(c, headers))
       \/ /\ Extract(c, headers) = "credential"
          /\ extracted' = Append(extracted, c)
          /\ UNCHANGED <<verified, user, answer>>
       \/ /\ Extract(c, headers) = "none"
          /\ UNCHANGED <<extracted, verified, user, answer>>
    /\ UNCHANGED <<schemes, allowed, headers, session>>

\* Nothing or too much was found.
Refuse ==
    /\ answer = "none" /\ asked = Len(Candidates)
    /\ \/ Len(extracted) > 1 /\ Fail("multiple_credentials")
       \/ extracted = <<>> /\ Fail("authentication_required")
    /\ UNCHANGED <<schemes, allowed, headers, session, asked>>

\* Faulty: the user is switched to before the credential is verified.
VerifySwitchingFirst ==
    /\ answer = "none" /\ asked = Len(Candidates)
    /\ Len(extracted) = 1
    /\ verified' = verified \cup {extracted[1]}
    /\ user' \in User
    /\ answer' \in {"authenticated", "invalid_credential", "internal_error"}
    /\ UNCHANGED <<schemes, allowed, headers, session, asked, extracted>>

\* Faulty: a provider may return without a user.
VerifyFalsy ==
    /\ answer = "none" /\ asked = Len(Candidates)
    /\ Len(extracted) = 1
    /\ verified' = verified \cup {extracted[1]}
    /\ answer' = "authenticated" /\ user' \in User \cup {"falsy"}
    /\ UNCHANGED <<schemes, allowed, headers, session, asked, extracted>>

\* The one provider vouches for a user, refuses, or breaks its contract.
Verify ==
    /\ answer = "none" /\ asked = Len(Candidates)
    /\ Len(extracted) = 1
    /\ verified' = verified \cup {extracted[1]}
    /\ \/ answer' = "authenticated" /\ user' \in User \cup {Public}
       \/ answer' \in {"invalid_credential", "internal_error"} /\ UNCHANGED user
    /\ UNCHANGED <<schemes, allowed, headers, session, asked, extracted>>

Resolved ==
    /\ answer # "none"
    /\ UNCHANGED authVars

AuthNext == ExtractNext \/ Refuse \/ Verify \/ Resolved

AuthSpec == AuthInit /\ [][AuthNext]_authVars

----------------------------------------------------------------------------
(* Properties *)

AuthTypeOK ==
    /\ schemes \in Seq(Code) /\ allowed \subseteq Provider /\ headers \in Headers
    /\ asked \in 0 .. Len(Candidates)
    /\ extracted \in Seq(Code) /\ verified \subseteq Code
    /\ {user, session} \subseteq User \cup {Public}
    /\ answer \in {"none", "authenticated", "malformed_credential",
                   "multiple_credentials", "authentication_required",
                   "invalid_credential", "internal_error"}

\* The schemes a request carries a credential for, whatever their order.
Carried == {c \in ToSet(schemes) :
              (allowed = {} \/ c \in allowed) /\ Extract(c, headers) = "credential"}

\* The session's user is replaced, and the endpoint reached, only if the request
\* carries one credential of an active scheme the route accepts, and that scheme's
\* provider, and no other, was asked to verify: no provider is fallen through to,
\* no error leaves its user behind, and a cookie vouches for nobody.
IdentityIsVouchedFor ==
    /\ user # session => answer = "authenticated"
    /\ answer = "authenticated" => Cardinality(Carried) = 1 /\ verified = Carried
    /\ Cardinality(verified) <= 1

\* Which error a request is refused with, and whether a provider is asked at all,
\* depends on the set of the active schemes and not on their sequence.
OrderDoesNotMatter ==
    LET basic == "basic" \in ToSet(Candidates)
        error == IF basic THEN Extract("basic", headers) ELSE "none"
    IN  /\ answer = "malformed_credential" => error = answer
        /\ answer # "none" /\ error \in ExtractError => answer = error
        /\ answer = "multiple_credentials" => Cardinality(Carried) > 1
        /\ answer = "authentication_required" => Carried = {}
        /\ verified # {} => Cardinality(Carried) = 1

\* What the providers of one header promise each other: an opaque token, which
\* only the bearer scheme knows, is never ambiguous, and no token is claimed by
\* both the JWT and the OAuth2 scheme.
TokensAreToldApart ==
    answer = "multiple_credentials" =>
        /\ headers.authorization = "bearer_opaque" => headers.api_key = "key"
        /\ headers.api_key # "key" => "bearer" \in ToSet(Candidates)

====
