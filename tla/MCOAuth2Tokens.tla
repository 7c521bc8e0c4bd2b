---- MODULE MCOAuth2Tokens ----
(***************************************************************************)
(* A small instance of OAuth2Tokens: a confidential client that may use    *)
(* every grant and a public one that may not use refresh_token, none with  *)
(* the scope "write", and refresh tokens that live longer than the others. *)
(***************************************************************************)
EXTENDS OAuth2Tokens, TLC

CONSTANTS web, spa, alice, r1, r2, r3, r4

MCGrants == [c \in Client |->
    IF c \in Confidential THEN GrantType ELSE GrantType \ {"refresh_token"}]

MCClientScope == [c \in Client |-> Scope \ {"write"}]

MCLifetime == [c \in Client |-> [k \in Kind |-> IF k = "refresh" THEN 2 ELSE 1]]

\* Where the user is deleted, nobody changes the client: a behaviour is about one.
OneIsChanged == departed = {} \/ \A c \in Client : clients[c] = "active"

RequestSymmetry == Permutations(Request)

====
