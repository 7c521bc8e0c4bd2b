---- MODULE MCApiKey ----
(***************************************************************************)
(* A small instance of ApiKey.                                             *)
(***************************************************************************)
EXTENDS ApiKey, TLC

CONSTANTS r1, r2, r3

RequestSymmetry == Permutations(Request)

====
