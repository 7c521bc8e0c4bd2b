---- MODULE MCAccessProfile ----
(***************************************************************************)
(* A small instance of AccessProfile: two profiles, a user and a group, and *)
(* four rules of which two pairs share a sequence.                         *)
(***************************************************************************)
EXTENDS AccessProfile, TLC

CONSTANTS p1, p2, u1, g

\* A call of an ORM route, whose model is in its path, one of a route without an
\* operation, and the custom endpoint's call as the dispatcher sees it.
Orm == [path |-> "orm", method |-> "GET", model |-> None, operation |-> "read"]

Ping == [path |-> "ping", method |-> "GET", model |-> None, operation |-> None]

Custom == [path |-> "x/close", method |-> "POST", model |-> None, operation |-> None]

MCDescribed == {Orm, Ping, Custom}

\* The same call, as _check_rest_access describes it.
MCEndpoint == [path |-> "close", method |-> "POST", model |-> "sale", operation |-> "call"]

AnyRule == [sequence |-> 2, effect |-> "allow", paths |-> Every, invert |-> FALSE,
            methods |-> Every, models |-> Every, operation |-> "any"]

MCRules ==
    {[AnyRule EXCEPT !.methods = {"GET"}],
     [AnyRule EXCEPT !.sequence = 1, !.effect = "deny", !.paths = {"orm"}],
     [AnyRule EXCEPT !.effect = "deny", !.paths = {"orm"}, !.invert = TRUE],
     [AnyRule EXCEPT !.sequence = 1, !.models = {"sale"}, !.operation = "call"]}

ProfileSymmetry == Permutations(Profile)

====
