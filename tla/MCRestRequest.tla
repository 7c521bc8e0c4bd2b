---- MODULE MCRestRequest ----
(***************************************************************************)
(* A small instance of RestRequest: the user's own company and another, a  *)
(* route that reads, one declared readonly that writes, a public one whose *)
(* update breaks a constraint, one that fails, and the custom endpoints'.  *)
(***************************************************************************)
EXTENDS RestRequest

CONSTANTS r1, r2, home, branch, bogus

Reading == [auth |-> "ssi_rest", custom |-> FALSE, readonly |-> TRUE, does |-> "read"]

Mislabelled == [auth |-> "ssi_rest", custom |-> FALSE, readonly |-> TRUE, does |-> "write"]

Breaking == [auth |-> "public", custom |-> FALSE, readonly |-> FALSE, does |-> "break"]

Failing == [auth |-> "ssi_rest", custom |-> FALSE, readonly |-> FALSE, does |-> "fail"]

\* The wildcard route; its record says the rest.
Custom == [auth |-> "ssi_rest", custom |-> TRUE, readonly |-> FALSE, does |-> "read"]

\* A custom endpoint that reads, one marked readonly that writes, one that writes
\* and says so, one that writes and then raises, one whose list leaves the caller out, and an archived one.
MCEndpointRows ==
    {[active |-> TRUE, readonly |-> TRUE, open |-> TRUE, does |-> "read"],
     [active |-> TRUE, readonly |-> TRUE, open |-> TRUE, does |-> "write"],
     [active |-> TRUE, readonly |-> FALSE, open |-> TRUE, does |-> "write"],
     [active |-> TRUE, readonly |-> FALSE, open |-> TRUE, does |-> "spoil"],
     [active |-> TRUE, readonly |-> FALSE, open |-> FALSE, does |-> "write"],
     [active |-> FALSE, readonly |-> TRUE, open |-> TRUE, does |-> "write"]}

\* One that writes on either kind of cursor,
MCMislabelledRow == {[active |-> TRUE, readonly |-> TRUE, open |-> TRUE, does |-> "write"]}

\* and one that raises with its update still to be rolled back.
MCRacingRows ==
    MCMislabelledRow
    \cup {[active |-> TRUE, readonly |-> FALSE, open |-> TRUE, does |-> "spoil"]}

MCRoutes == {Reading, Mislabelled, Breaking, Failing, Custom}

MCWritingRoutes == {Breaking, Custom}

MCAsked == {None, branch, bogus}

====
