---- MODULE MCOrmRoutes ----
(***************************************************************************)
(* A small instance of OrmRoutes: partners, one of whom may have another   *)
(* as parent, and a user, any of whom record rules may hide; a field that  *)
(* groups= keeps from the caller; paths that exist and that do not.        *)
(***************************************************************************)
EXTENDS OrmRoutes, TLC

CONSTANTS p1, p2, p3, o1, p4

Field(type, comodel) == [type |-> type, comodel |-> comodel, restricted |-> FALSE]

MCSchema ==
    [partner |-> [id |-> Field("id", ""), name |-> Field("scalar", ""),
                  secret |-> [Field("scalar", "") EXCEPT !.restricted = TRUE],
                  parent |-> Field("many2one", "partner"),
                  children |-> Field("x2many", "partner"),
                  user |-> Field("many2one", "user")],
     user |-> [id |-> Field("id", ""), name |-> Field("scalar", ""),
               login |-> Field("scalar", "")]]

Partner(x, parent, children, user) ==
    [id |-> x, name |-> "old", secret |-> "secret", parent |-> parent, children |-> children,
     user |-> user]

\* p1 is below p2 or not; p2 has a user or not. No partner is seen, or p3 is.
MCDatabases ==
    {(p1 :> [model |-> "partner", visible |-> p1 \in seen, values |-> Partner(p1, up, {}, Unset)])
     @@ (p2 :> [model |-> "partner", visible |-> p2 \in seen,
               values |-> Partner(p2, Unset, IF up = p2 THEN {p1} ELSE {}, owner)])
     @@ (p3 :> [model |-> "partner", visible |-> p3 \in seen,
               values |-> Partner(p3, Unset, {}, Unset)])
     @@ (o1 :> [model |-> "user", visible |-> o1 \in seen,
               values |-> [id |-> o1, name |-> "user", login |-> "login"]])
     : seen \in {s \in SUBSET {p1, p2, p3, o1} : s \subseteq {o1} \/ p3 \in s},
       up \in {Unset, p2}, owner \in {Unset, o1}}

MCOrder == <<p1, p2, p3>>

MCPath ==
    {<<"name">>, <<"secret">>, <<"parent">>, <<"children">>, <<"parent", "name">>,
     <<"parent", "user", "login">>, <<"children", "id">>, <<"children", "parent", "secret">>,
     <<"parent", "login">>, <<"children", "parent", "name", "id">>}

\* No path, one or two of them, in either order.
MCPaths == {<<>>} \cup {<<p>> : p \in MCPath} \cup {<<p, q>> : p, q \in MCPath}

Query(operation, model, ids, limit, offset, paths, m2o, name) ==
    [operation |-> operation, model |-> model, ids |-> ids, limit |-> limit, offset |-> offset,
     paths |-> paths, m2o |-> m2o, name |-> name]

MCQueries ==
    {Query("read", "partner", ids, Unset, 0, paths, m2o, Unset) :
        ids \in {<<p1>>, <<p2, p1>>}, paths \in MCPaths, m2o \in {"id", "pair"}}
    \cup {Query("search", "partner", <<>>, limit, offset, <<>>, "pair", Unset) :
        limit \in {Unset, -1, 0, 1, 2, 3}, offset \in {0, 2}}
    \cup {Query("search_read", "partner", <<>>, limit, offset, paths, "pair", Unset) :
        limit \in {Unset, -1, 0, 1, 2, 3}, offset \in {0, 2},
        paths \in {<<>>, <<<<"parent">>>>, <<<<"parent", "login">>>>}}
    \cup {Query("write", "partner", ids, Unset, 0, paths, "pair", name) :
        ids \in {<<>>, <<p1>>, <<p2, p1>>}, name \in {Unset, Invalid, "new"},
        paths \in {<<>>, <<<<"name">>>>, <<<<"parent">>>>, <<<<"parent", "login">>>>}}
    \cup {Query("create", model, <<p4>>, Unset, 0, paths, "pair", name) :
        model \in {"partner", "nothing"}, name \in {Unset, Invalid, "new"},
        paths \in {<<>>, <<<<"name">>>>, <<<<"children", "login">>>>}}

====
