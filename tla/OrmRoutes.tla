---- MODULE OrmRoutes ----
(***************************************************************************)
(* One request to a route of ssi_rest_api_orm, from its arguments to its   *)
(* reply: the model, the page, the search or the write, and the records    *)
(* serialised as the query asks. The rest of its life is RestRequest's: a  *)
(* reply that is an error rolls the attempt back.                          *)
(***************************************************************************)
EXTENDS Serializer

CONSTANTS
    Databases,          \* the records a request may meet
    Order,              \* the sequence a search returns them in
    Queries,            \* what callers ask of the routes that return records
    Invalid,            \* a name that a constraint of the model refuses
    DefaultPageSize,    \* ssi_rest_api.default_page_size
    MaxPageSize         \* ssi_rest_api.max_page_size

Operation == {"search", "search_read", "read", "write", "create"}

\* What ir.model.access gives the caller of the model: nothing, its records to read, or
\* to read and to change as the request does.
Grant == {"none", "read", "change"}

\* The records of a model.
Of(rows, m) == {x \in DOMAIN rows : rows[x].model = m}

\* A relation leads to records of its comodel.
WellTyped(rows) ==
    \A x \in DOMAIN rows :
        /\ DOMAIN rows[x] = {"model", "visible", "values"}
        /\ rows[x].model \in DOMAIN Schema /\ rows[x].visible \in BOOLEAN
        /\ DOMAIN rows[x].values = DOMAIN Schema[rows[x].model]
        /\ \A f \in DOMAIN Schema[rows[x].model] :
            LET field == FieldOf(rows[x].model, f) IN
            /\ field.type = "many2one" =>
                rows[x].values[f] \in Of(rows, field.comodel) \cup {Unset}
            /\ field.type = "x2many" => rows[x].values[f] \subseteq Of(rows, field.comodel)

ASSUME OrmAssumption ==
    /\ DefaultPageSize \in Int /\ MaxPageSize \in Int
    /\ Order \in Seq(ToSet(Order)) /\ IsInjective(Order)
    /\ \A rows \in Databases : Unset \notin DOMAIN rows /\ WellTyped(rows)
    /\ \A q \in Queries :
        /\ q.operation \in Operation
        /\ q.limit \in Int \cup {Unset} /\ q.offset \in Nat
        /\ q.ids \in Seq(ToSet(q.ids)) /\ q.paths \in Seq(Path)
        /\ \A p \in ToSet(q.paths) : Len(p) \in 1 .. MaxDepth

\* What is read and written exists and what is created does not.
ASSUME RecordsAssumption ==
    \A rows \in Databases, q \in Queries :
        /\ q.operation \in {"read", "write"} => ToSet(q.ids) \subseteq Of(rows, q.model)
        /\ q.operation = "create" => /\ Len(q.ids) = 1
                                     /\ q.ids[1] \notin DOMAIN rows \cup {Unset}

VARIABLES
    db,         \* the records, as the request's transaction sees them
    query,      \* the request
    grant,      \* the caller's right to the model
    reply       \* what it was answered

ormVars == <<db, query, grant, reply>>

NoReply == [status |-> "none", records |-> <<>>, shown |-> {}, length |-> 0]

OrmInit ==
    /\ db \in Databases
    /\ query \in Queries
    /\ grant \in Grant
    /\ grant = "none" => \A x \in Of(db, query.model) : ~db[x].visible
    /\ reply = NoReply

----------------------------------------------------------------------------
(* The arguments *)

\* paginate: clamped, never refused.
Paginate(limit) ==
    IF limit = Unset THEN DefaultPageSize
    ELSE IF limit < MaxPageSize THEN limit ELSE MaxPageSize

\* search(): all of the model that record rules leave.
Matching(rows) ==
    Kept(Order, {x \in DOMAIN rows : rows[x].model = query.model /\ rows[x].visible})

\* LIMIT and OFFSET: a limit of 0 is no limit, a negative number an error.
Page(found, limit, offset) ==
    IF limit = 0 THEN SubSeq(found, offset + 1, Len(found))
    ELSE SubSeq(found, offset + 1, IF offset + limit < Len(found) THEN offset + limit
                                   ELSE Len(found))

Specification == SpecificationFromQuery(query.paths)

\* A response to a write names its records.
WithId(spec) == spec \cup {<<"id">>}

Serialized(rows, records, spec) ==
    SerializeRecords(rows, query.model, ToSet(records), spec, query.m2o)

ReplyError(status) == reply' = [NoReply EXCEPT !.status = status]

\* The envelope of an error, or the records and what is shown of them.
Return(out, records, length) ==
    CASE out.status = "invalid" -> ReplyError("validation_error")
      [] out.status = "denied" -> ReplyError("access_denied")
      [] out.status = "ok" -> reply' = [status |-> "ok", records |-> records,
                                        shown |-> out.shown, length |-> length]

Asking(operation) ==
    /\ reply = NoReply
    /\ query.operation = operation
    /\ UNCHANGED <<query, grant>>

----------------------------------------------------------------------------
(* The routes *)

MissingModel ==
    /\ \E operation \in Operation : Asking(operation)
    /\ query.model \notin DOMAIN Schema
    /\ ReplyError("missing_record")
    /\ UNCHANGED db

OrmRead ==
    /\ Asking("read")
    /\ query.model \in DOMAIN Schema
    /\ Return(Serialized(db, query.ids, Specification), query.ids, Len(query.ids))
    /\ UNCHANGED db

\* Identifiers alone, whatever the query asks to see.
OrmSearch ==
    /\ Asking("search")
    /\ query.model \in DOMAIN Schema
    /\ LET limit == Paginate(query.limit)
           page == Page(Matching(db), limit, query.offset)
       IN IF grant = "none" THEN ReplyError("access_denied")
          ELSE IF limit < 0 THEN ReplyError("internal_error")
          ELSE Return(Serialized(db, page, {<<"id">>}), page, Len(Matching(db)))
    /\ UNCHANGED db

\* Faulty: the length is the page's.
OrmSearchReadCountingPage ==
    /\ Asking("search_read")
    /\ query.model \in DOMAIN Schema
    /\ LET limit == Paginate(query.limit)
           page == Page(Matching(db), limit, query.offset)
       IN IF grant = "none" THEN ReplyError("access_denied")
          ELSE IF limit < 0 THEN ReplyError("internal_error")
          ELSE Return(Serialized(db, page, Specification), page, Len(page))
    /\ UNCHANGED db

OrmSearchRead ==
    /\ Asking("search_read")
    /\ query.model \in DOMAIN Schema
    /\ LET limit == Paginate(query.limit)
           page == Page(Matching(db), limit, query.offset)
       IN IF grant = "none" THEN ReplyError("access_denied")
          ELSE IF limit < 0 THEN ReplyError("internal_error")
          ELSE Return(Serialized(db, page, Specification), page, Len(Matching(db)))
    /\ UNCHANGED db

\* The records as the write leaves them, if the caller may, a constraint does not refuse
\* them and the specification is valid; as they were otherwise. No record is written
\* whatever the right to.
OrmWrite ==
    /\ Asking("write")
    /\ query.model \in DOMAIN Schema
    /\ LET rows == [x \in DOMAIN db |->
                      IF x \in ToSet(query.ids) THEN [db[x] EXCEPT !.values.name = query.name]
                      ELSE db[x]]
           out == Serialized(rows, query.ids, WithId(Specification))
       IN IF query.name = Unset THEN ReplyError("validation_error") /\ UNCHANGED db
          ELSE IF \E x \in ToSet(query.ids) : grant # "change" \/ ~db[x].visible
          THEN ReplyError("access_denied") /\ UNCHANGED db
          ELSE IF query.name = Invalid /\ query.ids # <<>>
          THEN ReplyError("validation_error") /\ UNCHANGED db
          ELSE /\ Return(out, query.ids, Len(query.ids))
               /\ db' = IF out.status = "ok" THEN rows ELSE db

OrmCreate ==
    /\ Asking("create")
    /\ query.model \in DOMAIN Schema
    /\ LET new == query.ids[1]
           Value(f) == CASE f = "id" -> new
                         [] f = "name" -> query.name
                         [] FieldOf(query.model, f).type = "x2many" -> {}
                         [] OTHER -> Unset
           row == [model |-> query.model, visible |-> TRUE,
                   values |-> [f \in DOMAIN Schema[query.model] |-> Value(f)]]
           rows == [x \in DOMAIN db \cup {new} |-> IF x = new THEN row ELSE db[x]]
           out == Serialized(rows, query.ids, WithId(Specification))
       IN IF query.name = Unset THEN ReplyError("validation_error") /\ UNCHANGED db
          ELSE IF grant # "change" THEN ReplyError("access_denied") /\ UNCHANGED db
          ELSE IF query.name = Invalid THEN ReplyError("validation_error") /\ UNCHANGED db
          ELSE /\ Return(out, query.ids, 1)
               /\ db' = IF out.status = "ok" THEN rows ELSE db

Replied ==
    /\ reply # NoReply
    /\ UNCHANGED ormVars

OrmNext == Replied \/ MissingModel \/ OrmRead \/ OrmSearch \/ OrmSearchRead \/ OrmWrite \/ OrmCreate

OrmSpec == OrmInit /\ [][OrmNext]_ormVars

----------------------------------------------------------------------------
(* Properties *)

Served == reply.status = "ok"

\* The paths a reply must answer, the implied id of a write's among them.
AskedFor ==
    CASE query.operation \in {"write", "create"} -> Closure(query.paths) \cup {<<"id">>}
      [] query.operation = "search" -> {<<"id">>}
      [] OTHER -> Closure(query.paths)

Searching == query.operation \in {"search", "search_read"}

\* The top-level records of a reply, by their place in the search.
Chosen ==
    IF Searching
    THEN LET found == Matching(db) IN
         {found[i] : i \in {i \in DOMAIN found : /\ i > query.offset
                                               /\ i <= query.offset + Len(reply.records)}}
    ELSE ToSet(query.ids)

\* The caller has no right to do this to the model, or to one of the records.
Forbidden ==
    \/ Searching /\ grant = "none"
    \/ query.operation = "create" /\ grant # "change"
    \/ /\ query.operation = "write"
       /\ \E x \in ToSet(query.ids) : grant # "change" \/ ~db[x].visible

\* A reply shows, at every depth, the current values of exactly those fields which
\* the paths lead to and the caller's groups and record rules allow, in whichever
\* order the paths were listed, and never of what the caller has no right to ask; access
\* is denied only for want of that right, or for a record that cannot be read.
ShownAsAsked ==
    LET Hidden(x) == \E need \in Needed(db, x, AskedFor, query.m2o) : ~MayRead(db, need[1], need[2])
    IN  /\ Served /\ WellFormed(query.model, AskedFor) =>
            /\ ~Forbidden
            /\ reply.shown = UNION {Wanted(db, x, AskedFor, query.m2o) : x \in Chosen}
            /\ IF Searching THEN Cardinality(Chosen) = Len(reply.records)
               ELSE reply.records = query.ids
            /\ \A x \in Chosen : ~Hidden(x)
        /\ reply.status = "access_denied" /\ WellFormed(query.model, AskedFor) =>
            \/ Forbidden
            \/ \E x \in DOMAIN db : db[x].model = query.model /\ Hidden(x)

\* A specification is accepted or refused for what it says: never accepted because
\* no record, or none on the way down, was there to serialise. The values of a write or a
\* creation are the other thing that may be refused.
RefusedAsWritten ==
    /\ Served => WellFormed(query.model, AskedFor)
    /\ reply.status = "validation_error" =>
        \/ ~WellFormed(query.model, AskedFor)
        \/ query.operation \in {"write", "create"} /\ query.name \in {Unset, Invalid}

\* A caller that asks for a page and gets less has reached the end or the largest
\* page there is, and the length beside it tells which, whatever was clamped.
ShortPageIsLast ==
    Served /\ Searching =>
        LET end == query.offset + Len(reply.records) >= reply.length IN
        /\ query.limit # Unset =>
            end \/ Len(reply.records) >= query.limit \/ Len(reply.records) = MaxPageSize
        /\ end <=> \A i \in DOMAIN Matching(db) : i <= query.offset + Len(reply.records)

\* "Upper bound a client can request for page size, regardless of what it asks for"
\* (the help of ssi_rest_api.max_page_size).
PagesAreBounded ==
    Served /\ Searching => Len(reply.records) <= MaxPageSize

====
