---- MODULE Serializer ----
(***************************************************************************)
(* ssi_rest_serializer: records to JSON by a specification, nested         *)
(* dictionaries of field names, here the set of the paths into them. The   *)
(* comma-separated shorthand is a sequence of dotted paths, merged one     *)
(* after the other. Output is abstracted to what it shows, at whatever     *)
(* depth: triples of a record, a field and the value shown for it.         *)
(***************************************************************************)
EXTENDS Integers, Filtering, SequencesExt, FiniteSets

CONSTANTS
    Schema,     \* Schema[m][f]: type, comodel and whether groups= shuts the caller out
    MaxDepth,   \* the longest path anybody asks for
    Unset       \* what is not given, not set or not there

\* Stands for every field that is shown as it is: its own conversion (dates, digits,
\* rounding, labels) has no bearing on which fields are shown.
Plain == {"id", "scalar"}

Relational == {"many2one", "x2many"}

FieldType == [type : Plain \cup Relational, comodel : STRING, restricted : BOOLEAN]

ASSUME SchemaAssumption ==
    /\ MaxDepth \in Nat \ {0}
    /\ Unset \notin DOMAIN Schema
    /\ \A m \in DOMAIN Schema :
        /\ DOMAIN Schema[m] \subseteq STRING
        /\ {"id", "name"} \subseteq DOMAIN Schema[m]
        /\ Schema[m]["id"].type = "id" /\ Schema[m]["name"].type = "scalar"
        /\ ~Schema[m]["id"].restricted /\ ~Schema[m]["name"].restricted
        /\ \A f \in DOMAIN Schema[m] :
            /\ Schema[m][f] \in FieldType
            /\ Schema[m][f].type \in Relational => Schema[m][f].comodel \in DOMAIN Schema

FieldOf(m, f) == Schema[m][f]

----------------------------------------------------------------------------
(* The specification *)

\* A field name, and those on the way to it.
Path == Seq(STRING)

\* The paths that p passes, itself the last.
PathsTo(p) == {SubSeq(p, 1, n) : n \in 1 .. Len(p)}

\* Faulty: an entry that is there already is replaced.
MergeOver(spec, path) == {p \in spec : Head(p) # Head(path)} \cup PathsTo(path)

\* setdefault on every level: what is there stays.
MergeDottedPath(spec, path) == spec \cup PathsTo(path)

SpecificationFromQuery(paths) ==
    LET merged[n \in 0 .. Len(paths)] ==
            IF n = 0 THEN {} ELSE MergeDottedPath(merged[n - 1], paths[n])
    IN  merged[Len(paths)]

\* The fields of a specification's outer level, and what it has below one of them.
Fields(spec) == {Head(p) : p \in spec}

Below(spec, f) == {Tail(p) : p \in {q \in spec : Len(q) > 1 /\ Head(q) = f}}

\* Faulty: the levels below are left to their own serialisation.
ValidHere(m, spec) ==
    \A f \in Fields(spec) :
        /\ f \in DOMAIN Schema[m]
        /\ Below(spec, f) # {} => FieldOf(m, f).type \in Relational

\* _validate_specification: every level, whatever records there are.
Valid(m, spec) ==
    LET valid[n \in 0 .. MaxDepth] ==
            [model \in DOMAIN Schema |->
                {wanted \in SUBSET Path :
                    \A f \in Fields(wanted) :
                        /\ n > 0 /\ f \in DOMAIN Schema[model]
                        /\ Below(wanted, f) # {} =>
                            /\ FieldOf(model, f).type \in Relational
                            /\ Below(wanted, f) \in valid[n - 1][FieldOf(model, f).comodel]}]
    IN  spec \in valid[MaxDepth][m]

----------------------------------------------------------------------------
(* What the ORM does for a caller without sudo() *)

\* record[f]; an identifier is known without reading.
MayRead(db, x, f) == db[x].visible \/ FieldOf(db[x].model, f).type = "id"

\* A relation to many leaves out what the record rules hide; one to a single record
\* does not.
Related(db, x, f) ==
    IF FieldOf(db[x].model, f).type = "x2many" THEN {y \in db[x].values[f] : db[y].visible}
    ELSE IF db[x].values[f] = Unset THEN {} ELSE {db[x].values[f]}

----------------------------------------------------------------------------
(* Serialisation *)

Shows(triples) == [status |-> "ok", shown |-> triples]

Refused(status) == [status |-> status, shown |-> {}]

\* The failure of a part, or all that the parts show.
Together(parts) ==
    IF \E part \in parts : part.status = "invalid" THEN Refused("invalid")
    ELSE IF \E part \in parts : part.status = "denied" THEN Refused("denied")
    ELSE Shows(UNION {part.shown : part \in parts})

\* {"id", "display_name"}: the name is read from the record itself.
DisplayName(db, x, f, y) ==
    IF MayRead(db, y, "name")
    THEN Shows({<<x, f, y>>, <<y, "name", db[y].values["name"]>>})
    ELSE Refused("denied")

\* Faulty: fields of a restricted group are read like any other.
ReadableAll(m, spec) == Fields(spec)

\* fields_get leaves out what the field's groups keep from the caller.
Readable(m, spec) == {f \in Fields(spec) : ~FieldOf(m, f).restricted}

\* Field f of record x, with the specification that is below it; serialized is what a
\* record shows with one level less.
SerializeValue(db, x, f, nested, m2o, serialized) ==
    LET field == FieldOf(db[x].model, f)
        v == db[x].values[f]
        Expanded == IF Valid(field.comodel, nested)
                    THEN Together({serialized[y][nested] : y \in Related(db, x, f)})
                    ELSE Refused("invalid")
        Many2one == IF v = Unset \/ m2o = "id" THEN Shows({<<x, f, v>>})
                    ELSE IF nested # {} THEN Expanded ELSE DisplayName(db, x, f, v)
        X2many == IF nested # {} THEN Expanded
                  ELSE Shows({<<x, f, y>> : y \in Related(db, x, f)})
    IN  IF ~MayRead(db, x, f) THEN Refused("denied")
        ELSE CASE field.type = "many2one" -> Many2one
               [] field.type = "x2many" -> X2many
               [] OTHER -> Shows({<<x, f, v>>})

SerializeRecords(db, m, records, spec, m2o) ==
    LET serialized[n \in 0 .. MaxDepth] ==
            [x \in DOMAIN db |->
                [wanted \in SUBSET Path |->
                    IF n = 0 THEN Shows({})
                    ELSE Together({SerializeValue(db, x, f, Below(wanted, f), m2o,
                                                  serialized[n - 1])
                                   : f \in Readable(db[x].model, wanted)})]]
    IN  IF Valid(m, spec) THEN Together({serialized[MaxDepth][x][spec] : x \in records})
        ELSE Refused("invalid")

----------------------------------------------------------------------------
(* What it promises, said of the paths that were asked for *)

\* The paths and what is on the way to them.
Closure(paths) == UNION {PathsTo(p) : p \in ToSet(paths)}

\* The model whose field p names, over relations from model m; Unset if there is none.
ModelAt(m, p) ==
    LET at[n \in 0 .. Len(p) - 1] ==
            IF n = 0 THEN m
            ELSE IF /\ at[n - 1] # Unset /\ p[n] \in DOMAIN Schema[at[n - 1]]
                    /\ FieldOf(at[n - 1], p[n]).type \in Relational
            THEN FieldOf(at[n - 1], p[n]).comodel
            ELSE Unset
    IN  at[Len(p) - 1]

WellFormed(m, asked) ==
    \A p \in asked : ModelAt(m, p) # Unset /\ Last(p) \in DOMAIN Schema[ModelAt(m, p)]

\* Where field f of record y leads, if it is a relation that the caller may see.
Followed(db, y, f, m2o) ==
    LET field == FieldOf(db[y].model, f) IN
    IF \/ f \notin DOMAIN Schema[db[y].model] \/ field.restricted
       \/ field.type \notin Relational \/ (field.type = "many2one" /\ m2o = "id")
    THEN {}
    ELSE Related(db, y, f)

\* The records whose field p names, from x.
Reach(db, x, p, m2o) ==
    LET reached[n \in 0 .. Len(p) - 1] ==
            IF n = 0 THEN {x} ELSE UNION {Followed(db, y, p[n], m2o) : y \in reached[n - 1]}
    IN  reached[Len(p) - 1]

\* A field that is expanded is shown by what is below it.
IsExpanded(p, asked) == \E q \in asked : Len(q) > 1 /\ Front(q) = p

\* What is shown for field f of record y.
Triples(db, y, f, expanded, m2o) ==
    LET field == FieldOf(db[y].model, f)
        v == db[y].values[f]
        one == field.type = "many2one" /\ v # Unset /\ m2o # "id"
        many == field.type = "x2many"
    IN  CASE field.restricted \/ ((one \/ many) /\ expanded) -> {}
          [] ~field.restricted /\ one /\ ~expanded ->
                {<<y, f, v>>, <<v, "name", db[v].values["name"]>>}
          [] ~field.restricted /\ many /\ ~expanded -> {<<y, f, z>> : z \in Related(db, y, f)}
          [] OTHER -> {<<y, f, v>>}

\* What path p, one of those asked for, shows from x.
WantedBy(db, x, p, asked, m2o) ==
    UNION {Triples(db, y, Last(p), IsExpanded(p, asked), m2o) : y \in Reach(db, x, p, m2o)}

Wanted(db, x, asked, m2o) == UNION {WantedBy(db, x, p, asked, m2o) : p \in asked}

\* What the caller must be allowed to read for it: a record and a field of it.
NeededBy(db, x, p, m2o) ==
    {<<y, Last(p)>> : y \in {y \in Reach(db, x, p, m2o) :
                               ~FieldOf(db[y].model, Last(p)).restricted}}

Needed(db, x, asked, m2o) ==
    {<<t[1], t[2]>> : t \in Wanted(db, x, asked, m2o)}
    \cup UNION {NeededBy(db, x, p, m2o) : p \in asked}

====
