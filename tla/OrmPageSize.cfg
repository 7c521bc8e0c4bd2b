\* Three records and a largest page of two.
SPECIFICATION OrmSpec
CONSTANTS
    p1 = p1
    p2 = p2
    p3 = p3
    o1 = o1
    p4 = p4
    Unset = Unset
    Invalid = Invalid
    MaxDepth = 4
    Schema <- MCSchema
    Databases <- MCDatabases
    Order <- MCOrder
    Queries <- MCQueries
    DefaultPageSize = 1
    MaxPageSize = 2
INVARIANT PagesAreBounded
