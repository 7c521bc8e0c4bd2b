\* Two threads of one process: two changes of a scheme, or an edit and a rotation of
\* keys on a clock that outlives the time to live and a fetch; one credential against
\* every list of active schemes; one request for records.
SPECIFICATION Spec
CONSTANTS
    t1 = t1
    t2 = t2
    k1 = k1
    k2 = k2
    NoList = NoList
    None = None
    Unset = Unset
    Invalid = Invalid
    Reader = {t1, t2}
    Scheme = {"jwt", "oauth2"}
    MaxWrites = 2
    Thread = {t1, t2}
    Url = {u1, u2}
    Key = {k1, k2}
    KeySet <- MCKeySet
    TimeToLive = 1
    FetchTime = 1
    MaxClock = 3
    MaxEdits = 1
    MaxRotations = 1
    Code = {"basic", "bearer", "apikey", "jwt", "oauth2"}
    Restriction <- MCRestriction
    User = {alice}
    Public = public
    p1 = p1
    p2 = p2
    p3 = p3
    o1 = o1
    p4 = p4
    MaxDepth = 4
    Schema <- MCSchema
    Databases <- MCDatabases
    Order <- MCOrder
    Queries <- MCQueries
    DefaultPageSize = 1
    MaxPageSize = 2
SYMMETRY Symmetry
INVARIANTS
    SchemeTypeOK
    SchemesAreCurrent
    KeyTypeOK
    AcceptedByRecentKey
    ServedKeyIsFound
    EditDropsKeys
    AuthTypeOK
    IdentityIsVouchedFor
    OrderDoesNotMatter
    TokensAreToldApart
    ShownAsAsked
    RefusedAsWritten
    ShortPageIsLast
