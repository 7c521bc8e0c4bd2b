\* One request to every kind of route, on both kinds of cursor, while others
\* update its row, an administrator changes the caller's authority twice
\* and the replica lags.
SPECIFICATION Spec
CONSTANTS
    r1 = r1
    r2 = r2
    home = home
    branch = branch
    bogus = bogus
    None = None
    Bogus = bogus
    Request = {r1}
    Route <- MCRoutes
    EndpointRow <- MCEndpointRows
    Company = {home, branch}
    DefaultCompany = home
    MaxTries = 3
    MaxChanges = 2
    Asked <- MCAsked
    Sent = {"sound", "malformed", "oversized"}
    Presented = {"plain", "unclear"}
INVARIANTS
    TypeOK
    AnswerTellsEffect
    ServedUnderOneAuthority
    LogTellsAnswer
    OneRequestId
    RowsNameTheirRequest
