\* Two requests on fair threads that beat each other to a row, on both kinds of
\* cursor, and are beaten by others.
SPECIFICATION FairSpec
CONSTANTS
    r1 = r1
    r2 = r2
    home = home
    branch = branch
    bogus = bogus
    None = None
    Bogus = bogus
    Request = {r1, r2}
    Route <- MCWritingRoutes
    EndpointRow <- MCRacingRows
    Company = {home}
    DefaultCompany = home
    MaxTries = 2
    MaxChanges = 0
    Asked = {None}
    Sent = {"sound"}
    Presented = {"plain"}
INVARIANT AnswerTellsEffect
PROPERTY Answered
