\* A retried request leaves the row of each attempt that reached post_dispatch.
SPECIFICATION Spec
CONSTANTS
    r1 = r1
    r2 = r2
    home = home
    branch = branch
    bogus = bogus
    None = None
    Bogus = bogus
    Request = {r1}
    Route <- MCRoutes
    EndpointRow <- MCMislabelledRow
    Company = {home, branch}
    DefaultCompany = home
    MaxTries = 2
    MaxChanges = 0
    Asked = {None}
    Sent = {"sound"}
    Presented = {"plain"}
INVARIANT OneRowPerAnswer
