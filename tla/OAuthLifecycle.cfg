\* Three requests, exchanges, refreshes and revocations, also with a credential of the
\* wrong kind, while tokens expire, the autovacuum runs, an administrator archives,
\* restores and deletes the client or deletes the user, and the user unlinks rows.
SPECIFICATION Spec
CONSTANTS
    r1 = r1
    r2 = r2
    r3 = r3
    r4 = r4
    web = web
    spa = spa
    None = None
    Confidential = {web}
    alice = alice
    User = {alice}
    Grants <- MCGrants
    ClientScope <- MCClientScope
    Lifetime <- MCLifetime
    MaxTries = 2
    Request = {r1, r2, r3}
    Client = {web}
    Scope = {}
    MaxClock = 2
    Ops = {"authorize", "authorization_code", "refresh_token", "revoke"}
    Faults = {"kind"}
    Administered = {web, alice}
SYMMETRY RequestSymmetry
CONSTRAINT OneIsChanged
INVARIANTS
    TypeOK
    FollowsItsParent
    AnswerTellsEffect
    RevokeTakesEffect
