\* Four requests of two clients, one public, before anything expires: exchanges of
\* one code, refreshes, uses, reads on a lagging replica and revocations in every
\* order.
SPECIFICATION Spec
CONSTANTS
    r1 = r1
    r2 = r2
    r3 = r3
    r4 = r4
    web = web
    spa = spa
    None = None
    Confidential = {web}
    alice = alice
    User = {alice}
    Grants <- MCGrants
    ClientScope <- MCClientScope
    Lifetime <- MCLifetime
    MaxTries = 2
    Request = {r1, r2, r3, r4}
    Client = {web, spa}
    Scope = {}
    MaxClock = 0
    Ops = {"authorize", "authorization_code", "refresh_token", "revoke",
           "use", "read", "client_credentials", "action_revoke"}
    Faults = {}
    Administered = {}
SYMMETRY RequestSymmetry
INVARIANTS
    CodeRedeemedOnce
    RevocationIsHeeded
    OwnerlessIsClientCredentials
PROPERTIES
    RevokedByItsOwn
    LedgerSpec
