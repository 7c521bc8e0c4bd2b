\* An authorize request may name any scope: the client's scopes do not bound it.
SPECIFICATION Spec
CONSTANTS
    r1 = r1
    r2 = r2
    r3 = r3
    r4 = r4
    web = web
    spa = spa
    None = None
    Confidential = {web}
    alice = alice
    User = {alice}
    Grants <- MCGrants
    ClientScope <- MCClientScope
    Lifetime <- MCLifetime
    MaxTries = 2
    Request = {r1}
    Client = {web, spa}
    Scope = {"read", "write"}
    MaxClock = 0
    Ops = {"authorize", "authorization_code", "refresh_token", "revoke",
           "client_credentials", "action_revoke", "use", "read"}
    Faults = {"params", "secret", "pkce", "kind"}
    Administered = {}
SYMMETRY RequestSymmetry
INVARIANT ScopeWithinClients
