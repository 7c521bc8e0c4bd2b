\* Three requests and clicks on one key: uses, archivals and generations overlap
\* while the key expires.
SPECIFICATION Spec
CONSTANTS
    r1 = r1
    r2 = r2
    r3 = r3
    Never = Never
    Request = {r1, r2, r3}
    Ops = {"read", "archive", "generate", "toggle"}
    MaxTries = 2
    MaxClock = 1
SYMMETRY RequestSymmetry
INVARIANTS
    TypeOK
    DeadKeyIsRefused
    ShownKeyReplacesAll
PROPERTY NoManagementIsLost
