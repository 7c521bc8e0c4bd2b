\* One request archives the key it authenticates with, and nobody else touches it.
SPECIFICATION Spec
CONSTANTS
    r1 = r1
    r2 = r2
    r3 = r3
    Never = Never
    Request = {r1}
    Ops = {"archive"}
    MaxTries = 2
    MaxClock = 0
INVARIANT OwnKeyIsManageable
