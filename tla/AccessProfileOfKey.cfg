\* A key of one profile, and its user governed by another one.
SPECIFICATION Spec
CONSTANTS
    p1 = p1
    p2 = p2
    u1 = u1
    g = g
    Every = Every
    None = None
    Profile = {p1, p2}
    User = {u1}
    Group = {g}
    Rule <- MCRules
    Described <- MCDescribed
    Endpoint <- MCEndpoint
    MaxRules = 2
INVARIANT KeyCarriesItsProfile
