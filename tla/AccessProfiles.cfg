\* Two profiles in every state that administrators can bring them to.
SPECIFICATION Spec
CONSTANTS
    p1 = p1
    p2 = p2
    u1 = u1
    g = g
    Every = Every
    None = None
    Profile = {p1, p2}
    User = {u1}
    Group = {g}
    Rule <- MCRules
    Described <- MCDescribed
    Endpoint <- MCEndpoint
    MaxRules = 2
SYMMETRY ProfileSymmetry
INVARIANT TypeOK
PROPERTIES
    AddedRuleTakesItsPlace
    OnlyThoseItGoverns
    MoreProfilesNeverNarrow
