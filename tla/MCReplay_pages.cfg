CONSTANTS
    Walker = {c1}
    Caller = {}
    Handler = {h1, h2}
    Key = {k1, k2}
    NoKey = NoKey
    NoRequest = NoRequest
    PageSize = 1
    Expiry = 0
    MaxRows = 3
    MaxGeneration = 1
SYMMETRY Symmetry
SPECIFICATION Spec
INVARIANTS
    WalkComplete
    PagesDisjoint
