CONSTANTS
    Walker = {c1}
    Caller = {c2}
    Handler = {h1, h2}
    Key = {k1, k2}
    NoKey = NoKey
    NoRequest = NoRequest
    PageSize = 1
    Expiry = 1
    MaxRows = 2
    MaxGeneration = 1
SYMMETRY Symmetry
SPECIFICATION Spec
INVARIANTS
    TypeOK
    AppliedOncePerKey
    WalkComplete
