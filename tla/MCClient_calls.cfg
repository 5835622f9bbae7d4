CONSTANTS
    c1 = c1
    c2 = c2
    Call = {c1, c2}
    GlobalRetry = "connection"
    Options <- MCOptions
    MaxElapsed = 1
    Intervals = {1}
    Lifetimes = {2}
    Margin = 1
    HttpTimeout = 1
    KeyLifetime = 2
SPECIFICATION Spec
INVARIANTS
    TypeOK
    TokenFits
    ResultTrue
PROPERTIES
    ExecutedOnce
    Returns
