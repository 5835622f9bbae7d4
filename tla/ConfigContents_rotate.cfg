CONSTANTS
    Rotation = {p1, p2}
    Sender = {p2}
    Endpoint = {e1, e2}
    Secret = {s1, s2, s3}
SPECIFICATION Spec
INVARIANTS
    TypeOK
    SignedTogether
    RotationTrue
    UpdatesSurvive
PROPERTIES
    DeletedFrozen
