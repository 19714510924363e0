SPECIFICATION Spec
CONSTANTS
    Identities = {w1, w2}
    Posts = {p1, p2, p3}
    Fields = {f1}
    None = None
    TTL = 1
    Period = 1
    MaxTime = 3
SYMMETRY Interchangeable
INVARIANTS NoStaleSync KeptUntilExpiry FieldsBelong
PROPERTY
    ImplementsUpserts
CHECK_DEADLOCK FALSE
