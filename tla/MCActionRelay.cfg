CONSTANTS
    Identities = {w1, w2}
    Keys = {k1, k2}
    Wallets = {m1}
    Posts = {p1, p2}
    Joins = {j1, j2}
    Actions = {"tx", "txid"}
    None = None
    MaxCrashes = 1
SYMMETRY RequestSymmetry
SPECIFICATION Spec
INVARIANTS
    TypeOK
    NoMissedAction
    DeliveryJustified
PROPERTY
    ImplementsMailbox
CHECK_DEADLOCK FALSE
