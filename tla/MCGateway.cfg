SPECIFICATION Spec
CONSTANTS
    k1 = k1
    k2 = k2
    Requests = {q1, q2, q3}
    Bearers = {k1, k2}
    NoBearer = NoBearer
    Addresses = {a1}
    Vaults = {"v", NoVault}
    NoVault = NoVault
    Offered <- MCOffered
    Scopes <- MCScopes
    Limit <- MCLimit
    Window <- MCWindow
    MaxTime = 2
SYMMETRY Interchangeable
INVARIANTS
    TypeOK
    TableSound
    KeyJustified
    FairRefusal
    BurstBounded
CHECK_DEADLOCK FALSE
