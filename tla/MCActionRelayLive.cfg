CONSTANTS
    Identities = {w1}
    Keys = {k1}
    Wallets = {}
    Posts = {p1, p2}
    Joins = {j1, j2}
    Actions = {"tx", "other"}
    None = None
    MaxCrashes = 1
SPECIFICATION FairSpec
PROPERTIES
    StoredActionReachesKey
CHECK_DEADLOCK FALSE
