CONSTANTS
    Requests = {r1, r2}
    Identities = {w1}
    Clients = {c1}
    RequestTimeout = 1
    ShutdownTimeout = 1
    None = None
    MaxRestarts = 1
SPECIFICATION FairSpec
INVARIANTS
    KeyNotUndone
    OnePerIdentity
    UnaskedShutdown
PROPERTIES
    NoRequestAbandoned
    ShutdownEnds
    EveryRequestAnswered
    ImplementsUpserts
CHECK_DEADLOCK FALSE
