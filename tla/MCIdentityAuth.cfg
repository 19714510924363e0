SPECIFICATION Spec
CONSTANTS
    Nonces = {n1, n2}
    Window = 3
    TTL = 3
    CacheSize = 1
    Skew = 4
    MaxTime = 8
    MaxRestarts = 1
SYMMETRY NonceSymmetry
INVARIANTS AcceptedOnce RetryNotSpent CacheForgets
PROPERTIES RepetitionsEnd
CHECK_DEADLOCK FALSE
