CONSTANTS
    WkIdentities = {w1, w2}
    RecordIds = {i1, i2, i3}
    Tokens = {t1, t2}
    NoToken = NoToken
    Registrars = {r1, r2}
    Notifiers = {n1}
    Limit = 1
    MaxStarts = 3
    MaxSends = 1
SYMMETRY Interchangeable
SPECIFICATION TokenSpec
PROPERTIES
    CleanUpRemovesDead
CHECK_DEADLOCK FALSE
