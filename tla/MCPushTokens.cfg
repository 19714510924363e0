CONSTANTS
    WkIdentities = {w1, w2}
    RecordIds = {i1, i2, i3, i4}
    Tokens = {t1, t2}
    NoToken = NoToken
    Registrars = {r1, r2}
    Notifiers = {n1}
    Limit = 1
    MaxStarts = 4
    MaxSends = 2
SYMMETRY Interchangeable
SPECIFICATION TokenSpec
INVARIANTS
    TokenTypeOK
    OneRecordPerToken
    QuotaOverrun
PROPERTIES
    CleanUpStaysHome
CHECK_DEADLOCK FALSE
