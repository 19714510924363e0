SPECIFICATION FairSpec
CONSTANTS
    Evm <- MCEvm
    Period = 2
    Static = {"doge"}
    Requests = {q1}
    Patience = 1
    MaxRound = 3
    MaxTries = 2
INVARIANTS
    FeesFresh
PROPERTIES
    RatesForward
    FeesAnswered
CHECK_DEADLOCK FALSE
