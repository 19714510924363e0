SPECIFICATION Spec
CONSTANTS
    Jobs = {j1, j2}
    Vaults = {v1}
    Proposals = {x1}
    PoolSize = 2
    MinReimbursement = 1
    SplitPerTx = 1
    Contents <- MCContents
    Reimbursements = {2, 3}
    SignerCounts = {0, 2}
    None = None
    MaxSlot = 1
SYMMETRY Interchangeable
INVARIANTS TypeOK PoolHasNoGap SuccessHasLanded SetupIsComplete ExecutedIsExecuted NonceSharedOnlyInOneBlock
CHECK_DEADLOCK FALSE
