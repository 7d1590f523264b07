SPECIFICATION Spec
CONSTANTS
    u1 = u1
    u2 = u2
    Users = {u1, u2}
    Approved <- NoApproval
    Epochs <- TwoEpochs
    BlockTimes = {1, 5}
    Amounts = {5}
    Shares = {3}
    DepositCap = 10
    LateCap = 3
    QueueCap = 0
    Operations = {1, 2}
    Claims = {4, 13}
    RelayerFees = {2}
    DepositFees = {0}
    minQueueDeposit = 3
    EmissionAmounts = {7}
    CleanUps <- SingleCleanUps
    WAD = 1000
INVARIANTS TypeOK QueueIndexed EpochsBacked SharesLocked EmissionsBacked CarouselInv FreeExitsFunded
PROPERTY RolloverFair
SYMMETRY UserSymmetry
CHECK_DEADLOCK FALSE
