SPECIFICATION Spec
CONSTANTS
    Users = {"u1"}
    Approved <- NoApproval
    Epochs <- OneEpoch
    BlockTimes = {1, 2, 3}
    Amounts = {4, 100}
    Shares = {104}
    DepositCap = 104
    LateCap = 4
    QueueCap = 2
    Operations = {1, 5}
    Claims = {3}
    RelayerFees = {3, 6}
    DepositFees = {0, 250}
    minQueueDeposit = 4
    EmissionAmounts = {0}
    CleanUps <- NoCleanUp
    WAD = 1000
INVARIANTS BalanceAccounted
CHECK_DEADLOCK FALSE
