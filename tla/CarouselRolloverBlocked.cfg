SPECIFICATION Spec
CONSTANTS
    Users = {"u1"}
    Approved <- NoApproval
    Epochs <- ThreeEpochs
    BlockTimes = {1, 4, 7}
    Amounts = {3}
    Shares = {3}
    DepositCap = 10
    LateCap = 10
    QueueCap = 0
    Operations = {1}
    Claims = {7}
    RelayerFees = {2}
    DepositFees = {0}
    minQueueDeposit = 3
    EmissionAmounts = {0}
    CleanUps <- NoCleanUp
    WAD = 1000
INVARIANT RolloverNotBlocked
CHECK_DEADLOCK FALSE
