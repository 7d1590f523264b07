SPECIFICATION GenericSpec
CONSTANTS
    Users = {"u1", "u2"}
    Approved <- OneApproval
    Epochs <- OneEpoch
    BlockTimes = {1, 2, 5}
    Amounts = {1, 3}
    DepositCap = 4
    LateCap = 1
    Receivers = {"u1", "premium", "collateral"}
    WithdrawalFees = {3000}
    Treasuries = {"t1"}
    Delistable = FALSE
    IsWETH = TRUE
    Pausable = FALSE
    ControllerTreasury = "t1"
INVARIANTS VaultInv ExitsFunded
PROPERTY LateOnlyAtBegin
CHECK_DEADLOCK FALSE
