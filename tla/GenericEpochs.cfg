SPECIFICATION GenericSpec
CONSTANTS
    Users = {"u1"}
    Approved <- NoApproval
    Epochs <- TwoEpochs
    BlockTimes = {1, 4, 9}
    Amounts = {2, 3}
    DepositCap = 3
    LateCap = 2
    Receivers = {"u1"}
    WithdrawalFees = {5000}
    Treasuries = {"t1"}
    Delistable = FALSE
    IsWETH = FALSE
    Pausable = FALSE
    ControllerTreasury = "t1"
CHECK_DEADLOCK FALSE
INVARIANTS GenericTypeOK FundsCoverClaims BalanceCoversAllEpochs GenericViewsComplete
PROPERTIES SettlementExact ImplementsEscrow PollsStayGood
