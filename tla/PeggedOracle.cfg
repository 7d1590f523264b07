SPECIFICATION LiveSpec
CONSTANTS
    Users = {"u1"}
    Approved <- NoApproval
    Epochs <- OneEpoch
    BlockTimes = {1, 2, 4, 5}
    Amounts = {3}
    DepositCap = 3
    LateCap = 3
    Receivers = {"u1"}
    WithdrawalFees = {4000}
    Treasuries = {"t1", "t2"}
    Delistable = TRUE
    IsWETH = FALSE
    Pausable = TRUE
    Strike = 20
    Prices = {0, 1, 3}
    FeedDecimals = 1
    WadDecimals = 2
    MAX_UPDATE_TRESHOLD = 1
    GRACE_PERIOD_TIME = 1
INVARIANTS TypeOK KeeperViewsComplete EmptyCounterpartyRefunds
PROPERTY EpochEventuallySettled
CHECK_DEADLOCK FALSE
