SPECIFICATION Spec
CONSTANTS
    u1 = u1
    u2 = u2
    Users = {u1, u2}
    BlockTimes = {1, 4, 7}
    Amounts = {0, 2}
    BalanceCap <- TopUps
    StartTimes = {1, 4}
    LockLengths = {0, 2}
    maxEpochsValues = {1, 2}
    minEpochs = 1
    Durations = {1}
    Day = 2
    LastEpoch = 3
    LastSettable = 2
    EpochRewards <- OneReward
    Fundings <- OneFunded
    FundingCap = 2
    Recoverable = {2}
    WAD = 100
INVARIANTS LocksAddUp TypeOK RewardsPaidBounded
PROPERTIES LockedFundsStay LockedBeforeStart
SYMMETRY UserSymmetry
CHECK_DEADLOCK FALSE
