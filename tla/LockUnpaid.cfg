SPECIFICATION Spec
CONSTANTS
    u1 = u1
    u2 = u2
    Users = {u1, u2}
    BlockTimes = {1, 4, 7}
    Amounts = {0, 2}
    BalanceCap <- SingleLocks
    StartTimes = {1, 4, 7}
    LockLengths = {0, 1}
    maxEpochsValues = {1}
    minEpochs = 1
    Durations = {1}
    Day = 2
    LastEpoch = 3
    LastSettable = 2
    EpochRewards <- OneReward
    Fundings <- OneFunded
    FundingCap = 2
    Recoverable <- NoneRecovered
    WAD = 100
INVARIANT EveryLockedEpochPaid
SYMMETRY UserSymmetry
CHECK_DEADLOCK FALSE
