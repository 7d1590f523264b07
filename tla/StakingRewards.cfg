SPECIFICATION Spec
CONSTANTS
    Users = {u1, u2}
    Shares = 3
    Amounts = {1, 2}
    Rewards = {5}
    Durations = {2, 3}
    BlockTimes = {1, 2, 4, 5}
    Precision = 4
    MaxNotified = 10
SYMMETRY Symmetric
CHECK_DEADLOCK FALSE
INVARIANTS TypeOK RewardsWithinNotified
PROPERTY EarnedNeverLost
