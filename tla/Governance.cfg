SPECIFICATION Spec
CONSTANTS
    Accounts = {"admin", "policy"}
    Lock = "lock"
    NoAddress = "none"
    Controllers = {"c1", "c2"}
    Treasuries = {"t1"}
    Oracles = {"o1", "o2"}
    Markets = {"m"}
    EpochConfigs = {"e"}
    BlockTimes = {0, 3, 18}
    Timestamps = {3, 4}
    QueuedCalls <- SomeCalls
    MaxQueued = 2
CHECK_DEADLOCK FALSE
INVARIANTS TypeOK ControllersVetted
PROPERTIES DelayRespected OwnerControllerOnce
