SPECIFICATION LiveSpec
CONSTANTS
    AssertionProvider = "assertions"
    Markets = {"m1", "m2"}
    PriceProviders <- OnePrice
    Relayers = {"r"}
    Descriptions = {"d1", "d2"}
    NoDescription = "none"
    Data = {3, 4}
    UINT128 = 4
    Bonds = {0, 2}
    MinimumBond = 1
    timeOut = 3
    ASSERTION_COOLDOWN = 1
    ASSERTION_LIVENESS = 2
    BlockTimes = {10, 12, 13, 16}
    MaxAssertions = 2
INVARIANTS UmaTypeOK OneAssertionEach AnswersJustified
PROPERTIES TrueAnswerStands AssertionsResolve
CHECK_DEADLOCK FALSE
