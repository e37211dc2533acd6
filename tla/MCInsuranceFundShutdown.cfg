SPECIFICATION Spec
CONSTANTS
    Owner = Owner
    OtherOwner = OtherOwner
    Fund = Fund
    Engine = Engine
    Vamm1 = Vamm1
    Vamm2 = Vamm2
    Vamm3 = Vamm3
    Vamm4 = Vamm4
    OddVamm = OddVamm
    Accounts <- MCAccounts
    Deployer = Owner
    Vamms = {Vamm1, Vamm2}
    Tokens = {}
    VAMM_LIMIT = 3
    EngineDecimals = 6
    VammDecimals <- MCVammDecimals
    InitialBalance = 0
    MaxTransfer = 0
CONSTRAINTS FundIsPassive AllAnswerToFund
PROPERTIES ShutdownHaltsTrading
