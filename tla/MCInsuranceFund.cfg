SPECIFICATION Spec
CONSTANTS
    Owner = Owner
    OtherOwner = OtherOwner
    Fund = Fund
    Engine = Engine
    Vamm1 = Vamm1
    Vamm2 = Vamm2
    Vamm3 = Vamm3
    Vamm4 = Vamm4
    OddVamm = OddVamm
    Accounts <- MCAccounts
    Deployer = Owner
    Vamms = {Vamm1, Vamm2, Vamm3, OddVamm}
    Tokens = {cw20, native}
    VAMM_LIMIT = 2
    EngineDecimals = 6
    VammDecimals <- MCVammDecimals
    InitialBalance = 1
    MaxTransfer = 2
CONSTRAINTS FundIsPassive FundOrOther
INVARIANT TypeOK
PROPERTIES ImplementsRegistry ShutdownIsAllOrNothing OnlyEngineIsPaid
