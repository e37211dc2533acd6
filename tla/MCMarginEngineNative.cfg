SPECIFICATION EngineSpec
CONSTANTS
    Owner = Owner
    Engine = Engine
    Fund = Fund
    FeePool = FeePool
    InsuranceFunds = {Fund}
    FeePools = {FeePool}
    Pauser = Pauser
    NoAccount = NoAccount
    Traders = {Alice, Bob}
    Liquidators = {Liq}
    Accounts <- MCAccounts
    Decimals = 100
    MaxUint = 100000000
    InitialQuote = 1000
    InitialBase = 1000
    InitialConfig <- MCInitialConfig
    ConfigChoices = {}
    FluctuationLimit = 0
    QuoteAmounts = {}
    BaseAmounts = {}
    Limits = {}
    OraclePrices = {100}
    FundingPeriod = 0
    OneHour = 1
    OneDay = 8
    MinTwapInterval = 1
    MaxTwapInterval = 2
    StartTime = 5
    TimeSteps = {2}
    MaxHeight = 2
    InitialEngineConfig <- MCInitialEngineConfig
    EngineConfigChoices <- MCEngineConfigChoices
    PartialRatios = {}
    Collaterals = {"native_token"}
    PauserChoices = {}
    WhitelistChoices = {}
    RegistryChoices = {}
    NativeErrors = {0}
    StrayCoins = {0}
    Margins = {60, 200}
    Leverages = {100}
    Deposits = {}
    Withdrawals = {}
    BaseLimits = {0}
    QuoteLimits = {0}
    TollRatio = 1
    SpreadRatio = 0
    OpenInterestCap = 0
    HoldingCap = 0
    FifteenMinutes = 2
    InitialBalance <- MCInitialBalance
    TraderFunds = 400
    FundFunds = 400
    MaxTxs = 2
CONSTRAINT OwnerStays NeverPaused NeverShut
SYMMETRY TraderSymmetry
INVARIANTS
    NeededFundsSuffice
CHECK_DEADLOCK FALSE
