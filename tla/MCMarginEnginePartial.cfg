SPECIFICATION EngineSpec
CONSTANTS
    Owner = Owner
    Engine = Engine
    Fund = Fund
    FeePool = FeePool
    InsuranceFunds = {Fund}
    FeePools = {FeePool}
    Pauser = Pauser
    NoAccount = NoAccount
    Traders = {Alice, Bob}
    Liquidators = {Liq}
    Accounts <- MCAccounts
    Decimals = 100
    MaxUint = 100000000
    InitialQuote = 1000
    InitialBase = 3000
    InitialConfig <- MCInitialConfig
    ConfigChoices = {}
    FluctuationLimit = 0
    QuoteAmounts = {}
    BaseAmounts = {}
    Limits = {}
    OraclePrices = {70}
    FundingPeriod = 0
    OneHour = 1
    OneDay = 8
    MinTwapInterval = 1
    MaxTwapInterval = 2
    StartTime = 5
    TimeSteps = {2}
    MaxHeight = 2
    InitialEngineConfig <- MCInitialEngineConfig
    EngineConfigChoices <- MCEngineConfigChoices
    PartialRatios = {50}
    Collaterals = {"token"}
    PauserChoices = {}
    WhitelistChoices = {}
    RegistryChoices = {}
    NativeErrors = {}
    StrayCoins = {0}
    Margins = {60,170}
    Leverages = {100, 300}
    Deposits = {}
    Withdrawals = {}
    BaseLimits = {0}
    QuoteLimits = {0}
    TollRatio = 0
    SpreadRatio = 0
    OpenInterestCap = 0
    HoldingCap = 0
    FifteenMinutes = 2
    InitialBalance <- MCInitialBalance
    TraderFunds = 400
    FundFunds = 400
    MaxTxs = 4
CONSTRAINT OwnerStays ReversalsAreSolvent TradesAreSolvent NeverPaused
SYMMETRY TraderSymmetry
PROPERTIES
    PartialLiquidationTakesPart
CHECK_DEADLOCK FALSE
