SPECIFICATION EngineSpec
CONSTANTS
    Owner = Owner
    Engine = Engine
    Fund = Fund
    FeePool = FeePool
    InsuranceFunds = {Fund}
    FeePools = {FeePool}
    Pauser = Pauser
    NoAccount = NoAccount
    Traders = {Alice, Bob}
    Liquidators = {Liq}
    Accounts <- MCAccounts
    Decimals = 100
    MaxUint = 100000000
    InitialQuote = 2500
    InitialBase = 2500
    InitialConfig <- MCInitialConfig
    ConfigChoices = {}
    FluctuationLimit = 40
    QuoteAmounts = {}
    BaseAmounts = {}
    Limits = {}
    OraclePrices = {100}
    FundingPeriod = 0
    OneHour = 1
    OneDay = 8
    MinTwapInterval = 1
    MaxTwapInterval = 2
    StartTime = 5
    TimeSteps = {2}
    MaxHeight = 2
    InitialEngineConfig <- MCInitialEngineConfig
    EngineConfigChoices <- MCEngineConfigChoices
    PartialRatios = {50}
    Collaterals = {"token", "native_token"}
    PauserChoices = {}
    WhitelistChoices = {}
    RegistryChoices = {}
    NativeErrors = {0}
    StrayCoins = {0,5}
    Margins = {50,150}
    Leverages = {300}
    Deposits = {}
    Withdrawals = {}
    BaseLimits = {0}
    QuoteLimits = {0}
    TollRatio = 0
    SpreadRatio = 0
    OpenInterestCap = 0
    HoldingCap = 0
    FifteenMinutes = 2
    InitialBalance <- MCInitialBalance
    TraderFunds = 300
    FundFunds = 400
    MaxTxs = 4
CONSTRAINT OwnerStays ReversalsAreSolvent TradesAreSolvent NeverPaused NeverShut NativeReversalsCount
SYMMETRY TraderSymmetry
INVARIANTS
    EngineTypeOK
    PositionsMatchAmm
    DirectionMatchesSize
    NoTemporaries
    NobodyTradesAroundLiquidation
    VaultCoversBooks
    VaultKeepsNothing
PROPERTIES
    GrowthLeavesMargin
    TradesStayInBand
    ImplementsBook
CHECK_DEADLOCK FALSE
