SPECIFICATION EngineSpec
CONSTANTS
    Owner = Owner
    Engine = Engine
    Fund = Fund
    FeePool = FeePool
    InsuranceFunds = {Fund}
    FeePools = {FeePool}
    Pauser = Pauser
    NoAccount = NoAccount
    Traders = {Alice, Bob}
    Liquidators = {Liq}
    Accounts <- MCAccounts
    Decimals = 100
    MaxUint = 100000000
    InitialQuote = 1000
    InitialBase = 1000
    InitialConfig <- MCInitialConfig
    ConfigChoices = {}
    FluctuationLimit = 0
    QuoteAmounts = {}
    BaseAmounts = {}
    Limits = {}
    OraclePrices = {50, 400}
    FundingPeriod = 2
    OneHour = 1
    OneDay = 2
    MinTwapInterval = 1
    MaxTwapInterval = 2
    StartTime = 5
    TimeSteps = {2}
    MaxHeight = 2
    InitialEngineConfig <- MCInitialEngineConfig
    EngineConfigChoices <- MCEngineConfigChoices
    PartialRatios = {}
    Collaterals = {"token", "native_token"}
    PauserChoices = {Owner}
    WhitelistChoices = {Alice, Bob}
    RegistryChoices = {Fund}
    NativeErrors <- MCNativeErrors
    StrayCoins = {0,5}
    Margins = {100}
    Leverages = {100, 400}
    Deposits = {20}
    Withdrawals = {40}
    BaseLimits = {0}
    QuoteLimits = {0}
    TollRatio = 1
    SpreadRatio = 2
    OpenInterestCap = 250
    HoldingCap = 150
    FifteenMinutes = 2
    InitialBalance <- MCInitialBalance
    TraderFunds = 400
    FundFunds = 400
    MaxTxs = 3
CONSTRAINT OwnerStays ReversalsAreSolvent TradesAreSolvent FundingIsCharged
    NativeFeesAreSent NativeReversalsCount OneDeparture
INVARIANTS
    VaultCoversBooks
PROPERTIES
    WithdrawalLeavesMargin
    OpenInterestStaysCapped
    HoldingStaysCapped
CHECK_DEADLOCK FALSE
