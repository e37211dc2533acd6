SPECIFICATION Spec
CONSTANTS
    Owner = Owner
    Engine = Engine
    Fund = Fund
    NoAccount = NoAccount
    Accounts <- MCAccounts
    Decimals = 10
    MaxUint = 2200
    InitialQuote = 100
    InitialBase = 20
    InitialConfig <- MCInitialConfig
    ConfigChoices <- MCConfigChoices
    Ratios = {3}
    Intervals = {3}
    QuoteAmounts = {0, 30}
    BaseAmounts = {5}
    Limits = {0, 3}
    OraclePrices = {40}
    FundingPeriod = 4
    OneHour = 4
    OneDay = 8
    MinTwapInterval = 1
    MaxTwapInterval = 4
    StartTime = 7
    TimeSteps = {1, 4}
    MaxHeight = 3
CONSTRAINT OwnerStays SmallPositions
INVARIANTS
    TypeOK
    NetPositionMatchesReserve
    NoProfitFromRoundTrips
    BoundaryIsClosingPrice
    TwapIsTimeAverage
PROPERTIES
    InvariantKNeverFalls
    NoSwapBeyondLimit
    RestrictedSwapStaysInBand
    FundingSpacing
CHECK_DEADLOCK FALSE
