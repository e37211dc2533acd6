SPECIFICATION Spec
CONSTANTS
    Owner = Owner
    Trader = Trader
    Pool = Pool
    Accounts <- MCAccounts
    Deployer = Owner
    NativeDenoms = {uwasm}
    Contracts = {cw20, other}
    TOKEN_LIMIT = 2
    InitialBalance = 1
    MaxTransfer = 2
INVARIANTS TypeOK PendingIsCovered
PROPERTIES ImplementsRegistry UnlistedTokensStay
