SPECIFICATION FairSpec
CONSTANTS
    Owner = Owner
    Heir = Heir
    Accounts = {Owner, Heir}
    Deployer = Owner
    Keys = {"ETH"}
    Prices = {1, 4}
    Timestamps = {1, 2, 3, 4}
    Intervals = {0, 1, 2, 3}
    StartTime = 2
    MaxTime = 8
    MaxRounds = 5
INVARIANTS TypeOK RoundsAreNumbered TwapIsTimeAverage TwapWithinPrices
PROPERTY FeedRecovers
CHECK_DEADLOCK FALSE
