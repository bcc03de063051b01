SPECIFICATION FairSpec
CONSTANTS
    Seasons <- TwoSeasons
    Creators = {c1, c2}
    Tickers = {t1, t2, filter}
    SeededTickers = {filter}
    Owner = owner
    MaxLaunches = 2
    ActivationThreshold = 2
    BaseLaunchCosts = {1}
    StakeModes = {TRUE}
    Blockable = {}
    ProtocolTickers = {}
    FinalistLists = {}
    NoToken = NoToken
    NoOne = NoOne
PROPERTY
    EscrowEmptiesEventually
CONSTRAINT BeforeFinals
CHECK_DEADLOCK FALSE
