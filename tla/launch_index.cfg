SPECIFICATION IndexSpec
CONSTANTS
    Seasons <- TwoSeasons
    Creators = {c1, c2}
    Tickers = {t1, t2, filter}
    SeededTickers = {filter}
    Owner = owner
    MaxLaunches = 2
    ActivationThreshold = 2
    BaseLaunchCosts = {4}
    StakeModes = {TRUE}
    Blockable = {t1, filter}
    ProtocolTickers = {t2}
    FinalistLists <- StrayFinalist
    NoToken = NoToken
    NoOne = NoOne
    LogIndexes = {0, 1}
SYMMETRY CreatorSymmetry
INVARIANTS
    TickerHasOneClaimant
    WinnerTickersStayReserved
    LaunchIsServed
CONSTRAINTS Unpaused BeforeSettlement OneBlocked
CHECK_DEADLOCK FALSE
