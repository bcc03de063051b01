SPECIFICATION Spec
CONSTANTS
    Seasons <- OneSeason
    Creators = {c1, c2, c3}
    Tickers = {t1, t2, t3, filter}
    SeededTickers = {filter}
    Owner = owner
    MaxLaunches = 3
    ActivationThreshold = 2
    BaseLaunchCosts = {0, 3}
    StakeModes = {TRUE, FALSE}
    Blockable = {t1, t2, t3}
    ProtocolTickers = {t1, t2, t3, filter}
    FinalistLists <- StrayFinalists
    NoToken = NoToken
    NoOne = NoOne
SYMMETRY Symmetry
INVARIANTS
    Custody
    StakeCustody
    BooksAgree
PROPERTY
    KeepsDepositPromise
CONSTRAINTS BeforeFinals OwnerActsOnce Unpaused
CHECK_DEADLOCK FALSE
