SPECIFICATION IndexSpec
CONSTANTS
    Seasons <- TwoSeasons
    SeasonTokens <- TwoAndTwo
    Tokens = {t1, t2, t3, t4}
    t1 = t1
    t2 = t2
    t3 = t3
    t4 = t4
    Users = {u1, u2}
    u1 = u1
    u2 = u2
    NoToken = NoToken
    ProtocolLaunched = {}
    Proceeds = {40}
    TokensBought = {7}
    RolloverTrees <- OneTree
    WethFees = {10}
    TokenFees = {0}
    MaxCollects = 1
    MaxPosts = 2
SYMMETRY SymmetryWithinSeasons
INVARIANTS
    BonusWithinReserve
    CreatorFeesBacked
