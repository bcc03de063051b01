SPECIFICATION IndexSpec
CONSTANTS
    Seasons <- OneSeason
    SeasonTokens <- ThreeTokens
    Tokens = {t1, t2, t3}
    t1 = t1
    t2 = t2
    t3 = t3
    t4 = t4
    Users = {u1, u2}
    u1 = u1
    u2 = u2
    NoToken = NoToken
    ProtocolLaunched = {t3}
    Proceeds = {0, 12, 40}
    TokensBought = {1, 7}
    RolloverTrees <- BothTrees
    WethFees = {1, 10}
    TokenFees = {1}
    MaxCollects = 2
    MaxPosts = 2
SYMMETRY Symmetry
INVARIANTS
    TablesMirrorSettlement
    WethBooks
    LadderMatchesVault
    RolloverClaimsCovered
    ClosesCleanIfAllFiltered
PROPERTY
    SettlementIsFinal
