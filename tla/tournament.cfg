SPECIFICATION IndexSpec
CONSTANTS
    Seasons <- Weeks
    Tokens = {t1, t2, t3}
    t1 = t1
    t2 = t2
    t3 = t3
    Users = {u1, u2}
    u1 = u1
    u2 = u2
    NoToken = NoToken
    SeasonTokens <- TwoWeeks
    Years <- OneYear
    LastQuarter = 2
    Deposits = {20}
    MaxFunded = 40
    OracleRoots <- ThreeOracles
SYMMETRY Symmetry
INVARIANTS
    PotsAreSegregated
    TitlesHold
    TitlesServed
PROPERTIES
    LadderOnlyClimbs
    SettledPotsAreFinal
CHECK_DEADLOCK FALSE
