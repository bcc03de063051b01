SPECIFICATION Spec
CONSTANTS
    tokenA = tokenA
    tokenB = tokenB
    Tokens = {tokenA, tokenB}
    SeasonOf <- SeasonOfToken
    Seasons <- TwoSeasons
    PerTokenTriggers = {"SWAP"}
    BlockSeconds = 2
    CoalesceWindow = 1
    SnapshotInterval = 3
    AdvancerInterval = 2
    SoftBlocks = 2
    FinalBlocks = 4
    Boundaries <- TheCut
    Tolerance = 2
    Ticks = {1, 2}
    MaxBlock = 6
INVARIANTS
    ScoresKeepUp
    FinalityFollowsDepth
    AnchorsAreSingle
PROPERTY
    RowsOnlyAdvance
CONSTRAINT FewTrades
CHECK_DEADLOCK FALSE
