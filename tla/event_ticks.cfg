SPECIFICATION Spec
CONSTANTS
    Tokens = {x, y, z}
    x = x
    y = y
    z = z
    NoToken = NoToken
    NoSnapshot = NoSnapshot
    Runs = {r1, r2}
    r1 = r1
    r2 = r2
    SeasonTokens <- TwoSeasons
    Orders <- Swaps
    SpikeSets <- SomeSpikes
    CutLine = 1
    NearAbove = 0
    NearBelow = 0
    RankChangeMin = 1
    CutAfter <- FirstAndFinalCut
    CountdownThreshold = 0
    DedupeWindow = 2
    ThrottleWindow = 2
    ThrottlePerTokenMax = 1
    FilterMomentWindow = 2
    MaxTrades = 2
    MaxTime = 3
    MaxWrites = 2
    MaxFailures = 1
SYMMETRY Timers
INVARIANTS
    FiltersAnnouncedOnce
    EmissionsSpaced
PROPERTIES
    SnapshotsOnlyAdvance
CHECK_DEADLOCK FALSE
