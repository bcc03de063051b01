SPECIFICATION Spec
CONSTANTS
    t1 = t1
    w1 = w1
    w2 = w2
    pool = pool
    Seasons = {1}
    Tokens = {t1}
    Users = {w1, w2, pool}
    NoToken = NoToken
    NoOne = NoOne
    Pool = pool
    Supply = 2
    Amounts = {1}
    MaxFees = 2
    MaxTime = 2
SYMMETRY Symmetry
INVARIANTS
    NominationsAreTheAdmins
    RowsMatchContracts
PROPERTY
    BagsStayLocked
CHECK_DEADLOCK FALSE
