SPECIFICATION ProfileSpec
CONSTANTS
    w1 = w1
    w2 = w2
    n1 = n1
    n2 = n2
    n3 = n3
    r1 = r1
    r2 = r2
    r3 = r3
    Addresses = {w1, w2}
    Names = {n1, n2, n3}
    Casings = {"lower", "mixed"}
    Reserved = {n3}
    Requests = {r1, r2, r3}
    Cooldown = 2
    Burst = 2
    Rate = 2
    Token = 1
    PruneIdle = 1
    MaxTime = 2
SYMMETRY Symmetry
VIEW AnswersAside
CONSTRAINTS OneBlocked RaceOrSetBack
INVARIANTS
    UsernamesAreUnique
    HandlesCostTime
    AdmissionsAreBounded
PROPERTY
    BlocklistBinds
CHECK_DEADLOCK FALSE
