SPECIFICATION Spec
CONSTANTS
    u1 = u1
    k1 = k1
    old = old
    Turns = {u1, k1}
    Cron = {k1}
    MaxIterations = 4
    Threshold = 4
    Widths = {1}
    MaxRetried = 1
    Past = old
    Loaded <- HalfTurn
INVARIANTS
    TypeOK
    RequestsPaired
CHECK_DEADLOCK FALSE
