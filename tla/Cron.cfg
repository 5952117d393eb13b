SPECIFICATION FairSpec
CONSTANTS
    j1 = j1
    clock = clock
    None = None
    Jobs = {j1}
    Instances = {1, 2}
    Tooled = {1, 2}
    Delays = {1}
    Periods = {0}
    Exprs = {clock}
    NextTick <- TwoTicks
    Hour = 2
    LastAdd = 0
    Horizon = 2
INVARIANTS
    TypeOK
    OneShotRunsOnce
    NeverUnscheduled
PROPERTIES
    DueJobRuns
CHECK_DEADLOCK FALSE
