SPECIFICATION CallSpec
CONSTANTS
    t1 = t1
    s1 = s1
    big = big
    small = small
    TurnCalls = {t1}
    SummaryCalls = {s1}
    Models = {big, small}
    Provider <- MCProvider
    Family <- MCFamily
    Candidates <- TwoModels
    Jumps = {5, 1441}
    MaxJumps = 2
INVARIANTS
    CallTypeOK
    FailoverIsExact
PROPERTIES
    CooldownsOnlyGrow
CHECK_DEADLOCK FALSE
