SPECIFICATION CallSpec
CONSTANTS
    t1 = t1
    s1 = s1
    big = big
    small = small
    TurnCalls = {t1}
    SummaryCalls = {s1}
    Models = {big, small}
    Provider <- MCProvider
    Family <- MCFamily
    Candidates <- OneModel
    Jumps = {1, 300, 1441}
    MaxJumps = 2
INVARIANTS
    TimeoutIsRetried
CHECK_DEADLOCK FALSE
