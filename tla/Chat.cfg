SPECIFICATION FairSpec
CONSTANTS
    u1 = u1
    c1 = c1
    c2 = c2
    a = a
    b = b
    Users = {u1}
    Calls = {c1, c2}
    UserOf <- OneUser
    Direct = {c2}
    Models = {a, b}
    Priority <- Ranked
    Reserve <- Reserves
    Charges = {1, 3}
    Catalogs <- TwoOrOne
    Earlier = {0, 2}
    StartBalance = 3
    MaxBalance = 3
    Backend = "pg"
INVARIANTS
    TypeOK
    NeverOverdrawn
    CallsPayTheirPrice
    UsageMatchesLedger
PROPERTIES
    MeteredSpec
    EveryCallEnds
