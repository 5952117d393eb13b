SPECIFICATION FairSpec
CONSTANTS
    s1 = s1
    s2 = s2
    m = m
    Any = Any
    NoFile = NoFile
    Free = Free
    Servers = {s1, s2}
    Models = {m}
    Seed <- Nothing
    Edits <- EditsOfOne
    MaxStale = 2
INVARIANTS
    TypeOK
PROPERTIES
    AcceptedOnItsRevision
    
