SPECIFICATION FairSpec
CONSTANTS
    p1 = p1
    p2 = p2
    c1 = c1
    c2 = c2
    k1 = k1
    k2 = k2
    Lanes = {"inbound", "outbound"}
    DrainOrder <- InThenOut
    Publishers = {p1, p2}
    Consumers = {c1, c2}
    Closers = {k1, k2}
    LaneOf <- EmptyOutbound
    Capacity = 2
    MaxPublished = 2
INVARIANTS
    TypeOK
    InOrder
    AcceptedAccountedFor
    AtMostOneStranded
PROPERTIES
    EveryoneReleased
