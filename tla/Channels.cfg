SPECIFICATION FairSpec
CONSTANTS
    a = a
    b = b
    None = None
    Channels = {a, b}
    ByName <- TwoNames
    Lanes = {"text", "media"}
    LaneOrder <- TextThenMedia
    MaxObjects = 3
    QueueSize = 1
    maxRetries = 1
    Configs <- Loads
    MaxPublished <- Texts
INVARIANTS
    TypeOK
    InOrder
    OneSender
    ReloadIsExact
    StoppedIsQuiet
PROPERTIES
    CallsReturn
