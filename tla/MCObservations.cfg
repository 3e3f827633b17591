SPECIFICATION FairSpec
CONSTANTS
    Cameras = {"wrist"}
    Subscribers = {"viewer"}
    MaxRetained = 1
    QueueSize <- QueueSizes
    MaxRounds = 2
    MaxReconnects = 1
INVARIANTS
    FreshFrames
    NothingFromBefore
    CloseHonest
PROPERTIES
    NobodyHeldUp
CHECK_DEADLOCK FALSE
