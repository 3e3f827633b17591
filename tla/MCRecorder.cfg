SPECIFICATION FairSpec
CONSTANTS
    Viewer = "viewer"
    Subscribers = {"recorder", "viewer"}
    MaxRetained = 1
    QueueSize <- QueueSizes
    MaxSubscriptions = 1
    MaxSnapshots = 3
    MaxActions = 2
INVARIANTS
    RecorderHonest
    InOrderOnce
PROPERTIES
    StreamsEnd
CHECK_DEADLOCK FALSE
