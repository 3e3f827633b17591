SPECIFICATION FairSpec
CONSTANTS
    Restarts = TRUE
    MaxQueue = 2
INVARIANTS
    StopReportHonest
    StopsComeFirst
PROPERTIES
    NoMotionAfterStop
    AdapterKeepsLiveLease
    OpsAndMotionsEnd
