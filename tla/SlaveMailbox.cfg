SPECIFICATION FairSpec
CONSTANTS
    Drained = TRUE
    QueueSize = 1
    MaxVersion = 3
    MaxDrops = 2
INVARIANT NewsIsAnnounced
PROPERTIES KeysNeverGoBack KeysFollowSlave
CHECK_DEADLOCK FALSE
