SPECIFICATION FairSpec
CONSTANTS
    Drained = FALSE
    QueueSize = 2
    MaxVersion = 1
    MaxDrops = 0
PROPERTIES KeysFollowSlave
CHECK_DEADLOCK FALSE
