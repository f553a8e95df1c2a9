SPECIFICATION MCSpec
CONSTANTS
    MaxFaults = 6
    FaultsWithHosts = 1
    BusyWorkqueue = FALSE
    MaxConns = {2}
    Levels = {0, 1}
PROPERTY
    AdvertisesAlone
CHECK_DEADLOCK FALSE
