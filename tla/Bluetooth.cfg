SPECIFICATION MCSpec
CONSTANTS
    MaxFaults = 6
    FaultsWithHosts = 1
    BusyWorkqueue = FALSE
    MaxConns = {2, 3}
    Levels = {0, 1}
INVARIANTS
    SyncKnows
    PromptHalvesAgree
    HostIsServed
PROPERTIES
    PromptHalvesMeet
    HostKnowsLevel
    AdvertisesWithSpare
CHECK_DEADLOCK FALSE
