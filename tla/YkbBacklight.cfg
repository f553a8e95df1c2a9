SPECIFICATION MCSpec
CONSTANTS
    SlotCount = 2
    Scripts <- MCScripts
    Loadable <- MCLoadable
    DefaultScripts <- MCDefaults
    Empty = Empty
    None = None
    Shortcuts = TRUE
    SavesFail = TRUE
    MaxSets = 2
    MaxApplies = 2
    MaxCrashes = 1
INVARIANTS
    DarkUnlessRunning
    SyncedUnlessOvertaken
    FlashHasSlots
CHECK_DEADLOCK FALSE
