SPECIFICATION KbSettingsSpec
CONSTANTS
    Parts <- MCParts
    FnPart = "mode"
    Subscribers = {"kbh_core", "backlight"}
    KbHandler = "kbh_core"
    MaxApplies = 3
    MaxCrashes = 1
INVARIANT SettingsInSync
CHECK_DEADLOCK FALSE
