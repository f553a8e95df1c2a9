SPECIFICATION MCSpec
CONSTANTS
    KeyCount = 4
    Threshold = 1
    Maximum = 2
    Modifiers = {"LSHIFT"}
    KeySlots = 1
    Rollover = TRUE
    MouseButtons = {0}
    MouseMoves = {1}
    InitSettings <- MCStarts
    Configured <- MCRemapped
    Switching = TRUE
INVARIANTS RestIsQuiet LayersAreHeld RaceShowsOneKey
