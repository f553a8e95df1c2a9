SPECIFICATION SyncSpec
CONSTANTS
    MaxPayload = 1
    Data = {0,1,2,3}
    Blank = 0
    TotalLen = 2
    OutOfOrder = TRUE
    RxDepth = 2
    WireDepth = 2
    MaxVersion = 3
    MaxDrops = 1
    FnActions = TRUE
    SlotCount = 2
    MaxUpdates = 1
INVARIANTS
    SlotsAreServed
    ScriptsComeOver
PROPERTIES SlaveGoesForward IsRegister
CHECK_DEADLOCK FALSE
