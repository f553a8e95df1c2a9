SPECIFICATION ValuesFairSpec
CONSTANTS
    MaxPayload = 2
    Data = {0,1}
    Blank = 0
    TotalLen = 2
    OutOfOrder = TRUE
    RxDepth = 1
    WireDepth = 1
    MaxChanges = 1
    MaxDrops = 1
INVARIANT NewestIsKept
PROPERTIES MasterCatchesUp PartsNeverGoBack
CHECK_DEADLOCK FALSE
