SPECIFICATION PowerSpec
CONSTANTS
    MaxLevel = 5
    Critical = 1
    Thresholds = {0, 3}
    ShutoffOnChargerFailure = TRUE
    ReadsFail = TRUE
    Times = {0, 1, 2, 3}
    MaxTime = 3
INVARIANTS ListenersAreTold ReportsPins
PROPERTIES DangerShutsDown OnlyLongPresses HeldTurnsOff
CHECK_DEADLOCK FALSE
