SPECIFICATION MCSpec
CONSTANTS
  Mpsl = TRUE
  Depth = 2
  MaxPackets = 5
  MaxFailures = 3
  MaxSlots = 3
  InitFails = TRUE
  QuickSends = TRUE
  Calls = 10
  MaxRefusals = 3
  MaxSends = 4
  MaxData = 2
  MaxEvents = 2
  RpcInitFails = FALSE
INVARIANTS
  HeadIsSent TimeslotsAreKept ConnectedIsTold
PROPERTIES
  PacketsArriveInOrder SentArrives SlotsGoOn ReceivedInOrder LinkFollowsPeer
CHECK_DEADLOCK FALSE
