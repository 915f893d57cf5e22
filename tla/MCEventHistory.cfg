SPECIFICATION HistoryFairSpec
CONSTANTS
  MaxReplay = 2
  MaxEvents = 4
  MaxServices = 2
INVARIANTS NoImplicitJump OneGeneration
PROPERTY EventsReachClient
CHECK_DEADLOCK FALSE
