SPECIFICATION HistorySpec
CONSTANTS
  MaxReplay = 2
  MaxEvents = 4
  MaxServices = 2
INVARIANT RetentionIsAnnounced
CHECK_DEADLOCK FALSE
