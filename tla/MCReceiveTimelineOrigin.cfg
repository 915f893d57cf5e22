CONSTANTS
  SrcRate = 1
  OutRate = 1
  SlotMillis = 6
  MaxLateness = 2
  MaxJitter = 1
  MaxRemap = 1
  MinEvidence = 2
  DriftScale = 100
  MaxDrift = 30
  StartUtc = 4
  MaxPosition = 13
  Sizes = {2}
  Delays = {0}
  Jitters <- EarlyOrLate
  UtcSteps <- BackOrForth
  MaxOrigin = 3
  MaxFaults = 0
SPECIFICATION TimelineSpec
INVARIANT PromptBatchIsNotLate
CHECK_DEADLOCK FALSE
