\* CaptureQueue
CONSTANTS
  QueueBatches = 2
  MaxBatchFrames = 1
  MaxCallback = 2
  MaxFrames = 4
  MaxErrors = 1
  ErrorKinds = {"DeviceLost"}
\* ReceiveTimeline
CONSTANTS
  SrcRate = 3
  OutRate = 2
  SlotMillis = 5
  MaxLateness = 2
  MaxJitter = 1
  MaxRemap = 1
  MinEvidence = 2
  DriftScale = 100
  MaxDrift = 30
  StartUtc = 3
  MaxPosition = 24
  Sizes = {6}
  Delays = {0, 1}
  Jitters <- OnTimeOrLate
  UtcSteps <- BackOrForth
  MaxOrigin = 0
  MaxFaults = 3
\* Spectrum
CONSTANTS
  FftSize = 3
  Hop = 2
  SlotSamples = 5
  MaxChunk = 4
  MaxRowsPerPush = 2
  WaterfallRows = 2
  Cadence = 3
  MaxGen = 3
  ProcessOf <- MCProcessOf
  MaxSlots = 2
  MaxRows = 5
SPECIFICATION AudioSpec
INVARIANTS
  BuffersConserved StreamAccounted StopHasReason
  WindowsAreWhole SlotsAreAccounted
  RowsAreWhole ResetIsMarked PushIsBounded
PROPERTIES TerminalIsReported SlotsIncrease
CHECK_DEADLOCK FALSE
