\* ReceiveCoordinator
CONSTANTS
  WorkerBatches = 2
  QueueBatches = 2
  SlotUnits = 2
  MaxUnits = 4
  MaxStarts = 2
  MaxProcs = 2
\* ReceiveStore
CONSTANTS
  i1 = i1
  i2 = i2
  c1 = c1
  c2 = c2
  b1 = b1
  b2 = b2
  Ids <- MCIds
  Contexts <- MCContexts
  Bodies <- MCBodies
  MaxWindows = 3
  MaxEvents = 3
  MaxPage = 2
\* ReceiveColumns
CONSTANTS
  MaxI64 = 3
  SlotMillis = 2
  MaxDrift = 1
  MaxOffset = 1
  MaxSnr = 2
  MaxSummary = 2
  Requests <- MCRequests
  Buffers <- MCBuffers
  Surroundings <- Plain
  Callsigns <- MCCallsigns
  Standard <- MCStandard
  Base <- MCBase
  Bracket <- MCBracket
  Known <- MCKnown
  GridIndex <- MCGridIndex
  ReportForms <- MCReportForms
  Vocabulary <- MCVocabulary
  MaxGrid = 2
  FrameSamples = 2
  SlotSamples = 3
  MaxTone = 1
  SnrCalibration = 2
  MaxAge = 2
  MaxRequired = 3
  MaxDecodes = 2
  None = None
  Arguments <- MCArguments
  Rows <- MCRows
SPECIFICATION ReceiveSpec
INVARIANTS
  DurableWindowsAreWhole InputOwnership
  WindowsAreDistinct EventNamesItsWindow
  RetryFindsItsRecord AcceptedIsStorable ReadIsFaithful SentIsHeard HeardOrderKeepsResults
PROPERTIES ImplementsLifecycle FaultInhibits WindowsArePublished PagesMissNothing
CHECK_DEADLOCK FALSE
