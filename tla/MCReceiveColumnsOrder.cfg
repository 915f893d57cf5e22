SPECIFICATION ColumnsSpec
CONSTANTS
  MaxI64 = 3
  SlotMillis = 2
  MaxDrift = 1
  MaxOffset = 1
  MaxSnr = 2
  MaxSummary = 2
  Requests <- MCRequests
  Buffers <- MCBuffers
  Surroundings <- Plain
  Callsigns <- MCCallsigns
  Standard <- MCStandard
  Base <- MCBase
  Bracket <- MCBracket
  Known <- MCKnown
  GridIndex <- MCGridIndex
  ReportForms <- MCReportForms
  Vocabulary <- MCVocabulary
  MaxGrid = 2
  FrameSamples = 2
  SlotSamples = 3
  MaxTone = 1
  SnrCalibration = 2
  MaxAge = 2
  MaxRequired = 3
  MaxDecodes = 2
  None = None
  Arguments <- MCArguments
  Rows <- MCRows
INVARIANT HeardOrderIsIndependent
CHECK_DEADLOCK FALSE
