\* ReceiveClock
CONSTANTS
  Cadence = 1
  Freshness = 2
  MaxSampleGap = 2
  JumpTolerance = 1
  MaxSamplingDelay = 1
  RecoverySamples = 3
  MaxTime = 3
  Offsets = {2, 3, 5}
  Slots = {4, 7}
\* RigSession
CONSTANTS
  MaxUtc = 6
  MaxMonotonic = 8
  SlotMillis <- MCSlotMillis
  Tolerance = 1
  Generations = {1, 2}
  Profiles <- MCProfiles
  EvidenceLists <- MCEvidenceLists
  Requirements <- MCRequirements
  AdapterFaults = {"Timeout"}
  Origins <- MCOrigins
  MaxAge = 1
  MaxDivergence = 1
  MaxCapabilities = 2
  MaxSteps = 1
  Starts <- MCStarts
  Strides = {1, 2}
  Jumps <- MCJumps
  MaxMoves <- MCMaxMoves
  MaxCalls = 4
  MaxObserved = 3
  None = None
SPECIFICATION OperationsSpec
INVARIANTS
  ReadyTracksTrueClock OutcomeMatchesState
  FreshIsRecent ReadsAreProved SatisfiedIsProbed DeadlineKeepsSlot
PROPERTY RecoveryNeedsEvidence
CHECK_DEADLOCK FALSE
