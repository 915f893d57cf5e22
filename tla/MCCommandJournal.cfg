SPECIFICATION MCFairSpec
CONSTANTS
  r1 = r1
  receiver = receiver
  noop = noop
  Requests <- MCRequests
  Receiver = receiver
  Noop <- OneNoop
  Envelopes <- MCEnvelopes
  MaxNegotiation = 3
  MaxProcs = 2
  MaxEffects = 2
INVARIANTS ExactReplay AppliedOnce
PROPERTY RetryIsAnswered
CHECK_DEADLOCK FALSE
