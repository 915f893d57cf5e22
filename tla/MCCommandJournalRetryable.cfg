SPECIFICATION MCRecoveringSpec
CONSTANTS
  r1 = r1
  receiver = receiver
  noop = noop
  Requests <- MCRequests
  Receiver = receiver
  Noop <- NoNoop
  Envelopes <- StartOnly
  MaxNegotiation = 3
  MaxProcs = 2
  MaxEffects = 2
PROPERTY RetryableMaySucceed
CHECK_DEADLOCK FALSE
