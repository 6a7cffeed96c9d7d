\* The window may grow as far as the code lets it.
SPECIFICATION LossySpec
CONSTANTS
  MAX_RELIABLE_WINDOW_SIZE = 3
  SEQNUM_MAX = 5
  SEQNUM_INITIAL = 4
  MIN_RELIABLE_WINDOW_SIZE = 2
  MaxWindowSize = 3
  WindowSteps <- MCWindowSteps
  max_packets_requeued = 2
  MaxCommandPackets = 1
  MaxQuota = 2
  MaxPayloads = 6
  MaxPings = 0
INVARIANTS
  OldIsReceived
CHECK_DEADLOCK FALSE
