SPECIFICATION Spec
CONSTANTS
  MAX_RELIABLE_WINDOW_SIZE = 6
  SEQNUM_MAX = 11
  SEQNUM_INITIAL = 9
  MIN_RELIABLE_WINDOW_SIZE = 2
  MaxWindowSize = 3
  WindowSteps <- MCWindowSteps
  max_packets_requeued = 2
  MaxCommandPackets = 3
  MaxQuota = 2
  MaxPayloads = 5
  MaxPings = 1
INVARIANTS
  NoFatalError
  TypeOK
  AckedIsKept
  NothingLost
  BuffersInSpan
PROPERTIES
  DeliversInOrder
CHECK_DEADLOCK FALSE
