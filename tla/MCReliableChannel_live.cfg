SPECIFICATION FairSpec
CONSTANTS
  MAX_RELIABLE_WINDOW_SIZE = 6
  SEQNUM_MAX = 11
  SEQNUM_INITIAL = 11
  MIN_RELIABLE_WINDOW_SIZE = 2
  MaxWindowSize = 2
  WindowSteps = {}
  max_packets_requeued = 2
  MaxCommandPackets = 2
  MaxQuota = 1
  MaxPayloads = 2
  MaxPings = 0
PROPERTIES
  ChannelDelivers
CHECK_DEADLOCK FALSE
