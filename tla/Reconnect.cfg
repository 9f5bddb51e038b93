CONSTANTS
  Sources = {s1}
  SinkAddr = sink
  NoSecret = NoSecret
  NoPeer = NoPeer
  MAX_STREAMS = 2
  WINDOW_SIZE = 0
  MaxNonce = 1
  MaxEpoch = 0
  MaxInFlight = 2
  MayDuplicate = FALSE
  Lossy <- AllTypes
  Timely = FALSE
  LIVENESS_TIMEOUT = 1
  HEARTBEAT_INTERVAL = 1
  HEARTBEAT_TIMEOUT = 1
  UninitHeartbeat <- ZeroedHeap
SPECIFICATION FairSpec
PROPERTY SessionPinned
PROPERTY SlotsFreed
PROPERTY HandshakeCompletes
