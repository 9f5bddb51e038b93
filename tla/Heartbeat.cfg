CONSTANTS
  Sources = {s1}
  SinkAddr = sink
  NoSecret = NoSecret
  NoPeer = NoPeer
  MAX_STREAMS = 2
  WINDOW_SIZE = 1
  MaxNonce = 4
  MaxEpoch = 0
  MaxInFlight = 2
  MayDuplicate = FALSE
  Lossy = {}
  Timely = FALSE
  LIVENESS_TIMEOUT = 3
  HEARTBEAT_INTERVAL = 1
  HEARTBEAT_TIMEOUT = 2
  UninitHeartbeat <- ZeroedHeap
SPECIFICATION MonitorSpec
PROPERTY TimeoutMeansSilence
