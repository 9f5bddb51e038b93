CONSTANTS
  Sources = {s1, s2}
  SinkAddr = sink
  NoSecret = NoSecret
  NoPeer = NoPeer
  MAX_STREAMS = 1
  WINDOW_SIZE = 0
  MaxNonce = 1
  MaxEpoch = 0
  MaxInFlight = 2
  MayDuplicate = TRUE
  Lossy <- AllTypes
  Timely = FALSE
  LIVENESS_TIMEOUT = 1
  HEARTBEAT_INTERVAL = 1
  HEARTBEAT_TIMEOUT = 1
  UninitHeartbeat <- AnyHeap
SPECIFICATION Spec
SYMMETRY MCSymmetry
INVARIANT TypeOK
INVARIANT Authentic
PROPERTY LeaseSpec
