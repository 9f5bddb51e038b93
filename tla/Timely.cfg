CONSTANTS
  Sources = {s1}
  SinkAddr = sink
  NoSecret = NoSecret
  NoPeer = NoPeer
  MAX_STREAMS = 4
  WINDOW_SIZE = 2
  MaxNonce = 4
  MaxEpoch = 1
  MaxInFlight = 400
  MayDuplicate = FALSE
  Lossy <- HandshakeTypes
  Timely = TRUE
  LIVENESS_TIMEOUT = 2
  HEARTBEAT_INTERVAL = 1
  HEARTBEAT_TIMEOUT = 2
  UninitHeartbeat <- ZeroedHeap
SPECIFICATION Spec
INVARIANT SlotsBounded
PROPERTY NoSpuriousTimeout
