SPECIFICATION FairSpec
CONSTANTS
  MaxSessions = 2
  LIVENESS_TIMEOUT = 1
INVARIANTS
  TypeOK
  DestroyedOnce
  DecoderAlive
  HeardSessionsStay
  SignalsReachPeer
  NothingLost
  OneReader
PROPERTIES
  SilentSlotCloses
