SPECIFICATION ProgramsSpec
CONSTANTS
  Platform = "unix"
  JOIN_TIMEOUT = 3
INVARIANTS
  ProgramsTypeOK
  SlotsFreedInPeace
  HandleFreedInPeace
  JoinMeansDone
  StopNeedsNoTimeout
  AudioOnlyInSession
  CallbackSafeOutsideSession
  FirstSignalSafe
PROPERTIES
  ProgramsEnd
