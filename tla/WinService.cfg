SPECIFICATION FairSpec
INVARIANTS
  TypeOK
  StoppedWhatRan
  FailureReported
  MessagesKept
PROPERTIES
  StopStops
