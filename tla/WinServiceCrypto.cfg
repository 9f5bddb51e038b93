SPECIFICATION FairSpec
PROPERTIES
  FatalMeansFailed
