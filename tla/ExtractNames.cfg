SPECIFICATION FairSpec
CONSTANTS
  Commands <- SkipNames
  Failures = {"input"}
PROPERTIES SkipEnds
CHECK_DEADLOCK FALSE
