SPECIFICATION FairSpec
CONSTANTS
  Commands <- Sound
  Failures <- All
INVARIANTS ExtractInv
PROPERTIES OldFilesStay Ends
CHECK_DEADLOCK FALSE
