SPECIFICATION FairSpec
CONSTANTS
  Commands <- Sound
  Failures <- All
INVARIANTS CodecInv
PROPERTIES OldFilesStay Ends
CHECK_DEADLOCK FALSE
