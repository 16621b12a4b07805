SPECIFICATION FairSpec
CONSTANTS
  Commands <- Packs
  Failures <- All
INVARIANTS ArchiveInv
PROPERTIES OldFilesStay Ends
CHECK_DEADLOCK FALSE
