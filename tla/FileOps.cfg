SPECIFICATION FairSpec
CONSTANT Commands <- MCCommands
INVARIANTS FileOpsInv SuccessIsDone
PROPERTIES Ends
CHECK_DEADLOCK FALSE
