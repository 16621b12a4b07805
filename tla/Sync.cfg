SPECIFICATION Spec
CONSTANTS
  Walk <- DepthFirst
  SourceTrees <- Sources
  TargetTrees <- Targets
  Commands <- CommandLines
  Failures = {"scan", "copy", "trash", "signal"}
INVARIANTS SyncInv DiffIsExact SwapIsReversal SuccessIsComplete
PROPERTIES SharedFilesStay
CHECK_DEADLOCK FALSE
