SPECIFICATION Spec
CONSTANTS
  Walk <- DepthFirst
  SourceTrees <- Sources
  TargetTrees <- Targets
  Commands <- CommandLines
  Failures = {"scan", "copy", "trash", "signal"}
INVARIANTS MoveHasBoth
CHECK_DEADLOCK FALSE
