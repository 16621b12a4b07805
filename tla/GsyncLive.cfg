SPECIFICATION Spec
CONSTANTS
  Kinds <- Two
  Bytes <- Alike
  Sizes <- TreeSizes
  Wildcards <- SameKind
  Slice = 2
  MaxAsks = 1
  Failures = {"open", "child", "create", "move"}
PROPERTIES WorkEnds
CHECK_DEADLOCK FALSE
