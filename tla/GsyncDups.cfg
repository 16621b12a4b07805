SPECIFICATION Spec
CONSTANTS
  Kinds <- Two
  Bytes <- Alike
  Sizes <- TreeSizes
  Wildcards <- NoStar
  Slice = 2
  MaxAsks = 1
  Failures = {}
INVARIANTS ScanKeepsKind
CHECK_DEADLOCK FALSE
