SPECIFICATION Spec
CONSTANTS
  Kinds <- Two
  Bytes <- Alike
  Sizes <- TreeSizes
  Wildcards <- AnyKind
  Slice = 2
  MaxAsks = 1
  Failures = {"read"}
INVARIANTS ComparesWhole
CHECK_DEADLOCK FALSE
