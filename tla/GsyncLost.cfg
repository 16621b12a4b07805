SPECIFICATION Spec
CONSTANTS
  Kinds <- Two
  Bytes <- Alike
  Sizes <- OneEach
  Wildcards <- NoStar
  Slice = 2
  MaxAsks = 2
  Failures = {}
INVARIANTS RefusedWhileInProgress
CHECK_DEADLOCK FALSE
