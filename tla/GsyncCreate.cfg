SPECIFICATION Spec
CONSTANTS
  Kinds <- Two
  Bytes <- Alike
  Sizes <- OneEach
  Wildcards <- NoStar
  Slice = 2
  MaxAsks = 1
  Failures = {"create"}
INVARIANTS WaitsForCommand
CHECK_DEADLOCK FALSE
