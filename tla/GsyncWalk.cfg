SPECIFICATION Spec
CONSTANTS
  Kinds <- Three
  Bytes <- OneLarger
  Sizes <- OneEach
  Wildcards <- NoStar
  Slice = 2
  MaxAsks = 1
  Failures = {}
INVARIANTS DuplicatesAreSet
CHECK_DEADLOCK FALSE
