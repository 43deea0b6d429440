CONSTANTS
  MAX_IFS = 3
  MaxNesting = 5
  NonReusable = {"a", "b"}
  Reusable = {".r"}
  Redefinable = {".1"}
  MaxItems = 7
  MaxFiles = 2
  Base = 256
  Pages = 2
  Parts = {"labels"}
SPECIFICATION MCSpec
INVARIANTS EquIgnoresItself
CHECK_DEADLOCK FALSE
