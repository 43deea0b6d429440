CONSTANTS
  MAX_IFS = 3
  MaxNesting = 3
  NonReusable = {"a", "b"}
  Reusable = {".r"}
  Redefinable = {".1"}
  MaxItems = 7
  MaxFiles = 2
  Base = 256
  Pages = 2
  Parts = {"if"}
SPECIFICATION MCSpec
INVARIANTS NoFalseDuplicate
CHECK_DEADLOCK FALSE
