CONSTANTS
  MAX_IFS = 3
  MaxNesting = 5
  NonReusable = {"a", "b"}
  Reusable = {".r"}
  Redefinable = {".1"}
  MaxItems = 7
  MaxFiles = 2
  Base = 256
  Pages = 2
  Parts = {"if", "labels", "cpu"}
SPECIFICATION MCSpec
INVARIANTS
  SelectsRight
  AssembledAsWritten RightErrors
  PagesFresh RoundTrip DoesAsPrinted Exact
PROPERTY ElseJudged
CHECK_DEADLOCK FALSE
