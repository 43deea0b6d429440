CONSTANTS
  PCs = {0, 1, 2}
  Vector = 1
  Cost <- MCCost
  Halts = {2}
  Stuck = {0}
  IntCost = 3
  Interval = 2
  Limits = {0, 2, 5}
  Word = 16
SPECIFICATION Spec
INVARIANTS WithinLimit StopsAtBreakpoints PollsEveryInterval
PROPERTIES RunsEnd
CHECK_DEADLOCK FALSE
