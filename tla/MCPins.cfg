CONSTANTS
  Ints = {5}
  Sources = {5}
  IceInts = {5}
  Ports = {0, 1}
  Pins = {2}
  IcePorts = {0}
  Parts = {"port", "line", "mode"}
  ModePins = {0, 1}
  Masks <- SomePins
  MasksR <- WholePort
SPECIFICATION MCSpec
INVARIANTS LineAgrees SetTakesEffect NoGlitch
PROPERTIES ConditionNoticed OneEdgeOneInterrupt
