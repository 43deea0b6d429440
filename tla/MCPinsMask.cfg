CONSTANTS
  Ints = {5}
  Sources = {}
  IceInts = {}
  Ports = {}
  Pins = {}
  IcePorts = {}
  Parts = {"mode"}
  ModePins = {0, 1}
  Masks <- SomePins
  MasksR <- SomePins
SPECIFICATION MCSpec
INVARIANTS MaskRespected
