CONSTANTS
  Ints = {5}
  Sources = {5}
  IceInts = {5}
  Ports = {0, 1}
  Pins = {0}
  IcePorts = {}
  Parts = {"line"}
  ModePins = {}
  Masks = {}
  MasksR = {}
SPECIFICATION MCSpec
INVARIANTS LineHeld
