CONSTANTS
  Banks = 1
  Blocks = 2
  Data <- MCData
  Wrap = 4
  Programs <- SomePrograms
  Securities <- SomeSecurities
  Flashes <- SomeFlashes
  Options <- Commands
  Faults = {"id", "erase", "program", "verify", "secure", "silent"}
  Cases <- MCCases
  BLOCK_SIZE = 2
  PROGRAM_SIZE = 8
  SECURITY_SIZE = 4
  Formats = {"hex", "rom", "binary"}
  Damages = {"cut", "changed"}
  Differences = {1, 128, 255}
  Parts = {"session", "file", "prim"}
SPECIFICATION MCSpec
INVARIANTS SuccessIsTrue LoadedIfWhole ProtectionArrives
PROPERTIES ProtectsOnlyChecked ActsAsFlash
CHECK_DEADLOCK FALSE
