CONSTANTS
  Banks = 2
  Blocks = 2
  Data <- MCData
  Wrap = 4
  Programs <- SomePrograms
  Securities <- SomeSecurities
  Flashes <- SomeFlashes
  Options <- WriteCommands
  Faults = {}
  Cases <- MCCases
  BLOCK_SIZE = 2
  PROGRAM_SIZE = 8
  SECURITY_SIZE = 4
  Formats = {"hex", "rom", "binary"}
  Damages = {"cut", "changed"}
  Differences = {1, 128, 255}
  Parts = {"session"}
SPECIFICATION MCSpec
INVARIANTS HealthyWrite
CHECK_DEADLOCK FALSE
