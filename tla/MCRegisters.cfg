CONSTANTS
  Data <- MCData
  Ops <- MCOps
  PCs <- MCPCs
  Flags <- MCFlags
  Bank1 <- MCBank1
  Disciplined = TRUE
  Parts = {"ice", "wire"}
  Cells <- MCCells
  Vals <- MCVals
  Vectors <- MCVectors
  Kinds = {"wadsp", "watpp", "ppporissp"}
  T_RISE = 1
  T_FALL = 3
  T_ACQ = 2
  MaxTime = 5
  Delays = FALSE
SPECIFICATION MCSpec
INVARIANTS ShadowsAgree NoContention TimeoutsRight
PROPERTIES PlainRegisters VectorsArrive
