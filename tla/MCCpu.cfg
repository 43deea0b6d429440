CONSTANTS
  Ints = {2, 5, 7}
  Sources = {5}
  IceInts = {5}
  MaxDepth = 2
  PCs <- MCPCs
  StackSize <- MCStackSize
SPECIFICATION FairSpec
INVARIANTS PendingIsVisible StackHoldsFrames
PROPERTIES NoPhantom FirstVectorFirst ReturnsToInterrupted NoSecondGhost Prompt
