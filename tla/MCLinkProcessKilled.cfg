SPECIFICATION Spec
CONSTANTS
  a = a b = b c = c tmp = tmp
  None = None
  Paths <- MCPaths
  WithDelete <- MCWithDelete
  Setups <- Killing
INVARIANTS
  SuccessMeansComplete
