SPECIFICATION FairSpec
CONSTANTS
  a = a b = b c = c tmp = tmp
  None = None
  Paths <- MCPaths
  WithDelete <- MCWithDelete
  Setups <- MCSetups
INVARIANTS
  SuccessMeansComplete
  OldFileUntouched
PROPERTIES
  AllExit
