SPECIFICATION FairSpec
CONSTANTS
  f = f g = g c1 = c1 c2 = c2 out = out
  None = None
  Contents = {c1, c2}
  Clients = {1, 2}
  OutputArgs <- OneOutput
  Setups <- MCSetups
CHECK_DEADLOCK FALSE
INVARIANTS
  UsedBytesWereCurrent
  UnchangedMeansSameBytes
  ManifestIsCommitted
PROPERTIES
  EveryRequestAnswered
