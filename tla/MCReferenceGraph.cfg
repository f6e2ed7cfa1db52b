SPECIFICATION FairSpec
CONSTANTS
  g0 = g0 g1 = g1 g2 = g2
  s1 = s1 s2 = s2 s3 = s3 s4 = s4 s5 = s5
  u1 = u1 u2 = u2 u3 = u3 u4 = u4
  scn = scn
  NoUnit = NoUnit NoSection = NoSection
  DIRECT = DIRECT EXPORT_DYNAMIC = EXPORT_DYNAMIC COPY_RELOCATION = COPY_RELOCATION
  Groups <- MCGroups
  Symbols <- MCSymbols
  Units <- MCUnits
  Sections <- MCSections
  Flags <- MCFlags
  GroupOfSymbol <- MCGroupOfSymbol
  GroupOfUnit <- MCGroupOfUnit
  SymbolUnit <- MCSymbolUnit
  StartStopSection <- MCStartStopSection
  Candidates <- MCCandidates
  CommonSymbols = {s4}
  Exportable = {s1, s2}
  Refs <- MCRefs
  Roots <- MCRoots
  BadUnits = {u1, u2}
  BadGroups = {g0}
INVARIANTS
  AllocatedOnce
  ParkedHasNoWork
  OkIsComplete
  ActivatedBeforeLoading
PROPERTIES
  Terminates
  ImplementsMarking
