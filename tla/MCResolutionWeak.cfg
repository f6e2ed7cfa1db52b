SPECIFICATION FairSpec
CONSTANTS
  pre = pre oa = oa ob = ob m1 = m1 m2 = m2 m3 = m3 sh = sh
  bmain = bmain bfoo = bfoo bbar = bbar bund = bund bstart = bstart bcom = bcom v1 = v1
  NoVersion = NoVersion
  NoFile = NoFile
  Files <- MCFiles
  BaseNames = {bmain, bfoo, bbar, bund, bstart, bcom}
  Versions = {v1}
  Scripts = {pre}
  Prelude = pre
  StartStop <- MCStartStop
  OutputKind = "shared"
  AllowMultipleDefinitions = FALSE
  Programs <- WeakPrograms
  Optional = {m1, m2, m3, sh}
  Dynamic = {sh}
  MaxSymbolsPerWorkItem = 3
INVARIANTS
  WeakReferenceIsDefined
