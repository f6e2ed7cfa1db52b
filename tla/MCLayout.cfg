SPECIFICATION Spec
CONSTANTS
  sx = sx sy = sy sz = sz
  Strings <- MCStrings
  Length <- MCLength
  BucketOf <- MCBucketOf
  NumBuckets = 2
  BlockSize = 2
  BlockCapacity = 1
  TargetGroupSize = 4
  Parallelism = 2
  OffsetLimit = 3
  SectionLists <- MCSectionLists
  MinBranchRange = 8
  MaxThunkBytes = 4
  ThunkSize = 1
  Conservative = FALSE
  Programs <- MCPrograms
  MaxObjects = 5
  ObjectSizes = {0, 1, 2}
  NonPrimarySizes = {1, 3}
  Page = 16
  Base = 64
  NumGroups = 2
  MaxTls = 3
  Outputs <- MCOutputs
INVARIANTS
  NothingIsLost
  ReferencesAreKept
  EveryBranchReaches
  SectionsAreApart
  SegmentsMapTheirSections
  GroupsFillTheirParts
PROPERTIES
  TerminatesUnlessSpinning
