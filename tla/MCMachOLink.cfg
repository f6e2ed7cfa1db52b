CONSTANTS
  Programs <- MCPrograms
  ImageBase = 65536
  PageSize = 16384
  MaxSectionIndex = 10
SPECIFICATION Spec
INVARIANTS
  ReferencesReach
  FileIsConsistent
CHECK_DEADLOCK FALSE
