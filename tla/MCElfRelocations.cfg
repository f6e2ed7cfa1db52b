SPECIFICATION Spec
CONSTANTS
  Programs <- MCPrograms
  RelrEntrySize = 4
  RelrSlots = 2
  GotHeader = 3
INVARIANTS
  ReservedIsUsed
  ReferencesAreRight
CHECK_DEADLOCK FALSE
