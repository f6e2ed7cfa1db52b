CONSTANTS
  Programs <- MCPrograms
  MemoryBase = 16
  PageSize = 64
  StackAlign = 16
  MaxPages = 8
SPECIFICATION Spec
INVARIANTS
  ModuleIsRight
  MemoryIsApart
