SPECIFICATION FairSpec
CONSTANTS
  Entries = 2
  PoolSize = 8
  PageBytes = 3
  Hhdm = 8
  BootTables <- BootAreas
  MemoryMaps <- AllKept
  Requests <- Areas
INVARIANT MappedUpToHuge
PROPERTIES ImplementsAddressSpace KernelGoesOn
CHECK_DEADLOCK FALSE
