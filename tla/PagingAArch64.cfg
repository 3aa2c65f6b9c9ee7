SPECIFICATION Spec
CONSTANTS
  Entries = 2
  PoolSize = 9
  PageBytes = 3
  BootTables <- BootWalks
  MemoryMaps <- Maps
  Areas <- SomeAreas
  Mappings <- SomeMappings
  Unmappings <- SomeUnmappings
INVARIANTS TypeOK InitFoldsHalves CacheIsFresh CallsDoAsAsked
PROPERTIES ImplementsAddressSpace
CHECK_DEADLOCK FALSE
