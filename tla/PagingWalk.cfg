SPECIFICATION FairSpec
CONSTANTS
  Entries = 2
  PoolSize = 9
  PageBytes = 3
  Hhdm = 8
  BootTables <- BootWalks
  MemoryMaps <- WalkMaps
  Requests <- NoRequests
INVARIANTS TypeOK TablesFormATree InitIsFaithful
CHECK_DEADLOCK FALSE
