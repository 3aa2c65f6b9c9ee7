SPECIFICATION FairSpec
CONSTANTS
  PageSize = 8
  HeaderSize = 2
  LinkSize = 2
  SizeLimit = 64
  CountLimit = 4
  Sizes = {0, 1, 3, 7, 63}
  Arena <- TwoPages
  PageAddrs <- TwoPageAddrs
INVARIANTS TypeOK BlocksPartition Accounting OverrunOnlyFromSplit
PROPERTIES FreeListServes ImplementsHeap CallsAreServed
CHECK_DEADLOCK FALSE
