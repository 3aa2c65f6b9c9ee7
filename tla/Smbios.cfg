\* Every table of MCTables; a length of 128 or more wraps in dumpTable.
CONSTANTS
  Tables <- MCTables
  LengthLimit = 128
  PageSize = 64
  MemorySize = 320
SPECIFICATION Spec
INVARIANTS TypeOK WholeTableIsWalked ReadsAreOfTheStructure
