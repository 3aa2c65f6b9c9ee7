SPECIFICATION FairSpec
CONSTANTS
  Timeout = 3
  MaxLines = 3
INVARIANTS TypeOK VerdictIsTrue
PROPERTIES TestAndQemuEnd
CHECK_DEADLOCK FALSE
