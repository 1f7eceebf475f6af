SPECIFICATION FairSpec
CONSTANTS
  Configs <- MCConfigs
  MaxPages = 8
  MaxAgain = 2
CHECK_DEADLOCK FALSE
INVARIANTS
  FirstRowsOnly
  HealthyServerFullyRead
PROPERTIES
  ReadingEnds
