SPECIFICATION FairSpec
CONSTANTS
  MaxCalls = 5
  Configs <- MCConfigs
CHECK_DEADLOCK FALSE
INVARIANTS
  FirstPagesOnly
  HousekeepingOnce
  ErrorEndsInvocation
  HealthyServerFullyRead
PROPERTIES
  InvocationReturns
