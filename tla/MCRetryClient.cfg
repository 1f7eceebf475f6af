CONSTANTS
  StatusCode <- MCStatusCode
  Method <- MCMethod
  Policies <- MCPolicies
SPECIFICATION FairSpec
CHECK_DEADLOCK FALSE
INVARIANTS
  WholeBodyOnEveryAttempt
  ReturnedResponseReadable
  BackoffSchedule
PROPERTIES
  CallReturns
  ImplementsRemoteCall
