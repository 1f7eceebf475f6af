SPECIFICATION SessionSpec
CONSTANTS
  Sessions <- MCSessions
  Config <- MCConfig
  Environments <- MCEnvironments
  Requests <- MCRequests
  MaxAttempts = 2
  MaxSent = 3
INVARIANTS CarriesOwnCredentials SignedAsSent CallsAuthenticateAlike
CHECK_DEADLOCK FALSE
