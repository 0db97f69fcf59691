SPECIFICATION ScopeSpec
CONSTANTS
  Backends = {b1, b2}
  Lag = 1
  MaxHead = 3
  N = 3
  BatchSize = 2
  RpcAttempts = 3
  Ids = {1, 2}
  Accounts = {A, B}
  MaxAccounts = 2
INVARIANTS AnswersAreContracts JudgedByLastRoundTrip PinServedEverywhere ScopeExact
PROPERTY CallEnds
CHECK_DEADLOCK FALSE
