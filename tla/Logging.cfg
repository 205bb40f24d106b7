SPECIFICATION Spec
CONSTANTS
  Writers <- MCWriters
  Attempts = 2
  Conns <- MCConns
  Pids = {1, 2}
  Names = 2
  Clients <- MCClients
  Scenarios <- MCScenarios
  max_store_size = 1
  Tries = 1
  Senders = {"q1", "q2"}
  Plans <- MCPlans
INVARIANTS
  PositionTrue
  TakenOver
  OneEventPerCode
  RotationSafe
  InUseKept
PROPERTY LoggingReturns
CHECK_DEADLOCK FALSE
