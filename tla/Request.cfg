SPECIFICATION Spec
CONSTANTS
  Conns <- MCConns
  Servers = {"A", "B", "P"}
  Addresses = 2
  Scenarios <- MCScenarios
  Slaves <- MCSlaves
  SlaveOf <- MCSlaveOf
  Proxy = "P"
  Threads = {"t1", "t2"}
  QueryServer = "A"
  JobServer <- MCJobServer
INVARIANTS AnswerIsOwn AnsweredAs
PROPERTIES CallsReturn
CHECK_DEADLOCK FALSE
