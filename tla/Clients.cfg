SPECIFICATION SuiteSpec
CONSTANTS
  MaxCalls = 2
  MaxAsks = 1
  ClosesEarly = TRUE
  AdapterCalls = 2
  AdapterAsks = 2
  Transports = {"process", "socket"}
  ShortWrites = TRUE
INVARIANTS StoppedSettles MessagesFollow ExitIsClean
PROPERTIES KeepsLedger StoppedServerLeaves AdapterKeepsLedger StopOfProcessIsHeard
CHECK_DEADLOCK FALSE
