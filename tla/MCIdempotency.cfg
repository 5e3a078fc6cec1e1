\* Three requests with one key and two bodies; at most two executions of each.
CONSTANTS
  None = None
  Clients = {"a", "b", "c"}
  Numbers = {}
  Periods = {}
  LineSets = {}
  Records = {}
  Transfers = {}
  Payloads = {"p", "q"}
  MaxRuns = 2
  CanExpire = TRUE
  Parts = {"keys"}
SPECIFICATION KeysSpec
INVARIANTS OneExecutor
PROPERTIES ResponseStands KeyNotStuck
