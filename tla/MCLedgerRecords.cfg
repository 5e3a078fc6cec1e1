\* Two concurrent requests, an expense and a transfer, one period that can close.
CONSTANTS
  c1 = c1
  c2 = c2
  n1 = n1
  n2 = n2
  n3 = n3
  None = None
  Clients = {c1, c2}
  Numbers = {n1, n2, n3}
  Periods = {"jan"}
  LineSets <- RecordLineSets
  Records = {"expense", "transfer"}
  Transfers = {"transfer"}
  Payloads = {}
  MaxRuns = 0
  CanExpire = FALSE
  Parts = {"records"}
SPECIFICATION LedgerSpec
SYMMETRY Symmetric
INVARIANT RecordsInBook
