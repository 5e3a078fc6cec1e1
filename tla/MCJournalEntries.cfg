\* Two concurrent requests, three entries, two periods.
CONSTANTS
  c1 = c1
  c2 = c2
  n1 = n1
  n2 = n2
  n3 = n3
  None = None
  Clients = {c1, c2}
  Numbers = {n1, n2, n3}
  Periods = {"jan", "feb"}
  LineSets <- EntryLineSets
  Records = {}
  Transfers = {}
  Payloads = {}
  MaxRuns = 0
  CanExpire = FALSE
  Parts = {"entries"}
SPECIFICATION LedgerSpec
SYMMETRY Symmetric
INVARIANTS PostedEntriesBalance ReversalsMirror
PROPERTIES ImplementsBook
