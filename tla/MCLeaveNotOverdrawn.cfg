\* One register pays out, and one request comes after it.
CONSTANTS
  r1 = r1
  q1 = q1
  None = None
  Runs = {r1}
  Entries = {1, 2}
  Own = {2}
  Requests = {q1}
  LeaveWeeks = {{2}}
  LastWeek = 2
  Hours <- HoursOfEntries
  Separations = {1}
  Rates = {1}
  RateWeeks = {1}
  Threshold = 2
  WorkPerLeave = 1
  Clients = {}
  Ids = {}
  MaxTime = 0
  Ahead = 0
  MaxShift = 0
  Breaks = {}
  Parts = {"runs"}
SPECIFICATION PayrollSpec
PROPERTY LeaveNotOverdrawn
