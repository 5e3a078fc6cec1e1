\* Two weeks; an entry of this unit and an earlier one of another unit.
CONSTANTS
  r1 = r1
  r2 = r2
  q1 = q1
  q2 = q2
  None = None
  Runs = {r1, r2}
  Entries = {1, 2}
  Own = {2}
  Requests = {q1, q2}
  LeaveWeeks = {{1}, {2}}
  LastWeek = 2
  Hours <- HoursOfEntries
  Separations = {1}
  Rates = {1, 2}
  RateWeeks = {1}
  Threshold = 2
  WorkPerLeave = 1
  Clients = {}
  Ids = {}
  MaxTime = 0
  Ahead = 0
  MaxShift = 0
  Breaks = {}
  Parts = {"runs"}
SPECIFICATION PayrollSpec
SYMMETRY Symmetric
INVARIANTS PeriodsDisjoint TermsStand WorkAccounted
PROPERTY ImplementsRegisters
