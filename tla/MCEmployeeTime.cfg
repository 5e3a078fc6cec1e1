\* Two requests on two entries; an entry may end one and a half seconds ahead.
CONSTANTS
  c1 = c1
  c2 = c2
  e1 = e1
  e2 = e2
  None = None
  Clients = {c1, c2}
  Ids = {e1, e2}
  MaxTime = 3
  Ahead = 3
  MaxShift = 3
  Breaks = {1}
  Runs = {}
  Entries = {}
  Own = {}
  Requests = {}
  LeaveWeeks = {}
  LastWeek = 1
  Hours <- NoHours
  Separations = {}
  Rates = {}
  RateWeeks = {}
  Threshold = 0
  WorkPerLeave = 1
  Parts = {"times"}
SPECIFICATION PayrollSpec
SYMMETRY SymmetricTimes
INVARIANT TimesFit
PROPERTY ApprovedAsReviewed
