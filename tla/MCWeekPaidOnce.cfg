\* A payment recorded of an approved register, which is then voided.
CONSTANTS
  r1 = r1
  r2 = r2
  a1 = a1
  a2 = a2
  None = None
  Runs = {r1, r2}
  Periods = {{1}, {2}}
  LastWeek = 2
  Wages = {1}
  Adjustments = {a1, a2}
  Amounts = {1}
  ServiceWeeks = {1}
  Paydays = {2, 3}
  Priors = {1}
  MaxOpenings = 2
  Grosses = {101}
  Verified <- VerifiedWages
  Months = {9, 10}
  LastMonth = 10
  SsBase = 150
  Threshold = 150
  MaxActivity = 1
SPECIFICATION PayrollSpec
SYMMETRY Symmetric
INVARIANT WeekPaidOnce
CHECK_DEADLOCK FALSE
