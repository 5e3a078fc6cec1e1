\* Three requests in each part; two sessions and lines; two dates, amounts, entry numbers and balances; three accounts; two payments and periods.
CONSTANTS
  r1 = r1
  r2 = r2
  r3 = r3
  s1 = s1
  s2 = s2
  l1 = l1
  l2 = l2
  a1 = a1
  a2 = a2
  a3 = a3
  p1 = p1
  p2 = p2
  n1 = n1
  n2 = n2
  None = None
  Requests = {r1, r2, r3}
  Sessions = {s1, s2}
  Lines = {l1, l2}
  Amount <- AmountOf
  Movements = {1, 2}
  Tolerance = 0
  LastDate = 2
  Amounts = {1, 2}
  Numbers = {n1, n2}
  Balances = {2, 3}
  Accounts = {a1, a2, a3}
  Payments = {p1, p2}
  Periods = {p1, p2}
  Totals = {2, 3}
SPECIFICATION BooksSpec
SYMMETRY Symmetry
INVARIANTS CompletedStands MadeOnce PairAgrees LedgerAgrees StructureStands PaymentsAgree FileIsThere
CHECK_DEADLOCK FALSE
