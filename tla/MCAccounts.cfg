\* Two sessions, tokens and requests; two users with up to three roles; two messages; two addresses; four attempts in two windows.
CONSTANTS
  s1 = s1
  s2 = s2
  t1 = t1
  t2 = t2
  r1 = r1
  r2 = r2
  u1 = u1
  u2 = u2
  e1 = e1
  e2 = e2
  m1 = m1
  d1 = d1
  d2 = d2
  x1 = x1
  x2 = x2
  a1 = a1
  a2 = a2
  h1 = h1
  h2 = h2
  h3 = h3
  h4 = h4
  Platform = Platform
  None = None
  Sessions = {s1, s2}
  Tokens = {t1, t2}
  Requests = {r1, r2}
  MaxPasswords = 3
  Users = {u1, u2}
  Root = u1
  Entities = {e1, e2}
  Units = {m1}
  Entity = e1
  EntityOf <- EntityOfUnits
  Removals = {d1, d2}
  MaxAssigned = 3
  Messages = {x1, x2}
  Addresses = {a1, a2}
  Edits = {d1, d2}
  Attempts = {h1, h2, h3, h4}
  Limit = 2
  MaxWindows = 2
SPECIFICATION AccountsSpec
INVARIANTS AdminRemains ListsAgree OldPasswordsEnd  FailuresBounded
PROPERTY PrimaryKept
CHECK_DEADLOCK FALSE
