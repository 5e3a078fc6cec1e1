\* A crew of two on a job with a route; three photos of two reports; a shift with one place; two saves of a
\* week; a request and two bookings for a window of one or two places.
CONSTANTS
  e1 = e1
  e2 = e2
  j1 = j1
  r1 = r1
  p1 = p1
  p2 = p2
  p3 = p3
  f1 = f1
  f2 = f2
  s1 = s1
  h1 = h1
  h2 = h2
  w1 = w1
  w2 = w2
  q1 = q1
  b2 = b2
  b1 = b1
  c1 = c1
  d1 = d1
  None = None
  Employees = {e1, e2}
  Jobs = {j1}
  Routes = {r1}
  Reports = {f1, f2}
  Photos = {p1, p2, p3}
  MaxPhotos = 2
  Shifts = {s1}
  Places = 1
  Hours = {h1, h2}
  Saves = {w1, w2}
  Requests = {q1}
  Bookings = {b1, b2}
  Customers = {c1}
  Slots = {d1}
  Capacities = {1, 2}
SPECIFICATION PortalsSpec
SYMMETRY Symmetric
INVARIANTS CrewInStep SavedIsThere
PROPERTIES SubmittedStands ShiftsFit InStep PlacesAreFound DateIsTold
CHECK_DEADLOCK FALSE
