CONSTANTS
  p1 = p1
  p2 = p2
  k1 = k1
  k2 = k2
  r1 = r1
  sweeper = sweeper
  leaver = leaver
  None = None
  Presses = {p1,p2}
  Keys = {k1,k2}
  Readers = {r1}
  Sweeper = sweeper
  Leaver = leaver
  Casts <- LeavingCasts
  Subs = {s1,s2}
  Customers = {c1,c2}
SPECIFICATION BillingSpec
INVARIANTS NobodyGoneIsCharged
CHECK_DEADLOCK FALSE
