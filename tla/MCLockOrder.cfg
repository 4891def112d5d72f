SPECIFICATION FairSpec
CONSTANTS
  r1 = r1
  r2 = r2
  r3 = r3
  a1 = a1
  a2 = a2
  t1 = t1
  t2 = t2
  s1 = s1
  s2 = s2
  c1 = c1
  c2 = c2
  m1 = m1
  k1 = k1
  Free = Free
  Everyone = Everyone
  Requests = {r1, r2, r3}
  Accounts <- TwoAccounts
  Entries <- TwoEntries
  Staged <- TwoStaged
  Recurrences <- TwoRecurrences
  Templates = {m1}
  IdempotencyKeys = {k1}
  Place <- Places
  Asked <- Together
INVARIANTS
  NoDeadlock
PROPERTIES
  EveryRequestEnds
CHECK_DEADLOCK FALSE
