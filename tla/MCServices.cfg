CONSTANTS
  Recurrences = {c1, c2, c3}
  Schedulers = {s1}
  Free = Free
  Rules <- DailyRule
  Occurs <- DailyOccurs
  Posted <- DailyPosted
  CatchUp = 1
  Zones = {0}
  Watermarks = {0}
  Notices = {FALSE}
  LastDay = 2
  MaxVersion = 1
  ClaimLimit = 2
  Broken = {c1}
  MaxFaults = 1
  BaseYear = 2027
  BaseWeekday = 5
  Wishes <- MCWishes
  Replicas = {w1, w2}
  ClockDays = {30, 33, 60, 61, 91, 800}
  LastHour = 1
  CatchUpLimit = 3
  Lookahead = 4
  SaveLimit = 2
  Opened = 4
  MaxFree = 2
  Standings <- MCStandings
  Rows = {t1, t2}
  QueueAccounts = {a1}
  Requests = {q1, q2}
  Blank = Blank
  EditLimit = 1
  k1 = k1
  k2 = k2
  k3 = k3
  g1 = g1
  Categories = {k1, k2, k3}
  Groups = {g1}
  Plans = {"p1", "p2"}
  Overrides = {"o1", "o2"}
  NoCategory = NoCategory
  LastPeriod = 2
  CategoryCasts <- MCCategoryCasts
  l1 = l1
  l2 = l2
  Ledgers = {l1, l2}
  MaxId = 5
  NoOne = NoOne
  Bounds <- MCRooms
  Filing <- MCFiling
  Bundles = {g1}
  NoAmount = NoAmount
  MaxRank = 2
  EndOfTime = 4
  MaxRollover = 2
  Households <- MCHouseholds
SPECIFICATION ServicesSpec
INVARIANTS ServicesTypeOK NextIsFirstOwed NoSilentFreeze SelectionAllOrNothing OneBudgetAPeriod HeldOnce MovesGoThrough FiguresAddUp EarlierPeriodsStand EnvelopesPayTheirOwnWay
PROPERTIES LateCatchesUp ClaimedOnce InUseStaysInUse NothingOnClosedAccount CategoriesGoCleanly
CHECK_DEADLOCK FALSE
