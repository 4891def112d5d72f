CONSTANTS
  Recurrences = {c1}
  Schedulers = {s1, s2}
  Free = Free
  Rules <- TwoRules
  Occurs <- TwoOccurs
  Posted <- TwoPosted
  CatchUp = 2
  Zones <- AnyZone
  Watermarks = {0, 2}
  Notices = {TRUE, FALSE}
  LastDay = 4
  MaxVersion = 2
  ClaimLimit = 1
  Broken = {}
  MaxFaults = 1
SPECIFICATION Spec
SYMMETRY Interchangeable
INVARIANTS NextIsDue NoCollision SettledInFull ToldOnce
PROPERTIES KeepsThePromise
