CONSTANTS
  Callers = {c1, c2}
  Keys = {k1}
  Doors = {mcp}
  Requests = {r1, r2}
  Sweepers = {s1}
  Nobody = Nobody
  Retention = 1
  BatchSize = 1
  MaxTries = 2
  MaxTime = 3
SPECIFICATION FairSpec
CHECK_DEADLOCK FALSE
INVARIANTS OncePerWindow RecordsStandForWork AnswersAreHonest RetriesAreQuiet
PROPERTIES NothingElseIsSwept EveryCallEnds
