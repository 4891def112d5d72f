CONSTANTS
  Callers = {c1, c2}
  Keys = {k1}
  Doors = {service, mcp}
  Requests = {r1, r2}
  Sweepers = {s1, s2}
  Nobody = Nobody
  Retention = 1
  BatchSize = 1
  MaxTries = 2
  MaxTime = 2
SPECIFICATION Spec
CHECK_DEADLOCK FALSE
PROPERTIES NothingElseIsSwept
