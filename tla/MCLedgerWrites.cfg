SPECIFICATION WSpec
CONSTANTS
  a1 = a1
  a2 = a2
  e1 = e1
  e2 = e2
  e3 = e3
  r1 = r1
  r2 = r2
  r3 = r3
  Nobody = Nobody
  Free = Free
  Accounts <- TwoAccounts
  Entries <- ThreeEntries
  Existing = {e1}
  Imported <- FromFiles
  Requests <- ThreeRequests
  May <- Served
  Rank <- Ranks
  Currencies = {"usd"}
  Drafts <- SmallDrafts
  Patches <- MovePatches
  Openings = {0, 2}
  LastDay = 1
  Zones = {0}
INVARIANTS
  ArchivedReadsZero
PROPERTIES
  CommitsAreAtomic
  NoLostUpdate
  NoSilentDuplicate
CHECK_DEADLOCK FALSE
