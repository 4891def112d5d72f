SPECIFICATION Spec
CONSTANTS
  a1 = a1
  a2 = a2
  Nobody = Nobody
  Accounts <- TwoAccounts
  Entries = {e1}
  Currencies = {"usd"}
  Drafts <- PlainDrafts
  Patches <- PlainPatches
  Openings = {1}
  LastDay = 3
  Zones = {0, 1}
INVARIANTS
  ArchivedReadsZero
CHECK_DEADLOCK FALSE
