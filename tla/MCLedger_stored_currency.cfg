SPECIFICATION Spec
CONSTANTS
  a1 = a1
  a2 = a2
  Nobody = Nobody
  Accounts <- TwoAccounts
  Entries = {e1, e2}
  Currencies = {"eur", "usd"}
  Drafts <- MixedDrafts
  Patches <- MovePatches
  Openings = {0}
  LastDay = 2
  Zones = {0, 1}
INVARIANTS
  RowNamesItsCurrencies
CHECK_DEADLOCK FALSE
