SPECIFICATION SteadySpec
SYMMETRY Swappable
CONSTANTS
  a1 = a1
  a2 = a2
  Nobody = Nobody
  Accounts <- TwoAccounts
  Entries = {e1, e2}
  Currencies = {"eur", "usd"}
  Drafts <- RefundDrafts
  Patches <- RetypePatches
  Openings = {0, 1}
  LastDay = 3
  Zones = {0, 1}
INVARIANTS
  BalanceIsTheBooks
  ZeroSum
  EntriesSettled
  NoOrphanPostings
CHECK_DEADLOCK FALSE
