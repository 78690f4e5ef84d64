CONSTANTS
  None = None
  p1 = p1
  p3 = p3
  Procs = {p1}
  Users = {u1}
  Admins = {}
  Orgs <- MCOrgs
  Decimal <- MCDecimal
  LongNames <- MCLongNames
  Pages <- MCOnePage
  PoolSize = 1
  Losses = FALSE
  MaxHistory = 1
SPECIFICATION Spec
INVARIANTS EveryLookupIsRecorded
