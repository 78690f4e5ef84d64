CONSTANTS
  None = None
  p1 = p1
  p3 = p3
  Procs = {p1, p2, p3}
  Users = {u1, u2}
  Admins = {u2}
  Orgs <- MCEveryOrg
  Decimal <- MCDecimal
  LongNames <- MCLongNames
  Pages <- MCPages
  PoolSize = 2
  Losses = TRUE
  MaxHistory = 2
SPECIFICATION FairSpec
INVARIANTS OneRecordPerLookup AnswerIsRecorded PageIsFull ListedIsFound DocumentIsFaithful
PROPERTIES EveryRequestEnds
CONSTRAINT Bounded
