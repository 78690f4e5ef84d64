CONSTANTS
  None = None
  Users = {u1}
  Browsers = {b1}
  Requests = {r1, r2}
  Tokens = {t1}
  Logins = {l1}
  RATE_LIMIT_MAX = 2
  Faults = TRUE
  Restores = FALSE
SPECIFICATION FairSpec
PROPERTIES LockEnds
