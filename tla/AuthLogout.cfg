CONSTANTS
  None = None
  Users = {u1}
  Browsers = {b1}
  Requests = {r1}
  Tokens = {t1, t2}
  Logins = {l1, l2}
  RATE_LIMIT_MAX = 2
  Faults = FALSE
  Restores = FALSE
SPECIFICATION Spec
PROPERTIES LogoutInvalidates
