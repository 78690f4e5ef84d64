CONSTANTS
  None = None
  Users = {u1}
  Browsers = {b1}
  Requests = {r1, r2}
  Tokens = {t1, t2}
  Logins = {l1, l2}
  RATE_LIMIT_MAX = 2
  Faults = TRUE
  Restores = TRUE
SPECIFICATION Spec
INVARIANTS TypeOK
PROPERTIES DeactivatedOnlyLose AccountsStay
SYMMETRY Symmetry
