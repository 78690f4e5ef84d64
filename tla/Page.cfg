CONSTANTS
  None = None
  b1 = b1
  Users = {u1}
  Browsers = {b1}
  Requests = {r1, r2}
  Tokens = {t1, t2, t3}
  Logins = {l1, l2}
  RATE_LIMIT_MAX = 2
  Faults = FALSE
  Restores = FALSE
  Tabs = {w1, w2}
  LoginTabs = {w1}
  BrowserOf <- MCBrowserOf
SPECIFICATION FairPage
INVARIANTS OneTokenPerLogin SessionSurvives
PROPERTIES CallEnds LoadingEnds
