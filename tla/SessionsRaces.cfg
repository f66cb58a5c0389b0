SPECIFICATION SessionsSpec
CONSTANTS
  t1 = t1
  t2 = t2
  t3 = t3
  b1 = b1
  b2 = b2
  Browsers = {b1, b2}
  Tabs = {t1, t2, t3}
  LoggedIn = {b1, b2}
  Requests = {r1, r2, r3}
  BrowserOf <- MCBrowserOf
INVARIANTS
  ExchangedOnce
  OrderlyUseIsSafe
PROPERTIES
  DeadStaysDead
SYMMETRY RequestSymmetry
