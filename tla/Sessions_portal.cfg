CONSTANTS
  w1 = w1  w2 = w2  b1 = b1  b2 = b2
  Workers <- MCWorkers
  Browsers <- MCBrowsers
  MaxAccount = 1
  MaxSession = 2
SPECIFICATION FairSpec
INVARIANTS CookieHasRow
PROPERTIES EndedStaysOut RedirectsEnd
CHECK_DEADLOCK FALSE
