CONSTANTS
  w1 = w1  w2 = w2  b1 = b1  b2 = b2  e1 = e1  e2 = e2
  Workers <- MCWorkers
  Browsers <- MCBrowsers
  Emails <- MCEmails
  MaxAttempts = 2
  MaxRequest = 2
SYMMETRY MCSymmetry
SPECIFICATION Spec
INVARIANTS OneRequestPerEmail GuessesBounded
PROPERTIES SubmitterProved
CHECK_DEADLOCK FALSE
