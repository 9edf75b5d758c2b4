CONSTANTS
  w1 = w1  w2 = w2  c1 = c1  c2 = c2
  Workers <- MCWorkers
  Codes <- MCCodes
  TfaMax = 2
  RecoveryMax = 1
SPECIFICATION FairSpec
INVARIANTS TypeOK WrongCodesBounded CodeAcceptedFew
PROPERTIES LockEnds
