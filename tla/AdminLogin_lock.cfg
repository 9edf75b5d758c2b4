CONSTANTS
  w1 = w1  w2 = w2
  Workers <- MCWorkers
  Threshold = 4
SPECIFICATION FairSpec
INVARIANTS GuessesBounded MailsBounded BareFew
PROPERTIES LockEnds
