CONSTANTS
  w1 = w1  w2 = w2
  Workers <- MCWorkers
  MaxAccount = 1
  MaxRow = 3
  MaxHolder = 2
  MaxLink = 3
SYMMETRY MCSymmetry
SPECIFICATION Spec
INVARIANTS TypeOK SpentLinkIsDead LinksBounded
PROPERTIES DeadLinkStaysDead ResetEndsOlderLinks
CHECK_DEADLOCK FALSE
