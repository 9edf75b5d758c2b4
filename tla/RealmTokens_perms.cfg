CONSTANTS
  w1 = w1  w2 = w2  sc1 = sc1  nm1 = nm1  p1 = p1  p2 = p2
  Workers <- MCWorkers
  Scopes <- MCScopes
  Names <- MCNames
  Perms <- MCTwoPerms
  MaxAccount = 1
  MaxRealm = 1
  MaxToken = 1
  MaxAlias = 2
  MaxSerial = 2
SYMMETRY MCSymmetry
SPECIFICATION Spec
PROPERTIES ApprovedPermsStable PromiseKept
CHECK_DEADLOCK FALSE
