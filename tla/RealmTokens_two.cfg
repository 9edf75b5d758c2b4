CONSTANTS
  w1 = w1  w2 = w2  sc1 = sc1  nm1 = nm1  p1 = p1  p2 = p2
  Workers <- MCWorkers
  Scopes <- MCScopes
  Names <- MCNames
  Perms <- MCPerms
  MaxAccount = 2
  MaxRealm = 1
  MaxToken = 1
  MaxAlias = 3
  MaxSerial = 1
SYMMETRY MCSymmetry
SPECIFICATION Spec
INVARIANTS TypeOK ServedWasLive
CHECK_DEADLOCK FALSE
PROPERTIES DeadSecretsStayDead 
