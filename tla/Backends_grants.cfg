CONSTANTS
  w1 = w1  w2 = w2  d1 = d1
  Workers <- MCWorkers
  Domains <- MCDomains
  MaxAccount = 1
  MaxBackend = 1
  MaxRoot = 1
  MaxGrant = 1
  MaxRealm = 3
SPECIFICATION Spec
SYMMETRY Symmetry
INVARIANTS LateFew FalseSuccessFew
