CONSTANTS
  w1 = w1  w2 = w2  dev = dev  other = other  a1 = a1  a2 = a2
  Workers <- MCWorkers
  Names <- MCNames
  Device = dev
  Addrs <- MCAddrs
  MaxId = 6
  MaxCalls = 2
  MaxMoves = 2
SPECIFICATION FairSpec
INVARIANTS TypeOK NothingInvented DuplicatesBounded
PROPERTIES Settles
CHECK_DEADLOCK FALSE
