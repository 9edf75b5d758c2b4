CONSTANTS
  w1 = w1  w2 = w2
  Workers <- MCWorkers
  Sections <- MCSections
  NoKey = NoKey
  SeedDemo = TRUE  MaxKill = 1
SPECIFICATION FairSpec
INVARIANTS OneImporter
PROPERTIES ConfigKept KeysAgree AllServe
