CONSTANTS
  w1 = w1  w2 = w2  p1 = p1
  Workers <- MCWorkers
  Processes <- MCProcesses
  Process <- MCProcess
  NotifyUser = TRUE
  NotifyAdmin = TRUE
  MaxAccount = 1
  MaxUser = 2
  MaxEvent = 3
SPECIFICATION Spec
INVARIANTS BothAddressesHear StraysFew
PROPERTY AlertsTried
