CONSTANTS
  w1 = w1  w2 = w2  a1 = a1  a2 = a2  a3 = a3  c1 = c1
  Workers <- MCWorkers
  Accounts <- MCAccounts
  Chats <- MCChats
  NoChat = NoChat
  MaxToken = 4
SYMMETRY MCSymmetry
SPECIFICATION Spec
INVARIANTS SharedByFew UsedByFew
CHECK_DEADLOCK FALSE
