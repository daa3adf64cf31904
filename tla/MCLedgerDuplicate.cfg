\* Two threads make the same payment.
SPECIFICATION ThreadsSpec
CONSTANTS
  a1 = a1
  a2 = a2
  t1 = t1
  t2 = t2
  Main = Main
  NoThread = NoThread
  Address <- MCAddress
  Amount <- MCAmount
  InitialBalance = 1
  MaxTransactions = 2
  Thread <- MCTwoThreads
  AlarmOn <- MCNoAlarm
INVARIANTS
  NoDuplicateTransaction
CHECK_DEADLOCK FALSE
