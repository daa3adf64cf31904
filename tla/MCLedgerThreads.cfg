\* Two threads and the alarm.
SPECIFICATION ThreadsSpec
CONSTANTS
  a1 = a1
  a2 = a2
  t1 = t1
  t2 = t2
  Main = Main
  NoThread = NoThread
  Address <- MCAddress
  Amount <- MCOneAmount
  InitialBalance = 1
  MaxTransactions = 2
  Thread <- MCTwoThreads
  AlarmOn <- MCAlarm
INVARIANTS
  NoOverdraft
CHECK_DEADLOCK FALSE
