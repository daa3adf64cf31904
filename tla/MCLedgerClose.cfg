\* A stop in the middle of an operation, without any fault.
SPECIFICATION RecoverySpec
CONSTANTS
  a1 = a1
  a2 = a2
  a3 = a3
  t1 = t1
  t2 = t2
  Main = Main
  NoThread = NoThread
  Address <- MCAddress
  Amount <- MCAmount
  InitialBalance = 1
  MaxTransactions = 2
  Thread <- MCThread
  AlarmOn <- MCNoAlarm
  MaxCrashes = 0
  MaxRowFailures = 0
CONSTRAINT MCFollowed
ACTION_CONSTRAINT MCLoads
INVARIANTS
  FetchFinds
CHECK_DEADLOCK FALSE
