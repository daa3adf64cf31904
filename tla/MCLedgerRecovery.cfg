\* Stops in the middle of an operation, crashes and failing row writes.
SPECIFICATION RecoverySpec
CONSTANTS
  a1 = a1
  a2 = a2
  a3 = a3
  t1 = t1
  t2 = t2
  Main = Main
  NoThread = NoThread
  Address <- MCAddress
  Amount <- MCAmount
  InitialBalance = 1
  MaxTransactions = 2
  Thread <- MCThread
  AlarmOn <- MCAlarm
  MaxCrashes = 1
  MaxRowFailures = 1
CONSTRAINT MCFollowed
SYMMETRY MCSymmetry
INVARIANTS
  LinksResolve
  HashesCurrent
PROPERTIES
  ComesUpAsClosed
  ServesAsLedger
CHECK_DEADLOCK FALSE
