\* The ledger, its links and its histories.
SPECIFICATION Spec
CONSTANTS
  a1 = a1
  a2 = a2
  a3 = a3
  Address <- MCAddress
  Amount <- MCAmount
  InitialBalance = 2
  MaxTransactions = 3
SYMMETRY MCSymmetry
INVARIANTS
  TypeOK
  NoOverdraft
  Chained
  NoDuplicateTransaction
  HistoryIsComplete
  BalanceMatchesHistory
PROPERTIES
  PaymentsMoveCoins
CHECK_DEADLOCK FALSE
