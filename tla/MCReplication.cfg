\* Two servers that forward to each other.
SPECIFICATION Spec
CONSTANTS
  a1 = a1
  a2 = a2
  Address <- MCAddress
  Amount <- MCAmount
  InitialBalance = 1
  MaxTransactions = 5
  MaxRequests = 5
SYMMETRY MCSymmetry
INVARIANTS
  BalancesAgree
  FollowerMirrors
CHECK_DEADLOCK FALSE
