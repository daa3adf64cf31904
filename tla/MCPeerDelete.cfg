\* A node deleted while another thread uses it.
SPECIFICATION Spec
CONSTANTS
  n1 = n1
  n2 = n2
  s1 = s1
  s2 = s2
  Free = Free
  NoService = NoService
  Node <- MCNode
  vAddrToConnect <- MCTwice
  MAXINBOUND = 1
  MAXRECVSIZE = 0
  MaxSend = 1
INVARIANTS
  HeldUntilReleased
