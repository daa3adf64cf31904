\* Locks and queues of the peer threads, with two peers to connect to.
SPECIFICATION Spec
CONSTANTS
  n1 = n1
  n2 = n2
  s1 = s1
  s2 = s2
  Free = Free
  NoService = NoService
  Node <- MCNode
  vAddrToConnect <- MCTwoPeers
  MAXINBOUND = 1
  MAXRECVSIZE = 1
  MaxSend = 1
SYMMETRY MCSymmetry
INVARIANTS
  TypeOK
  OneNodePerPeer
PROPERTIES
  ProcessedQueueIsStable
  EndsConnected
