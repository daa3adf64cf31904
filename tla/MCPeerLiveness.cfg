\* Progress of the message handler and of the reaping of nodes.
SPECIFICATION FairSpec
CONSTANTS
  n1 = n1
  n2 = n2
  s1 = s1
  s2 = s2
  Free = Free
  NoService = NoService
  Node <- MCNode
  vAddrToConnect <- MCOnePeer
  MAXINBOUND = 0
  MAXRECVSIZE = 0
  MaxSend = 1
PROPERTIES
  HandlerComesBack
  DisconnectedIsReaped
