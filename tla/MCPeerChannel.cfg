\* The send queue, the stream and the receiver.
SPECIFICATION ChannelSpec
CONSTANTS
  Size <- MCSize
  MaxMessages = 3
  MaxRecv = 8
  Junk = Junk
INVARIANTS
  TypeOK
  NothingLost
  JunkEndsTheStream
  InOrder
  LosslessIfPaced
CHECK_DEADLOCK FALSE
