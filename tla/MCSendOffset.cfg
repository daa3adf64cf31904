\* A send that reads behind its message.
SPECIFICATION Spec
CONSTANTS
  Size <- MCSize
  MaxMessages = 4
  Junk = Junk
INVARIANTS
  OffsetInsideMessage
CHECK_DEADLOCK FALSE
