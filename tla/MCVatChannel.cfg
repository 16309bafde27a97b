SPECIFICATION Spec
CONSTANTS
  Size = 2
  Byte <- MCByte
  ReadSize = 2
  MaxChunk = 3
  MaxPending = 2
  MaxBytes = 5
  MaxPolls = 1
INVARIANTS TypeOK NoLostWakeup InOrder
PROPERTY Drained
CHECK_DEADLOCK FALSE
