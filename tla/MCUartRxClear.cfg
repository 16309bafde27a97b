SPECIFICATION Spec
CONSTANTS
  Size = 2
  Byte <- MCByte
  ReadSize = 2
  LengthMod = 3
  MaxFifo = 3
  MaxBytes = 4
  MaxTx = 0
INVARIANT ClearForgets
CHECK_DEADLOCK FALSE
