SPECIFICATION Spec
CONSTANTS
  Size = 3
  Byte <- MCByte
  ReadSize = 2
  LengthMod = 4
  MaxFifo = 4
  MaxBytes = 6
  MaxTx = 1
INVARIANTS TypeOK NoLostWakeup InOrder NewestKept 
CHECK_DEADLOCK FALSE
