SPECIFICATION Spec
CONSTANTS
  Size <- MCSize
  Byte <- MCByte
  MaxCall <- MCMaxCall
INVARIANTS TypeOK FlagsAgree
PROPERTY ImplementsFifo
